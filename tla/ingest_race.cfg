SPECIFICATION Spec
CONSTANTS
  Chunks = {c1}
  Hashes = {h1, h2}
  Calls = {k1, k2}
  NoHash = NoHash
  Racing = {c1}
PROPERTIES
  FirstHashStays
