SPECIFICATION Spec
CONSTANTS
  Chunks = {c1, c2}
  Hashes = {h1, h2}
  Calls = {k1, k2, k3}
  NoHash = NoHash
  Racing = {c2}
INVARIANTS
  TypeOK
  AcceptedIsStored
  QuietAnswersTrue
PROPERTIES
  ImplementsStoreOnce
