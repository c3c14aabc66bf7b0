SPECIFICATION FairSpec
CONSTANTS
  c1 = c1
  c2 = c2
  h1 = h1
  h2 = h2
  Producers = {p1}
  Workers = {w1}
  Calls = {k1, k2}
  MaxBatch = 2
  AttemptCap = 1
  NoHash = NoHash
  NoSlot = NoSlot
  NoCall = NoCall
  HashOf <- MCHashOf
  EmptyHash = hEmpty
  Hashes = {h1, h2, hEmpty}
  Chunks = {c1}
  MaybeEmpty = {}
  MaxFaults = 1
PROPERTIES
  MismatchDeadLettered
