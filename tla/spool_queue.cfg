SPECIFICATION Spec
CONSTANTS
  Chunks = {c1, c2}
  Hashes = {h1, h2}
  Slots = {s1, s2}
  Producers = {p1, p2}
  Workers = {w1}
  MaxBatch = 2
  AttemptCap = 2
  NoHash = NoHash
  NoSlot = NoSlot
SYMMETRY Symmetry
INVARIANTS
  TypeOK
  AckedStored
  NoStrandedLease
  InFlightLeased
PROPERTIES
  Final
  BackoffGrows
