SPECIFICATION LoopFairSpec
CONSTANTS
  Certs = {a, b}
  NoCert = NoCert
  FirstCert = a
  Requests = {r1, r2}
  NoRequest = NoRequest
  Simulate = FALSE
  OneAtATime = TRUE
  Prompt = TRUE
  ByTheLog = TRUE
  Restarted = TRUE
  MaxIssued = 2
  MaxAdmin = 1
  MaxFaults = 2
INVARIANTS
  LoopTypeOK
  NeverLockedOut
  RestartIsSafe
  ConfirmationStands
PROPERTIES
  KeepsRotationPromise
  OldRevoked
  ChunksGetThrough
