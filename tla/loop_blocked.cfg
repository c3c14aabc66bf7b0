SPECIFICATION LoopFairSpec
CONSTANTS
  Certs = {a, b}
  NoCert = NoCert
  FirstCert = a
  Requests = {r1, r2}
  NoRequest = NoRequest
  Simulate = FALSE
  OneAtATime = TRUE
  Prompt = TRUE
  ByTheLog = FALSE
  Restarted = TRUE
  MaxIssued = 1
  MaxAdmin = 1
  MaxFaults = 0
PROPERTIES
  ChunksGetThrough
