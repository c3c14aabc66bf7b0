SPECIFICATION LoopFairSpec
CONSTANTS
  Certs = {a, b}
  NoCert = NoCert
  FirstCert = a
  Requests = {r1, r2}
  NoRequest = NoRequest
  Simulate = FALSE
  OneAtATime = TRUE
  Prompt = TRUE
  ByTheLog = TRUE
  Restarted = FALSE
  MaxIssued = 0
  MaxAdmin = 0
  MaxFaults = 1
PROPERTIES
  ChunksGetThrough
