SPECIFICATION FairSpec
CONSTANTS
  Certs = {a, b, c}
  NoCert = NoCert
  FirstCert = a
  Requests = {r1, r2}
  NoRequest = NoRequest
  Simulate = FALSE
  OneAtATime = FALSE
  Prompt = TRUE
  ByTheLog = TRUE
  MaxIssued = 2
  MaxAdmin = 0
  MaxFaults = 0
PROPERTIES
  OldRevoked
