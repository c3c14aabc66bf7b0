SPECIFICATION FairSpec
CONSTANTS
  Certs = {a, b}
  NoCert = NoCert
  FirstCert = a
  Requests = {r1, r2, r3}
  NoRequest = NoRequest
  Simulate = FALSE
  OneAtATime = TRUE
  Prompt = FALSE
  ByTheLog = TRUE
  MaxIssued = 1
  MaxAdmin = 0
  MaxFaults = 0
PROPERTIES
  OldRevoked
