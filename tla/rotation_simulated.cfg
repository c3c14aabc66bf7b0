SPECIFICATION Spec
CONSTANTS
  Certs = {a, b}
  NoCert = NoCert
  FirstCert = a
  Requests = {r1, r2}
  NoRequest = NoRequest
  Simulate = TRUE
  OneAtATime = TRUE
  Prompt = TRUE
  ByTheLog = TRUE
  MaxIssued = 1
  MaxAdmin = 0
  MaxFaults = 0
INVARIANTS
  NeverLockedOut
