SPECIFICATION FairSpec
CONSTANTS
  Fingerprints = {f1, f2}
  Devices = {d1, d2, d3}
  NoDevice = NoDevice
  Certs = {t1, t2}
  NoCert = NoCert
  Handlers = {x, y}
  MaxActs = 3
  MaxFaults = 1
INVARIANTS
  TypeOK
  EnrolledOnce
  NoStrayDevice
PROPERTIES
  ActiveAgain
CHECK_DEADLOCK FALSE
