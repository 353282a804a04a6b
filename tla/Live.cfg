\* Polite clients are answered.
CONSTANTS
  Clients = {a, b}
  Scripts <- Waiters
  Eager = {}
  MaxBody = 2
  SndBuf = 1
  Departures = {}
  Listener = listener
  InitCap = 1
  IOChunk = 3
  Timeout = 1
  MaxTime = 0
  Faults = {}
  AllowSignal = FALSE
SPECIFICATION FairSpec
PROPERTIES
  Served
