\* A client that pipelines two requests.
CONSTANTS
  Clients = {a}
  Scripts <- OnePair
  Eager = {a}
  MaxBody = 2
  SndBuf = 2
  Departures = {}
  Listener = listener
  InitCap = 1
  IOChunk = 3
  Timeout = 1
  MaxTime = 0
  Faults = {}
  AllowSignal = FALSE
SPECIFICATION FairSpec
PROPERTIES
  Served
