\* The loop ends, idle connections are reaped.
CONSTANTS
  Clients = {a, b}
  Scripts <- Keepers
  Eager = {}
  MaxBody = 2
  SndBuf = 2
  Departures = {}
  Listener = listener
  InitCap = 1
  IOChunk = 3
  Timeout = 0
  MaxTime = 1
  Faults = {}
  AllowSignal = TRUE
CHECK_DEADLOCK FALSE
SPECIFICATION FairSpec
PROPERTIES
  SignalEndsLoop
  IdleIsReaped
