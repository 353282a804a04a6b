\* Three clients whose connections persist, who may leave or fall idle, and
\* calls that fail.  The server stops if poll or listen does.
CONSTANTS
  Clients = {a, b, c}
  Scripts <- Keepers
  Eager = {}
  MaxBody = 2
  SndBuf = 2
  Departures = {"eof"}
  Listener = listener
  InitCap = 1
  IOChunk = 3
  Timeout = 0
  MaxTime = 1
  Faults = {"listen", "accept", "poll"}
  AllowSignal = FALSE
CHECK_DEADLOCK FALSE
SPECIFICATION Spec
SYMMETRY ClientSymmetry
INVARIANTS
  FreshIds
  IndInv
  TableSound
  RoundServesAll
