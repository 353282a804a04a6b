\* One connection that may be ended from either side: two requests of every
\* shape, well formed or not, in every split of reads and partial sends.
CONSTANTS
  Clients = {a}
  Scripts <- AllPairs
  Eager = {a}
  MaxBody = 2
  SndBuf = 1
  Departures = {"eof", "rst"}
  Listener = listener
  InitCap = 1
  IOChunk = 3
  Timeout = 0
  MaxTime = 1
  Faults = {}
  AllowSignal = FALSE
SPECIFICATION Spec
INVARIANTS
  WriteHasOutput
  StreamInv
  StreamWellFramed
  OneAnswerEach
  LeftoverIsNextRequest
  NothingAfterClose
  BodyExact
PROPERTIES
  CloseIsClean
  ImplementsService
