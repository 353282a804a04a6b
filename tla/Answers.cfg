SPECIFICATION Spec
CONSTANTS
  ChunkSize = 2
  MaxLen = 2
  MaxWrites = 2
  MaxTime = 1
  Modulus = 16
  ReadErrors = TRUE
  MaxCalls = 3
  Bodies <- MCBodies
  Events <- MCEvents
  Requests <- MCRequests
INVARIANTS
  TypeOK
  AnswersDelimited
  LastBuilderCounts
  EventsRead
  DescriptorsClosed
  NotModifiedIsCurrent
  FileAsAsked
