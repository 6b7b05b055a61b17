CONSTANTS
  Pids = {p1, p2}
  p1 = p1
  p2 = p2
  p3 = p3
  NoPid = NoPid
  Junk = Junk
  Absent = Absent
  Kinds <- MixedKinds
  Paths <- MCPaths
  EmptyPath = ""
  NameLen <- MCNameLen
  ProcessIncrement = 2
  ModulesIncrement = 2
  HandleWords = 2
  ScratchSize = 4
  DwordSize = 2
  SizeModulus = 16
  StackLimit = 12
  MaxChurn = 2
  MoveSuffix = TRUE
  Debug = TRUE
SPECIFICATION FairSpec
INVARIANTS TypeOK CompactionIntact EntriesWereLocking SteadySmallFound ListSound ReallocOnlyOnChange
PROPERTIES ScanEnds ImplementsMonitor
