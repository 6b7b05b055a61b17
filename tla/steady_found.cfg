CONSTANTS
  Pids = {p1, p2}
  p1 = p1
  p2 = p2
  p3 = p3
  NoPid = NoPid
  Junk = Junk
  Absent = Absent
  Kinds <- MixedKinds
  Paths <- MCPaths
  EmptyPath = ""
  NameLen <- MCNameLen
  ProcessIncrement = 1
  ModulesIncrement = 1
  HandleWords = 1
  ScratchSize = 5
  DwordSize = 4
  SizeModulus = 16
  StackLimit = 10
  MaxChurn = 0
  MoveSuffix = FALSE
  Debug = FALSE
SPECIFICATION Spec
INVARIANTS SteadyFound
