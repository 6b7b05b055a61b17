CONSTANTS
  m = m
  x = x
  z = z
  Processes = {m, x, z}
  Main = m
  Tables <- MaybeX
  NoProcess = NoProcess
  Pids = {1, 2, 3}
  NoPid = NoPid
  Kinds <- OneMsys
  Signals = {"SIGINT", "SIGKILL"}
  MaxLen = 4
  MaxLate = 1
SPECIFICATION FairSpec
INVARIANTS TypeOK ListIsTree OnlyDescendants SteadyHandled ZeroMeansTerminated
PROPERTIES TreeEnds
