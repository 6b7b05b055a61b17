CONSTANTS
  s1 = s1
  s2 = s2
  p1 = p1
  p2 = p2
  None = None
  Others <- MCOthers
  Pacmans <- MCPacmans
  Packages = {"msys2-runtime", "git"}
  Core = {"msys2-runtime"}
  Runtime = "msys2-runtime"
  OtherEntries = 0
  MaxVersion = 2
  Homes = {"/", "/home/user"}
  Root = "/"
  Fallback = "/"
SYMMETRY Alike
SPECIFICATION InstallationSpec
INVARIANTS InstallationTypeOK DoneIsThere
PROPERTIES OldRuntimeGone
