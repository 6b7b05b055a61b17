CONSTANTS
  a = a
  b = b
  c = c
  lib = lib
  Packages = {a, b, c}
  Names = {a, b, c, lib}
  NoPackage = NoPackage
  Recipes <- Graphs
  Threads = 2
  Base = {a, c}
  DontInstall = {c}
SPECIFICATION CISpec
INVARIANTS DetectionFailureReported
