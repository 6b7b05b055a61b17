CONSTANTS
  a = a
  b = b
  c = c
  lib = lib
  Packages = {a, b, c}
  Names = {a, b, c, lib}
  NoPackage = NoPackage
  Recipes <- Graphs
  Threads = 2
  Base = {a, c}
  DontInstall = {c}
SPECIFICATION CIFairSpec
INVARIANTS CITypeOK EachOnce DepsFirst WarnedOnlyOnCycles ExactlyChangedIfDistinct RepoServable CleanSystem NoStaleDeps UploadClosed SuccessMeansAll
PROPERTIES BuildEnds
