CONSTANTS
  a = a
  b = b
  c = c
  lib = lib
  Packages = {a, b, c}
  Names = {a, b, c, lib}
  NoPackage = NoPackage
  Recipes <- SharedNames
  Threads = 2
SPECIFICATION Spec
INVARIANTS ExactlyChanged
