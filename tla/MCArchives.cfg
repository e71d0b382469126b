\* Archives that are there or not, and five operations on them.
CONSTANTS
  f1 = f1
  f2 = f2
  Sources = {f1, f2}
  MaxContent = 2
  Zips = {z1, z2}
  Names = {"d/1", "d/2"}
  NameOf <- MCNameOf
  Groups = {{"d/1", "d/2"}}
  MaxEntries = 4
  TarPaths = {"a.tar", "a.tar.gz"}
  Suffix <- MCSuffix
  Stem <- MCStem
  MaxBlocks = 4
  MaxSteps = 5
SPECIFICATION Spec
INVARIANTS TypeOK
PROPERTIES ZipIsMap TarHoldsAdded
CHECK_DEADLOCK FALSE
