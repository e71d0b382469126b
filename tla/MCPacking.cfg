\* Two entries of up to two blocks, one of which changes once; texts of up to five
\* units and a buffer of two.
CONSTANTS
  f1 = f1
  f2 = f2
  Files = {f1, f2}
  Paths = {"x", "./x", "y"}
  PathsOf <- MCPathsOf
  PathOf <- MCPathOf
  Stripped <- MCStripped
  MaxSize = 2
  MaxVersions = 2
  MaxStored = 2
  Units = {1, 2, 3, 4, 5}
  Texts <- MCTexts
  Wrong = 0
  MaxWrong = 3
  Buffer = 2
SPECIFICATION MCSpec
INVARIANTS InflateTypeOK UnpacksWhatWasPacked AddsWhatItTells ReadsWhatWasWritten
PROPERTIES DecompressReturns
CHECK_DEADLOCK FALSE
