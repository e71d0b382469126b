\* Two pieces of text, two files, a padded and the tagged modes.
CONSTANTS
  Digests = {"MD5", "SHA1"}
  HmacKeys = {"k1", "k2"}
  Data = {"a", "b"}
  Class = "AES"
  Modes = {"CBC", "CCM", "GCM"}
  Keys <- MCKeys
  IVs = {"v"}
  Texts = {"x", "y"}
  MaxPieces = 2
  FirstTexts <- MCFirstTexts
  fileA = fileA
  fileB = fileB
  CipherFiles = {fileA, fileB}
  MaxDigestSteps = 6
  MaxCipherSteps = 5
SPECIFICATION Spec
INVARIANTS TypeOK SumIsOfItsMessage OpensWhatItMade
SYMMETRY MCFileSymmetry
CHECK_DEADLOCK FALSE
