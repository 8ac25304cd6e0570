SPECIFICATION Spec
CONSTANTS
  Symbol <- MCSymbol
  Uid <- MCUid
  Enc <- MCEnc
  NoId = NoId
  FormatUuid <- MCFormatUuid
  Platform = {"linux"}
  Volume <- MCVolume
INVARIANT
  WeakMeansUnencrypted
