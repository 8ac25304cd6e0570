SPECIFICATION Spec
CONSTANTS
  Symbol <- MCSymbol
  Uid <- MCUid
  Enc <- MCEnc
  NoId = NoId
  FormatUuid <- MCFormatUuid
  Platform = {"linux", "win32"}
  Volume <- MCVolume
INVARIANT
  PassMeansNoDisagreement
