SPECIFICATION Spec
CONSTANTS
  Symbol <- MCSymbol
  Uid <- MCUid
  Enc <- MCEnc
  NoId = NoId
  FormatUuid <- MCFormatUuid
  Platform = {"win32", "linux", "darwin"}
  Volume <- MCVolume
CONSTRAINT OneEntry
INVARIANTS
  TypeOK
  PassMeansRegisteredVolume
  NoCrossPlatformPass
  RawIsEarned
  WindowsChannelsAgree
  LinuxChannelsAgree
  RegistrationIsTruthful
  ConflictIsReal
  DenialIsReal
  RaiseHidesAMatch
