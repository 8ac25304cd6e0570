SPECIFICATION Spec
CONSTANTS
  S = 8
  Byte = {0, 1, 2, 3, 4, 5, 6, 7}
  Sector <- MCSector
  Bad = Bad
  Size = {1, 3}
  Offset = {0, 1}
  Window = 2
  Ntfs <- MCNtfs
  Fve <- MCFve
  Luks <- MCLuks
  Ext4 <- MCExt4
  SwapSig <- MCSwapSig
  MaxChanges = 1
INVARIANTS
  TypeOK
  FveIsOldOrNew
  AbsenceHasACause
  FveIsOnTheMedium
