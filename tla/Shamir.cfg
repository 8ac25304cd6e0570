SPECIFICATION Spec
CONSTANTS
  W = 8
  Irreducible = 283
  Digit = {48, 49, 50, 51, 52, 53, 54, 55, 56, 57}
  KeyLength = 2
  Text <- MCText
  N = {1, 3, 256}
  K = {1, 2, 3}
  Given = {0, 2, 3}
  Random = {0, 200}
  Damage = {0, 53}
  NotHex = NotHex
  MaxHeld = 3
INVARIANTS
  TypeOK
  EnoughSharesGiveTheKey
  OneShareHidesTheKey
  OneWrongShareNeverGivesTheKey
  NeverDividesByZero
