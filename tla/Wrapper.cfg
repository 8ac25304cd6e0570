SPECIFICATION Spec
CONSTANTS
  Symbol = {1}
  Id <- MCId
  NoId = NoId
  Key = {"C:", "D:"}
  V1Key = {"c:", "C:", "D:"}
  Upper <- MCUpper
  NoEntry = NoEntry
  Observed <- MCObserved
  Strange <- MCStrange
  Passphrase = {secret, typo}
  NoPass = NoPass
  Ctx = {user}
  NoCtx = NoCtx
  Salt = {salt1}
  Iterations = 2
  Absent = Absent
  NotString = NotString
  NotBase64 = NotBase64
  NotNumeral = NotNumeral
  NotNumber = NotNumber
  NotJson = NotJson
  NotDict = NotDict
  MaxHarm = 2
  user = user
  secret = secret
  typo = typo
  salt1 = salt1
SYMMETRY Renamings
INVARIANTS
  TypeOK
  OnlyWrittenIdentitiesOpen
  NeverLockedOut
  OnlyKdfRaises
  AgreesWithStoreFormat
PROPERTIES
  RegistrationInventsNothing
  RegistrationForgetsNothing
