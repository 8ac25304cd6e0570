SPECIFICATION Spec
CONSTANTS
  p = p
  q = q
  kC = kC
  kD = kD
  good = good
  stale = stale
  user = user
  secret = secret
  typo = typo
  Proc <- MCProc
  Key <- MCKey
  Entry <- MCEntry
  NoEntry = NoEntry
  Migrated <- MCMigrated
  Passphrase <- MCPassphrase
  NoPass = NoPass
  Ctx <- MCCtx
  NoCtx = NoCtx
  CtxOf <- MCCtxOf
  Inode = {i1, i2}
  NoInode = NoInode
  Serialized = TRUE
  RenameOpenFiles = TRUE
INVARIANTS
  TypeOK
  StoreIntact
  ViewIsCurrent
PROPERTIES
  NothingForgotten
  ProtectionOnlyStrengthens
  RegistrySpec
SYMMETRY Renamings
