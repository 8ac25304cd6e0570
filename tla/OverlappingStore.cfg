SPECIFICATION Spec
CONSTANTS
  p = p
  q = q
  kC = kC
  kD = kD
  good = good
  stale = stale
  user = user
  secret = secret
  typo = typo
  Proc <- MCProc
  Key = {kC}
  Entry = {good}
  NoEntry = NoEntry
  Migrated <- MCMigrated
  Passphrase = {secret}
  NoPass = NoPass
  Ctx <- MCCtx
  NoCtx = NoCtx
  CtxOf <- MCCtxOf
  Inode = {i1, i2, i3}
  NoInode = NoInode
  Serialized = FALSE
  RenameOpenFiles = FALSE
PROPERTY
  InvocationEnds
