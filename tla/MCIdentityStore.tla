--------------------------- MODULE MCIdentityStore ---------------------------
(* Small instances of IdentityStore for TLC: two keys, two identities of    *)
(* which one survives migration, two passphrases, one Windows user p and a  *)
(* process q without DPAPI.                                                 *)
EXTENDS IdentityStore, TLC

CONSTANTS p, q, kC, kD, good, stale, user, secret, typo

MCProc == {p, q}
MCKey == {kC, kD}
MCEntry == {good, stale}
MCMigrated == [e \in Entry |-> IF e = good THEN good ELSE NoEntry]
MCCtxOf == [r \in MCProc |-> IF r = p THEN user ELSE NoCtx]
\* Both processes run as the user.
MCOneUser == [r \in MCProc |-> user]
MCPassphrase == {secret, typo}
MCCtx == {user}

\* The user has a store already.
UserSpec == Spec /\ Live \in DpapiStores

\* The names of files, keys and passphrases do not matter; only for runs
\* without liveness properties.
Renamings ==
  Permutations(Inode) \cup Permutations(MCKey) \cup Permutations(MCPassphrase)

=============================================================================
