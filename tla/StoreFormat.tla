---------------------------- MODULE StoreFormat ----------------------------
(***************************************************************************)
(* The identity-store file as a value: what a file can hold, how the       *)
(* program seals a map of entries into it, and what _load_store answers    *)
(* when it opens one (source/volume_verifier.py, "Identity store").        *)
(*                                                                         *)
(* An entry (unique_id, strength, fingerprint, ...) is opaque here: the    *)
(* store only keeps it under its key.  VolumeVerifier.tla looks inside.    *)
(***************************************************************************)

CONSTANTS
  Key,         \* store keys: what _store_key gives for a volume
  Entry,       \* the identities a source can observe and an entry can record
  NoEntry,     \* "no entry under this key"
  Migrated,    \* v1 entry -> v2 entry, NoEntry where the migration skips it
  Passphrase,  \* passphrases a user may give
  NoPass,      \* no --passphrase and no VOLUME_VERIFIER_PASSPHRASE
  Ctx,         \* DPAPI contexts: one user on one Windows machine
  NoCtx        \* a process without DPAPI (any platform but Windows)

ASSUME NoEntryAssumption == NoEntry \notin Entry
ASSUME MigratedAssumption == Migrated \in [Entry -> Entry \cup {NoEntry}]
ASSUME PassAssumption == NoPass \notin Passphrase
ASSUME CtxAssumption == NoCtx \notin Ctx

-----------------------------------------------------------------------------
(* What a file can hold.                                                   *)

Entries == [Key -> Entry \cup {NoEntry}]
NoEntries == [k \in Key |-> NoEntry]

\* A truncated file, and one that overlapping or interrupted writes left
\* with the bytes of no single store.  Neither is valid JSON.
Empty == [kind |-> "empty", by |-> NoPass, entries |-> NoEntries]
Torn == [kind |-> "torn", by |-> NoPass, entries |-> NoEntries]

\* A v1 store: a plain JSON object of entries, without format_version.
V1(m) == [kind |-> "v1", by |-> NoPass, entries |-> m]

\* What a reader of a path without a file sees.
Missing == [kind |-> "missing", by |-> NoPass, entries |-> NoEntries]

\* The v2 wrapper of the entries m: DPAPI_USER for the user's own context,
\* HMAC_PASSPHRASE as soon as a passphrase is given.
Seal(m, pass, ctx) ==
  IF pass = NoPass
    THEN [kind |-> "DPAPI_USER", by |-> ctx, entries |-> m]
    ELSE [kind |-> "HMAC_PASSPHRASE", by |-> pass, entries |-> m]

\* _dpapi_protect raises STORE_PROTECTION_UNAVAILABLE outside Windows.
CanSeal(pass, ctx) == pass # NoPass \/ ctx # NoCtx

Broken == {Empty, Torn}
Legacy == {V1(m) : m \in Entries}
DpapiStores == [kind : {"DPAPI_USER"}, by : Ctx, entries : Entries]
HmacStores == [kind : {"HMAC_PASSPHRASE"}, by : Passphrase, entries : Entries]
Contents == Broken \cup Legacy \cup DpapiStores \cup HmacStores

-----------------------------------------------------------------------------
(* Opening a file.                                                         *)

\* The reason code _load_store raises for the content c, "OK" when it
\* returns the entries.  A passphrase is not even looked at for a DPAPI
\* store; a store sealed by another user or machine does not decrypt, which
\* is reported as corruption.
LoadReason(c, pass, ctx) ==
  CASE c.kind = "v1" -> "STORE_SCHEMA_MISMATCH"
    [] c.kind = "DPAPI_USER" ->
         IF c.by = ctx THEN "OK" ELSE "STORE_CORRUPTED"
    [] c.kind = "HMAC_PASSPHRASE" ->
         IF pass = NoPass THEN "STORE_PASSPHRASE_REQUIRED"
         ELSE IF c.by = pass THEN "OK" ELSE "STORE_MAC_MISMATCH"
    [] OTHER -> "STORE_CORRUPTED"

Opens(c, pass, ctx) == LoadReason(c, pass, ctx) = "OK"

\* _migrate_legacy_entries: every v1 entry that reproduces its fingerprint,
\* in its v2 form; the others are skipped.
Migrate(m) ==
  [k \in Key |-> IF m[k] = NoEntry THEN NoEntry ELSE Migrated[m[k]]]

\* The entries a registration starts from, given the content it read.
Inherited(c) ==
  CASE c.kind = "v1" -> Migrate(c.entries)
    [] c.kind = "missing" -> NoEntries
    [] OTHER -> c.entries

=============================================================================
