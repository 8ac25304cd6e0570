---------------------------- MODULE StoreWrapper ----------------------------
(***************************************************************************)
(* Inside the identity-store file: the fields of the v2 wrapper, of its    *)
(* entries and of v1 entries, the order in which _load_store examines      *)
(* them, and what a registration makes of a store some of whose fields an  *)
(* accident has changed (source/volume_verifier.py, "Identity store").     *)
(*                                                                         *)
(* Processes and file operations are IdentityStore.tla's.  PBKDF2, HMAC    *)
(* and DPAPI are taken to be perfect: a tag is what was authenticated, a   *)
(* blob what was encrypted, and an accident makes neither.                 *)
(***************************************************************************)
EXTENDS Sequences, Naturals

CONSTANTS
  Symbol,      \* what identifiers and digests are made of
  Id,          \* volume and encryption ids: strings that are not empty
  NoId,        \* None
  Key,         \* store keys
  V1Key,       \* keys of a v1 store, in any letter case
  Upper,       \* str.upper: v1 key -> key
  NoEntry,     \* "no entry under this key"
  Observed,    \* the identities a registration may find
  Strange,     \* entries of other versions, which this one refuses
  Passphrase, NoPass,
  Ctx, NoCtx,  \* DPAPI: one user on one machine; no DPAPI
  Salt,
  Iterations,  \* KDF_ITERATIONS
  \* What a field holds that does not have the type it should have.
  Absent,      \* there is no such field
  NotString,   \* JSON, but no string
  NotBase64,   \* a string, but no base64
  NotNumeral,  \* a string int() refuses
  NotNumber,   \* null, a list, an infinite number
  NotJson,     \* bytes that are no JSON, no salt, no tag, no blob
  NotDict,     \* JSON, but no object
  MaxHarm      \* bound: fields changed by accidents since the last write

Odd == {NoId, NoEntry, NoPass, NoCtx, Absent, NotString, NotBase64, NotNumeral,
        NotNumber, NotJson, NotDict}

(* What fields hold: strings, entries of v2 and v1 stores, payloads, DPAPI   *)
(* blobs, the parameters of the key and HMAC tags.                           *)
Text == Seq(Symbol)
AnyLegacy ==
  [uid : Text \cup {NotString}, bid : Text \cup {NoId, NotString},
   fp : Text \cup {NotString}]
AnyEntry ==
  [uid : Text \cup {NotString}, bid : Text \cup {NoId, NotString},
   strength : {"WEAK", "STANDARD", "other"}, fp : Text \cup {NotString}]
Payload == [Key -> AnyEntry \cup {NoEntry}]
Blob == [ctx : Ctx, payload : Payload]
AnyKdf == [salt : Salt \cup Odd, iterations : Nat \cup Odd]
Tag == [pass : Passphrase, kdf : AnyKdf, payload : Payload]

ASSUME OddAssumption ==
  /\ NoId # NotString
  /\ \A v \in Odd : v \notin Text \cup AnyLegacy \cup AnyEntry \cup Payload \cup Blob
                          \cup AnyKdf \cup Tag \cup Nat \cup Salt
                          \cup Passphrase \cup Ctx

ASSUME KeyAssumption == Key # {}
ASSUME IdAssumption == Id \subseteq Text \ {<<>>}
ASSUME ObservedAssumption == Observed \subseteq [uid : Id, bid : Id \cup {NoId}]
ASSUME UpperAssumption == Upper \in [V1Key -> Key]
ASSUME IterationsAssumption == Iterations \in Nat \ {0}

VARIABLES
  file,    \* what the store's name holds
  truth,   \* history: key -> the identities the last writer put under it
  owner,   \* history: who wrote the file, and with which protection
  harm     \* history: how many of its fields have changed since

vars == <<file, truth, owner, harm>>

-----------------------------------------------------------------------------
(* Entries.                                                                *)

IsStr(v) == v \notin {NoId, NotString}

FingerprintOf(uid, bid) == IF bid = NoId THEN uid ELSE uid \o bid

\* register_volume's entry of what it observed, as far as _validate_entry
\* and the fingerprint look at it.
MakeEntry(i) ==
  [uid |-> i.uid, bid |-> i.bid,
   strength |-> IF i.bid = NoId THEN "WEAK" ELSE "STANDARD",
   fp |-> FingerprintOf(i.uid, i.bid)]

\* _validate_entry, of entries that are objects with the fields that count here:
\* another entry, or an optional field of another type, is refused as these are.
ValidEntry(e) ==
  /\ IsStr(e.uid) /\ e.bid # NotString
  /\ e.strength \in {"WEAK", "STANDARD"}
  /\ IsStr(e.fp)

ASSUME StrangeAssumption ==
  Strange \subseteq AnyEntry /\ \A e \in Strange : ~ ValidEntry(e)

\* The encryption id that counts in a v1 entry: a string, and not empty.
LegacyBid(v) == IF IsStr(v.bid) /\ v.bid # <<>> THEN v.bid ELSE NoId

\* Mutant: a bitlocker_id goes into the v2 entry as it is.
MigrateEntryVerbatim(v) ==
  [MakeEntry([uid |-> v.uid, bid |-> LegacyBid(v)]) EXCEPT !.bid = v.bid]

\* An empty bitlocker_id stays what it is.
MigrateEntry(v) ==
  [MakeEntry([uid |-> v.uid, bid |-> LegacyBid(v)]) EXCEPT
     !.bid = IF IsStr(v.bid) THEN v.bid ELSE NoId]

\* Mutant: the recorded fingerprint is not recomputed.
TrustsEntry(v) ==
  v \notin {NoEntry, NotDict} /\ IsStr(v.uid) /\ v.uid # <<>>

\* Whether _migrate_legacy_entries takes v over: a fingerprint that is no
\* string is not compared.
Migrates(v) ==
  /\ v \notin {NoEntry, NotDict}
  /\ IsStr(v.uid) /\ v.uid # <<>>
  /\ IsStr(v.fp) => v.fp = FingerprintOf(v.uid, LegacyBid(v))

Candidates(legacy, k) ==
  {MigrateEntry(legacy[j]) : j \in {j \in V1Key : Upper[j] = k /\ Migrates(legacy[j])}}

\* The maps that may come out: of keys that differ by case the later one in
\* the file wins.
MigrateLegacyEntries(legacy) ==
  {m \in [Key -> UNION {Candidates(legacy, k) : k \in Key} \cup {NoEntry}] :
     \A k \in Key : IF Candidates(legacy, k) = {} THEN m[k] = NoEntry
                    ELSE m[k] \in Candidates(legacy, k)}

\* What verify_volume compares of an entry.
IdentityOf(e) ==
  [uid |-> e.uid, bid |-> IF e.strength = "STANDARD" THEN e.bid ELSE NoId]

-----------------------------------------------------------------------------
(* Files.                                                                  *)

NoEntries == [k \in Key |-> NoEntry]
NoLegacy == [j \in V1Key |-> NoEntry]

Missing ==
  [root |-> "missing", version |-> "absent", protection |-> "absent",
   entries |-> Absent, payload |-> Absent, mac |-> Absent, kdf |-> Absent,
   legacy |-> NoLegacy]

V1(legacy) == [Missing EXCEPT !.root = "dict", !.legacy = legacy]

Mac(pass, kdf, payload) == [pass |-> pass, kdf |-> kdf, payload |-> payload]

Kdf(salt) == [salt |-> salt, iterations |-> Iterations]

\* _store_wrapper_bytes, with the salt it draws.
StoreWrapperBytes(m, pass, ctx, salt) ==
  IF pass = NoPass
    THEN [Missing EXCEPT !.root = "dict", !.version = "2",
            !.protection = "DPAPI_USER", !.entries = [ctx |-> ctx, payload |-> m]]
    ELSE [Missing EXCEPT !.root = "dict", !.version = "2",
            !.protection = "HMAC_PASSPHRASE", !.payload = m, !.kdf = Kdf(salt),
            !.mac = Mac(pass, Kdf(salt), m)]

-----------------------------------------------------------------------------
(* _load_store.  "RAISED" is an exception that is no VerifierError.        *)

PayloadReason(payload) ==
  IF payload \in {NotJson, NotDict} THEN "STORE_CORRUPTED"
  ELSE IF \A k \in Key : payload[k] = NoEntry \/ ValidEntry(payload[k])
  THEN "OK" ELSE "STORE_CORRUPTED"

\* _dpapi_unprotect: whatever it raises is reported as corruption.
DpapiReason(f, ctx) ==
  IF f.entries \in {Absent, NotString, NotBase64, NotJson} THEN "STORE_CORRUPTED"
  ELSE IF ctx = NoCtx \/ f.entries.ctx # ctx THEN "STORE_CORRUPTED"
  ELSE PayloadReason(f.entries.payload)

\* The fields of an HMAC store once it has them and a passphrase is given:
\* the salt, the iterations, the tag and the payload, in this order, then
\* PBKDF2, which refuses a count that is not positive or too large (0 here).
KdfReason(f) ==
  IF f.kdf.salt = NotString THEN "RAISED"
  ELSE IF f.kdf.salt \in {Absent, NotBase64} THEN "STORE_CORRUPTED"
  ELSE IF f.kdf.iterations = NotNumber THEN "RAISED"
  ELSE IF f.kdf.iterations \in {Absent, NotNumeral} \/ NotBase64 \in {f.mac, f.payload}
  THEN "STORE_CORRUPTED"
  ELSE IF f.kdf.iterations = 0 THEN "RAISED" ELSE "OK"

\* Mutant: the key does not depend on the passphrase.
HmacReasonAnyPass(f, pass) ==
  IF f.kdf \in {Absent, NotDict} \/ {f.payload, f.mac} \cap {Absent, NotString} # {}
  THEN "STORE_CORRUPTED"
  ELSE IF pass = NoPass THEN "STORE_PASSPHRASE_REQUIRED"
  ELSE IF KdfReason(f) # "OK" THEN KdfReason(f)
  ELSE IF f.mac = NotJson \/ f.mac # Mac(f.mac.pass, f.kdf, f.payload)
  THEN "STORE_MAC_MISMATCH"
  ELSE PayloadReason(f.payload)

\* Mutant: a tag of another length is not compared.
HmacReasonAnyTag(f, pass) ==
  IF f.kdf \in {Absent, NotDict} \/ {f.payload, f.mac} \cap {Absent, NotString} # {}
  THEN "STORE_CORRUPTED"
  ELSE IF pass = NoPass THEN "STORE_PASSPHRASE_REQUIRED"
  ELSE IF KdfReason(f) # "OK" THEN KdfReason(f)
  ELSE IF f.mac \notin {NotJson, Mac(pass, f.kdf, f.payload)} THEN "STORE_MAC_MISMATCH"
  ELSE PayloadReason(f.payload)

\* Mutant: the fields are used without a look at their types.
HmacReasonUntyped(f, pass) ==
  IF f.kdf \in {Absent, NotDict} \/ Absent \in {f.payload, f.mac}
  THEN "STORE_CORRUPTED"
  ELSE IF pass = NoPass THEN "STORE_PASSPHRASE_REQUIRED"
  ELSE IF NotString \in {f.payload, f.mac} THEN "RAISED"
  ELSE IF KdfReason(f) # "OK" THEN KdfReason(f)
  ELSE IF f.mac # Mac(pass, f.kdf, f.payload) THEN "STORE_MAC_MISMATCH"
  ELSE PayloadReason(f.payload)

HmacReason(f, pass) ==
  IF f.kdf \in {Absent, NotDict} \/ {f.payload, f.mac} \cap {Absent, NotString} # {}
  THEN "STORE_CORRUPTED"
  ELSE IF pass = NoPass THEN "STORE_PASSPHRASE_REQUIRED"
  ELSE IF KdfReason(f) # "OK" THEN KdfReason(f)
  ELSE IF f.mac # Mac(pass, f.kdf, f.payload) THEN "STORE_MAC_MISMATCH"
  ELSE PayloadReason(f.payload)

\* The reason _load_store raises, "OK" when it returns entries, "MISSING"
\* when it returns None.
LoadReason(f, pass, ctx) ==
  CASE f.root = "missing" -> "MISSING"
    [] f.root \in {"not JSON", "not an object"} -> "STORE_CORRUPTED"
    [] f.root = "dict" ->
         IF f.version # "2" THEN "STORE_SCHEMA_MISMATCH"
         ELSE IF f.protection = "DPAPI_USER" THEN DpapiReason(f, ctx)
         ELSE IF f.protection = "HMAC_PASSPHRASE" THEN HmacReason(f, pass)
         ELSE "STORE_SCHEMA_MISMATCH"

\* The entries it returns then.
Loaded(f) == IF f.protection = "DPAPI_USER" THEN f.entries.payload ELSE f.payload

\* Mutant: whatever cannot be read is replaced.
LoadStoreForgiving(f, pass, ctx) ==
  CASE LoadReason(f, pass, ctx) = "OK" -> {Loaded(f)}
    [] LoadReason(f, pass, ctx) = "STORE_SCHEMA_MISMATCH" /\ f.version = "absent" ->
         MigrateLegacyEntries(f.legacy)
    [] OTHER -> {NoEntries}

\* _load_store_for_register: the maps a registration may start from, none
\* when it is refused.  An object without format_version is a v1 store,
\* whatever else it holds.
LoadStoreForRegister(f, pass, ctx) ==
  CASE LoadReason(f, pass, ctx) = "MISSING" -> {NoEntries}
    [] LoadReason(f, pass, ctx) = "OK" -> {Loaded(f)}
    [] LoadReason(f, pass, ctx) = "STORE_SCHEMA_MISMATCH" /\ f.version = "absent" ->
         MigrateLegacyEntries(f.legacy)
    [] OTHER -> {}

-----------------------------------------------------------------------------
Entry == {MakeEntry(i) : i \in [uid : Id, bid : Id \cup {NoId}]}
LegacyEntry ==
  {[uid |-> i.uid, bid |-> i.bid, fp |-> FingerprintOf(i.uid, i.bid)] : i \in Observed}

Held(m) == [k \in Key |-> IF m[k] = NoEntry THEN {} ELSE {IdentityOf(m[k])}]

HeldV1(legacy) ==
  [k \in Key |-> {[uid |-> legacy[j].uid, bid |-> legacy[j].bid] :
                    j \in {j \in V1Key : Upper[j] = k /\ legacy[j] # NoEntry}}]

Nobody == [by |-> "nobody", pass |-> NoPass, ctx |-> NoCtx]
Us(pass, ctx) == [by |-> "us", pass |-> pass, ctx |-> ctx]
Others(pass, ctx) == [by |-> "others", pass |-> pass, ctx |-> ctx]

\* Mutant: any process can use DPAPI.
CanSealAnywhere(pass, ctx) == TRUE

\* _dpapi_protect raises where there is no DPAPI.
CanSeal(pass, ctx) == pass # NoPass \/ ctx # NoCtx

\* No store, a v1 store, or a store of a program that keeps other entries too.
Init ==
  /\ harm = 0
  /\ \/ file = Missing /\ truth = Held(NoEntries) /\ owner = Nobody
     \/ /\ \E legacy \in [V1Key -> LegacyEntry \cup {NoEntry}] :
             file = V1(legacy) /\ truth = HeldV1(legacy)
        /\ owner = Nobody
     \/ \E pass \in Passphrase \cup {NoPass}, ctx \in Ctx \cup {NoCtx}, salt \in Salt,
           m \in [Key -> {MakeEntry(i) : i \in Observed} \cup Strange \cup {NoEntry}] :
          /\ CanSeal(pass, ctx)
          /\ file = StoreWrapperBytes(m, pass, ctx, salt)
          /\ truth = Held(m) /\ owner = Others(pass, ctx)

\* register_volume of a volume whose evidence could be had; a refused one
\* changes nothing.
Register(k, i, pass, ctx) ==
  /\ CanSeal(pass, ctx)
  /\ \E m \in LoadStoreForRegister(file, pass, ctx), salt \in Salt :
       LET n == [m EXCEPT ![k] = MakeEntry(i)] IN
       /\ file' = StoreWrapperBytes(n, pass, ctx, salt)
       /\ truth' = Held(n)
  /\ owner' = Us(pass, ctx)
  /\ harm' = 0

\* What an accident makes of a field: a value it can hold, another type, or
\* no field.  Tags and blobs do not come about by accident.
HarmTo ==
  [root |-> {"not JSON", "not an object"},
   version |-> {"absent", "other"},
   protection |-> {"absent", "DPAPI_USER", "HMAC_PASSPHRASE", "other"},
   entries |-> {Absent, NotString, NotBase64, NotJson},
   payload |-> {Absent, NotString, NotBase64, NotJson, NotDict} \cup
     [Key -> {MakeEntry(i) : i \in Observed} \cup {NoEntry}],
   mac |-> {Absent, NotString, NotBase64, NotJson},
   kdf |-> {Absent, NotDict}]
KdfHarmTo ==
  [salt |-> {Absent, NotString, NotBase64, NotJson},
   iterations |-> {Absent, NotNumeral, NotNumber, 0, Iterations + 1}]

File ==
  [root : {"missing", "dict"} \cup HarmTo.root,
   version : {"2"} \cup HarmTo.version,
   protection : HarmTo.protection,
   entries : Blob \cup HarmTo.entries,
   payload : Payload \cup {Absent, NotString, NotBase64, NotJson, NotDict},
   mac : Tag \cup HarmTo.mac,
   kdf : AnyKdf \cup HarmTo.kdf,
   legacy : [V1Key -> AnyLegacy \cup {NoEntry, NotDict}]]

Accident == harm < MaxHarm /\ harm' = harm + 1 /\ UNCHANGED <<truth, owner>>

\* An accident in the wrapper: only a field that is there can change.
WrapperChanges ==
  /\ file.root = "dict" /\ owner # Nobody
  /\ \/ \E field \in DOMAIN HarmTo : \E v \in HarmTo[field] :
          /\ file[field] # Absent
          /\ file' = [file EXCEPT ![field] = v]
     \/ \E field \in DOMAIN KdfHarmTo : \E v \in KdfHarmTo[field] :
          /\ file.kdf \notin {Absent, NotDict}
          /\ file' = [file EXCEPT !.kdf[field] = v]
  /\ file' # file
  /\ Accident

\* An accident in an entry of a v1 store.
LegacyChanges ==
  /\ file.root = "dict" /\ owner = Nobody
  /\ \E j \in V1Key :
       /\ file.legacy[j] \notin {NoEntry, NotDict}
       /\ \/ file' = [file EXCEPT !.legacy[j] = NotDict]
          \/ \E v \in Id \cup {<<>>, NotString} : file' = [file EXCEPT !.legacy[j].uid = v]
          \/ \E v \in Id \cup {<<>>, NoId, NotString} : file' = [file EXCEPT !.legacy[j].bid = v]
          \/ \E v \in {FingerprintOf(u, b) : u \in Id, b \in Id \cup {NoId}} \cup {NotString} :
               file' = [file EXCEPT !.legacy[j].fp = v]
  /\ file' # file
  /\ Accident

\* The user deletes a store nothing else can be done with.
Delete ==
  /\ file.root # "missing"
  /\ file' = Missing /\ truth' = Held(NoEntries) /\ owner' = Nobody /\ harm' = 0

Next ==
  \/ \E k \in Key, i \in Observed, pass \in Passphrase \cup {NoPass}, ctx \in Ctx \cup {NoCtx} :
       Register(k, i, pass, ctx)
  \/ WrapperChanges
  \/ LegacyChanges
  \/ Delete

Spec == Init /\ [][Next]_vars

-----------------------------------------------------------------------------
(* Properties.                                                             *)

Pass == Passphrase \cup {NoPass}
Context == Ctx \cup {NoCtx}

\* Entries whose strength and fingerprint are those of their ids.
Consistent(e) ==
  e = NoEntry \/ (e.strength = MakeEntry(IdentityOf(e)).strength
                   /\ e.fp = MakeEntry(IdentityOf(e)).fp)

\* Every field holds what it may or what an accident makes of it, and a blob
\* was encrypted for a user.
TypeOK ==
  /\ file \in File /\ harm \in Nat
  /\ owner \in [by : {"nobody", "us", "others"}, pass : Pass, ctx : Context]

\* Not protected against is "accidental corruption being accepted as valid
\* identity" (README, what DPAPI protects): whatever accidents have done to a
\* store, the entries it opens with, for anybody, are those written.
OnlyWrittenIdentitiesOpen ==
  \A pass \in Pass, ctx \in Context :
    LoadReason(file, pass, ctx) = "OK" => owner # Nobody /\ Held(Loaded(file)) = truth

\* What a registration writes, of whatever it found, opens again under the
\* same passphrase or for the same user: a strict _validate_entry does not
\* lock the program out of what _migrate_legacy_entries has let in, and what
\* that has let in can be verified.
NeverLockedOut ==
  owner.by = "us" /\ harm = 0 =>
    /\ LoadReason(file, owner.pass, owner.ctx) = "OK"
    /\ \A k \in Key : Consistent(Loaded(file)[k])

\* A registration puts no identity under another key that was not there, not
\* even of a v1 store with a field changed: its fingerprint gives it away.
\* Two fields may be too many, since without a fingerprint nothing is compared.
RegistrationInventsNothing ==
  [][owner # Nobody \/ harm < 2 =>
       \E k \in Key : \A j \in Key \ {k} : truth'[j] \subseteq truth[j]]_vars

\* A registration over a store it cannot read is refused, and over one it can
\* read it keeps the others; keys of a v1 store that differ by case leave one
\* of their identities.  The exception is a store that has lost its
\* format_version: it passes for a v1 store without entries, and is replaced.
RegistrationForgetsNothing ==
  [][file'.root # "missing" =>
       \E k \in Key : \A j \in Key \ {k} :
         \/ truth'[j] = truth[j]
         \/ owner = Nobody /\ (harm > 0 \/ truth'[j] # {})
         \/ owner # Nobody /\ file.version = "absent"]_vars

\* Whatever an accident changes outside "kdf", _load_store answers with a
\* reason code and never with another exception.
OnlyKdfRaises ==
  \A pass \in Pass, ctx \in Context :
    LoadReason(file, pass, ctx) = "RAISED" =>
      harm > 0 /\ file.kdf \notin {Kdf(salt) : salt \in Salt}

\* The files of IdentityStore.tla are these files, as long as no accident
\* changes them: an entry is what it is here, or a v1 entry.
Format ==
  INSTANCE StoreFormat WITH
    Entry <- Entry \cup Strange \cup LegacyEntry,
    Migrated <- [v \in Entry \cup Strange \cup LegacyEntry |->
                   IF Migrates(v) THEN MigrateEntry(v) ELSE NoEntry]

AgreesWithStoreFormat ==
  owner # Nobody /\ harm = 0 /\ PayloadReason(Loaded(file)) = "OK" =>
    \A pass \in Pass, ctx \in Context :
      LoadReason(file, pass, ctx) =
        Format!LoadReason(Format!Seal(Loaded(file), owner.pass, owner.ctx), pass, ctx)

=============================================================================
