--------------------------- MODULE VolumeVerifier ---------------------------
(***************************************************************************)
(* register_volume and verify_volume over one volume per machine: which    *)
(* evidence they ask for, in which order, and what they conclude           *)
(* (source/volume_verifier.py).                                            *)
(*                                                                         *)
(* One invocation runs at a time and the store changes at one instant;     *)
(* IdentityStore.tla shows when the file gives that.  Between any two      *)
(* queries of an invocation the volume may become another one.             *)
(*                                                                         *)
(* Identifiers are sequences of symbols, equal up to letter case; SHA-256  *)
(* is taken to be collision-free, so a fingerprint is what is hashed.      *)
(***************************************************************************)
EXTENDS Sequences, Naturals

CONSTANTS
  Symbol,    \* what identifiers are made of
  Uid,       \* ids of filesystems: UniqueId or NTFS serial, UUID
  Enc,       \* ids of encrypted volumes: BitLocker Volume ID, LUKS UUID
  NoId,      \* None
  FormatUuid, \* id -> what format_uuid makes of the bytes of that id
  Platform,  \* where the store is used: "win32", "linux", "darwin"
  Volume     \* platform -> the states in which a volume can be found there

ASSUME IdsAssumption ==
  /\ Uid \subseteq Seq(Symbol) /\ Enc \subseteq Seq(Symbol)
  /\ NoId \notin Uid \cup Enc

\* It moves the bytes of a UUID, and another UUID comes out, or the same one.
ASSUME FormatUuidAssumption ==
  /\ FormatUuid \in [Uid \cup Enc -> Uid \cup Enc]
  /\ \A u \in Uid : FormatUuid[u] \in Uid
  /\ \A e \in Enc : FormatUuid[e] \in Enc

ASSUME PlatformAssumption == Platform \subseteq {"win32", "linux", "darwin"}

\* uid: the filesystem the operating system names, NoId while nothing is
\* mounted; enc: the encrypted volume it knows of; hdr: the one whose FVE or
\* LUKS header is on the medium; fs: the filesystem whose NTFS boot sector or
\* ext4 superblock is where the raw channel looks.
ASSUME VolumeAssumption ==
  Volume \in [Platform -> SUBSET [uid : Uid \cup {NoId}, enc : Enc \cup {NoId},
                                  hdr : Enc \cup {NoId}, fs : Uid \cup {NoId}]]

\* The ids encrypted volumes have on pf.
EncOn(pf) == {v.enc : v \in Volume[pf]} \ {NoId}

\* Volume IDs have one length, and LUKS UUIDs another.
ASSUME EncLengthAssumption ==
  \A pf \in Platform : \A x, y \in EncOn(pf) : Len(x) = Len(y)

VARIABLES
  platform,  \* the machine the store is on
  disk,      \* the volume there
  store,     \* argument -> entry, NoEntry where there is none
  pc,        \* where the invocation is
  inv,       \* what it was asked
  entry,     \* the entry it verifies against, or has registered
  obs,       \* VolumeObservations: the ids of the API channel
  target,    \* the device the Linux raw channel reads
  raw,       \* the ids of the raw channel
  verdict,   \* outcome, reason, strength
  steady,    \* history: the volume is the same since the invocation began
  candid     \* history: no failure of a channel was taken for absence

vars == <<platform, disk, store, pc, inv, entry, obs, target, raw, verdict,
          steady, candid>>

-----------------------------------------------------------------------------
Arg == {"C:", "/mnt"}
Invocation == [op : {"register", "verify"}, arg : Arg, raw : BOOLEAN]

Fingerprint(uid) == uid

\* Mutant: only the encryption id is hashed.
FingerprintOfEnc(uid, enc) == enc

FingerprintStandard(uid, enc) == uid \o enc

NoObs == [uid |-> NoId, enc |-> NoId]
NoRaw == [hdr |-> NoId, fs |-> NoId]

\* The entry register_volume makes of what it observed on pf.  Without --raw,
\* r is NoRaw: _corroborate treats a missing field and None alike.
MakeEntry(pf, o, r) ==
  [platform |-> pf, uid |-> o.uid, enc |-> o.enc, hdr |-> r.hdr, fs |-> r.fs,
   strength |-> IF o.enc # NoId THEN "STANDARD" ELSE "WEAK",
   fp |-> IF o.enc # NoId THEN FingerprintStandard(o.uid, o.enc)
                          ELSE Fingerprint(o.uid)]
NoEntry == [platform |-> "none"]

Verdict(outcome, reason, strength) ==
  [outcome |-> outcome, reason |-> reason, strength |-> strength]
NoVerdict == Verdict("NONE", "NONE", "NONE")

Init ==
  /\ platform \in Platform
  /\ disk \in Volume[platform]
  /\ store = [a \in Arg |-> NoEntry]
  /\ pc = "idle"
  /\ inv = [op |-> "none"]
  /\ entry = NoEntry
  /\ obs = NoObs
  /\ target = "backing"
  /\ raw = NoRaw
  /\ verdict = NoVerdict
  /\ steady = TRUE
  /\ candid = TRUE

-----------------------------------------------------------------------------
(* The user and the machine.                                               *)

Start(i) ==
  /\ pc \in {"idle", "done"}
  /\ pc' = "begin" /\ inv' = i
  /\ entry' = NoEntry /\ obs' = NoObs /\ target' = "backing" /\ raw' = NoRaw
  /\ verdict' = NoVerdict /\ steady' = TRUE /\ candid' = TRUE
  /\ UNCHANGED <<platform, disk, store>>

\* The volume is unmounted, reformatted, encrypted, exchanged: once during an
\* invocation, at most.
VolumeChanges ==
  /\ steady \/ pc \in {"idle", "done"}
  /\ disk' \in Volume[platform] \ {disk}
  /\ steady' = FALSE
  /\ UNCHANGED <<platform, store, pc, inv, entry, obs, target, raw, verdict, candid>>

\* Between invocations a portable store goes to another machine.
StoreMoves ==
  /\ pc \in {"idle", "done"}
  /\ platform' \in Platform \ {platform}
  /\ disk' \in Volume[platform']
  /\ pc' = "idle"
  /\ steady' = FALSE
  /\ UNCHANGED <<store, inv, entry, obs, target, raw, verdict, candid>>

-----------------------------------------------------------------------------
(* Steps of an invocation.                                                 *)

\* Nothing outside the invocation changes; what it keeps is up to the step.
Inside == UNCHANGED <<platform, disk, inv, steady>>

End(v) ==
  /\ pc' = "done" /\ verdict' = v
  /\ Inside /\ UNCHANGED <<obs, target, raw, candid>>

Error(reason) == End(Verdict("ERROR", reason, "NONE")) /\ UNCHANGED <<store, entry>>

\* No handler classifies it: the exception leaves the program.
Raised(exception) ==
  End(Verdict("RAISED", exception, "NONE")) /\ UNCHANGED <<store, entry>>

Goto(place) ==
  pc' = place /\ Inside /\ UNCHANGED <<store, verdict>>

Registering == inv.op = "register"

\* _get_source, then _normalize_volume: in the Windows source's
\* get_observations, or in _store_key.
Begin ==
  /\ pc = "begin"
  /\ \/ platform = "darwin" /\ Error("UNSUPPORTED_PLATFORM")
     \/ platform = "win32" /\ inv.arg = "/mnt" /\ Error("INVALID_ARGS")
     \/ /\ platform = "linux" \/ (platform = "win32" /\ inv.arg = "C:")
        /\ Goto(IF Registering THEN "uid" ELSE "load")
        /\ UNCHANGED <<entry, obs, target, raw, candid>>

\* What _load_store answers instead of entries: what _dpapi_unprotect raises is
\* corruption to it.
LoadReasons ==
  {"STORE_CORRUPTED", "STORE_SCHEMA_MISMATCH", "STORE_PASSPHRASE_REQUIRED",
   "STORE_MAC_MISMATCH"}

StoreRefuses ==
  \/ pc = "load" /\ \E r \in LoadReasons : Error(r)
  \/ pc = "commit" /\ Error("STORE_PROTECTION_UNAVAILABLE")

\* Where a command is started, or the file of the store opened.
CallsSystem ==
  \/ pc \in {"load", "enc", "partition", "resolve", "commit"}
  \/ pc = "uid" /\ ~ (platform = "linux" /\ inv.arg = "C:")

\* The system denies a file or a command, in another way than by not finding
\* it; or the parameters of an HMAC store's key have changed, on which
\* _load_store raises AttributeError, TypeError or ValueError (StoreWrapper).
SystemRaises ==
  \/ CallsSystem /\ Raised("OSError")
  \/ pc = "load" /\ Raised("KdfError")

LoadForVerify ==
  /\ pc = "load" /\ ~ Registering
  /\ \/ /\ store = [a \in Arg |-> NoEntry]
        /\ End(Verdict("DENY", "STORE_MISSING", "NONE"))
        /\ UNCHANGED <<store, entry>>
     \/ /\ store # [a \in Arg |-> NoEntry] /\ store[inv.arg] = NoEntry
        /\ End(Verdict("DENY", "NOT_REGISTERED", "NONE"))
        /\ UNCHANGED <<store, entry>>
     \/ /\ store[inv.arg] # NoEntry
        /\ entry' = store[inv.arg]
        /\ Goto("uid")
        /\ UNCHANGED <<obs, target, raw, candid>>

\* Mutant: an empty answer is an id.
QueryUidEmpty ==
  /\ pc = "uid"
  /\ \/ Error("VOLUME_QUERY_FAILED")
     \/ /\ ~ (platform = "linux" /\ inv.arg = "C:")
        /\ obs' = [obs EXCEPT !.uid = disk.uid]
        /\ Goto("enc")
        /\ UNCHANGED <<entry, target, raw, candid>>

\* Mutant: a drive letter is taken for a path.
QueryUidAnywhere ==
  /\ pc = "uid"
  /\ \/ Error("VOLUME_QUERY_FAILED")
     \/ /\ disk.uid # NoId
        /\ obs' = [obs EXCEPT !.uid = disk.uid]
        /\ Goto("enc")
        /\ UNCHANGED <<entry, target, raw, candid>>

\* _query_unique_id or _query_linux_fs_uuid, with _linux_resolve_device's
\* check of the argument.
QueryUid ==
  /\ pc = "uid"
  /\ \/ platform = "linux" /\ inv.arg = "C:" /\ Error("INVALID_ARGS")
     \/ ~ (platform = "linux" /\ inv.arg = "C:") /\ Error("VOLUME_QUERY_FAILED")
     \/ /\ ~ (platform = "linux" /\ inv.arg = "C:")
        /\ disk.uid # NoId
        /\ obs' = [obs EXCEPT !.uid = disk.uid]
        /\ Goto("enc")
        /\ UNCHANGED <<entry, target, raw, candid>>

\* Mutant: a failed manage-bde means "not encrypted".
QueryEncSwallowed ==
  /\ pc = "enc"
  /\ \E seen \in {disk.enc, NoId} :
       /\ obs' = [obs EXCEPT !.enc = seen]
       /\ candid' = (candid /\ (platform = "win32" \/ seen = disk.enc))
  /\ Goto(IF Registering THEN "load" ELSE "compare")
  /\ UNCHANGED <<entry, target, raw>>

\* _query_bitlocker raises when manage-bde fails, and finds no "Volume ID:"
\* line in a status printed in another language; _query_linux_luks_uuid
\* returns None whatever fails.
QueryEnc ==
  /\ pc = "enc"
  /\ \/ /\ platform = "win32"
        /\ \E r \in {"BITLOCKER_QUERY_FAILED", "INSUFFICIENT_PRIVILEGES"} : Error(r)
     \/ /\ \E seen \in {disk.enc, NoId} :
             /\ obs' = [obs EXCEPT !.enc = seen]
             /\ candid' = (candid /\ seen = disk.enc)
        /\ Goto(IF Registering THEN "load" ELSE "compare")
        /\ UNCHANGED <<entry, target, raw>>

RawStart == IF platform = "win32" THEN "serial" ELSE "resolve"

LoadForRegister ==
  /\ pc = "load" /\ Registering
  /\ Goto(IF inv.raw THEN RawStart ELSE "commit")
  /\ UNCHANGED <<entry, obs, target, raw, candid>>

\* Mutant: the fingerprint is made as strong as what was observed.
CurrentFpAsObserved ==
  IF obs.enc # NoId THEN FingerprintStandard(obs.uid, obs.enc)
                    ELSE Fingerprint(obs.uid)

CurrentFp ==
  IF entry.strength = "STANDARD" THEN FingerprintStandard(obs.uid, obs.enc)
                                 ELSE Fingerprint(obs.uid)

MetadataUnavailable == entry.strength = "STANDARD" /\ obs.enc = NoId

\* Mutant: with --raw, a fingerprint that differs is left to the raw channel.
CompareRawFirst ==
  /\ pc = "compare"
  /\ \/ /\ MetadataUnavailable
        /\ End(Verdict("DENY",
                       IF entry.platform = "linux" THEN "LUKS_METADATA_UNAVAILABLE"
                       ELSE "BITLOCKER_METADATA_UNAVAILABLE", "NONE"))
        /\ UNCHANGED <<store, entry>>
     \/ /\ ~ MetadataUnavailable /\ ~ inv.raw
        /\ End(IF CurrentFp # entry.fp
               THEN Verdict("DENY", "FINGERPRINT_MISMATCH", entry.strength)
               ELSE Verdict("PASS", "MATCHED_REGISTERED_IDENTITY", entry.strength))
        /\ UNCHANGED <<store, entry>>
     \/ /\ ~ MetadataUnavailable /\ inv.raw
        /\ Goto(RawStart)
        /\ UNCHANGED <<entry, obs, target, raw, candid>>

Compare ==
  /\ pc = "compare"
  /\ \/ /\ MetadataUnavailable
        /\ End(Verdict("DENY",
                       IF entry.platform = "linux" THEN "LUKS_METADATA_UNAVAILABLE"
                       ELSE "BITLOCKER_METADATA_UNAVAILABLE", "NONE"))
        /\ UNCHANGED <<store, entry>>
     \/ /\ ~ MetadataUnavailable /\ CurrentFp # entry.fp
        /\ End(Verdict("DENY", "FINGERPRINT_MISMATCH", entry.strength))
        /\ UNCHANGED <<store, entry>>
     \/ /\ ~ MetadataUnavailable /\ CurrentFp = entry.fp /\ ~ inv.raw
        /\ End(Verdict("PASS", "MATCHED_REGISTERED_IDENTITY", entry.strength))
        /\ UNCHANGED <<store, entry>>
     \/ /\ ~ MetadataUnavailable /\ CurrentFp = entry.fp /\ inv.raw
        /\ Goto(RawStart)
        /\ UNCHANGED <<entry, obs, target, raw, candid>>

-----------------------------------------------------------------------------
(* The raw channel.                                                        *)

RawError == \E r \in {"RAW_READ_FAILED", "RAW_INSUFFICIENT_PRIVILEGES"} : Error(r)

RawEnd == IF Registering THEN "commit" ELSE "judge"

Windows(place) == pc = place /\ platform = "win32"

\* What the raw channel calls the volume that the system calls id: format_guid
\* and the NTFS serial follow Windows, format_uuid does not follow Linux,
\* where the bytes of a UUID are printed as they are stored.
Text(id) == IF platform = "linux" /\ id # NoId THEN FormatUuid[id] ELSE id

\* read_ntfs_volume_serial; another filesystem has no serial.
ReadSerial ==
  /\ Windows("serial")
  /\ \/ RawError
     \/ /\ raw' = [raw EXCEPT !.fs = disk.fs]
        /\ Goto("partition")
        /\ UNCHANGED <<entry, obs, target, candid>>

FindPartition ==
  /\ Windows("partition")
  /\ \/ Error("RAW_READ_FAILED")
     \/ Goto("fve") /\ UNCHANGED <<entry, obs, target, raw, candid>>

\* read_bitlocker_volume_id.  Its "FVE header not found" is absence, and so is
\* open_raw_device's "device not found: ..." to the test of the detail text.
ReadFve ==
  /\ Windows("fve")
  /\ \/ RawError
     \/ /\ \E seen \in {disk.hdr, NoId} :
             /\ raw' = [raw EXCEPT !.hdr = seen]
             /\ candid' = (candid /\ seen = disk.hdr)
        /\ Goto(RawEnd)
        /\ UNCHANGED <<entry, obs, target>>

\* _linux_resolve_device raises, _linux_backing_device returns the mapper it
\* was given when cryptsetup status fails.
ResolveTarget ==
  /\ pc = "resolve"
  /\ \/ Error("VOLUME_QUERY_FAILED")
     \/ /\ disk.uid # NoId
        /\ \/ target' = "backing" /\ UNCHANGED candid
           \/ disk.enc # NoId /\ target' = "mapper" /\ candid' = FALSE
        /\ Goto("luks")
        /\ UNCHANGED <<entry, obs, raw>>

ReadLuks ==
  /\ pc = "luks"
  /\ \/ RawError
     \/ /\ raw' = [raw EXCEPT !.hdr = IF target = "backing" THEN Text(disk.hdr) ELSE NoId]
        /\ Goto("ext4")
        /\ UNCHANGED <<entry, obs, target, candid>>

\* Behind a mapper is the decrypted filesystem, ext4 or not.
ReadExt4 ==
  /\ pc = "ext4"
  /\ \/ RawError
     \/ /\ \E seen \in IF target = "backing" THEN {disk.fs} ELSE {disk.uid, NoId} :
             raw' = [raw EXCEPT !.fs = Text(seen)]
        /\ Goto(RawEnd)
        /\ UNCHANGED <<entry, obs, target, candid>>

-----------------------------------------------------------------------------
(* _corroborate.                                                           *)

Contradicts(registered, seen) == registered # NoId /\ seen # registered
Confirms(registered, seen) == registered # NoId /\ seen = registered

\* Mutant: a header the API does not announce is overlooked.
AnnouncedConflict ==
  \/ Contradicts(entry.fs, raw.fs)
  \/ Contradicts(obs.enc, raw.hdr)

ConflictOnWindows ==
  \/ Contradicts(entry.fs, raw.fs)
  \/ obs.enc # raw.hdr

ConfirmedOnWindows ==
  \/ Confirms(entry.fs, raw.fs)
  \/ Confirms(obs.enc, raw.hdr)

\* Mutant: a filesystem without an ext4 UUID is taken for another one.
ConflictWithAbsence ==
  \/ Contradicts(obs.enc, raw.hdr)
  \/ obs.enc = NoId /\ raw.fs # obs.uid
  \/ Contradicts(entry.hdr, raw.hdr)
  \/ Contradicts(entry.fs, raw.fs)

\* Mutant: the registered LUKS UUID is not compared.
ConflictWithSystem ==
  \/ Contradicts(obs.enc, raw.hdr)
  \/ obs.enc = NoId /\ Contradicts(raw.fs, obs.uid)
  \/ Contradicts(entry.fs, raw.fs)

\* The ext4 UUID is compared with the API's only for a volume the API calls
\* unencrypted; and a LUKS header there is compared with nothing.
ConflictOnLinux ==
  \/ Contradicts(obs.enc, raw.hdr)
  \/ obs.enc = NoId /\ Contradicts(raw.fs, obs.uid)
  \/ Contradicts(entry.hdr, raw.hdr)
  \/ Contradicts(entry.fs, raw.fs)

ConfirmedOnLinux ==
  \/ Confirms(obs.enc, raw.hdr)
  \/ obs.enc = NoId /\ Confirms(raw.fs, obs.uid)
  \/ Confirms(entry.hdr, raw.hdr)
  \/ Confirms(entry.fs, raw.fs)

Conflict == IF platform = "win32" THEN ConflictOnWindows ELSE ConflictOnLinux
Confirmed == IF platform = "win32" THEN ConfirmedOnWindows ELSE ConfirmedOnLinux

\* raw_ext4 has no value where an entry with raw_ext4_uuid meets a volume
\* with a LUKS UUID.
Unbound == platform = "linux" /\ obs.enc # NoId /\ entry.fs # NoId

\* Mutant: whatever does not conflict is RAW.
JudgeGenerously ==
  /\ pc = "judge"
  /\ End(IF Conflict THEN Verdict("DENY", "EVIDENCE_CONFLICT", entry.strength)
         ELSE Verdict("PASS", "MATCHED_REGISTERED_IDENTITY", "RAW"))
  /\ UNCHANGED <<store, entry>>

Judge ==
  /\ pc = "judge"
  /\ \/ Unbound /\ Raised("UnboundLocalError")
     \/ /\ ~ Unbound
        /\ End(IF Conflict THEN Verdict("DENY", "EVIDENCE_CONFLICT", entry.strength)
               ELSE Verdict("PASS", "MATCHED_REGISTERED_IDENTITY",
                            IF Confirmed THEN "RAW" ELSE entry.strength))
        /\ UNCHANGED <<store, entry>>

\* _save_store, and the entry to the caller.
Commit ==
  /\ pc = "commit"
  /\ entry' = MakeEntry(platform, obs, raw)
  /\ store' = [store EXCEPT ![inv.arg] = entry']
  /\ End(Verdict("REGISTERED", "NONE", entry'.strength))

-----------------------------------------------------------------------------
Step ==
  \/ Begin \/ StoreRefuses \/ SystemRaises \/ LoadForVerify \/ QueryUid \/ QueryEnc
  \/ LoadForRegister \/ Compare
  \/ ReadSerial \/ FindPartition \/ ReadFve
  \/ ResolveTarget \/ ReadLuks \/ ReadExt4
  \/ Judge \/ Commit

Next ==
  \/ \E i \in Invocation : Start(i)
  \/ VolumeChanges
  \/ StoreMoves
  \/ Step

Spec == Init /\ [][Next]_vars

-----------------------------------------------------------------------------
(* Properties.                                                             *)

Done(outcome) == pc = "done" /\ verdict.outcome = outcome
Passed == Done("PASS")

Observation == [uid : Uid, enc : Enc \cup {NoId}]
RawObservation == [hdr : Enc \cup {NoId}, fs : Uid \cup {NoId}]

Entry ==
  {MakeEntry(pf, o, r) :
     pf \in {"win32", "linux"}, o \in Observation, r \in RawObservation}

Reasons ==
  {"NONE", "UNSUPPORTED_PLATFORM", "INVALID_ARGS", "VOLUME_QUERY_FAILED",
   "BITLOCKER_QUERY_FAILED", "INSUFFICIENT_PRIVILEGES", "RAW_READ_FAILED",
   "RAW_INSUFFICIENT_PRIVILEGES", "STORE_MISSING", "NOT_REGISTERED",
   "BITLOCKER_METADATA_UNAVAILABLE", "LUKS_METADATA_UNAVAILABLE",
   "FINGERPRINT_MISMATCH", "EVIDENCE_CONFLICT", "MATCHED_REGISTERED_IDENTITY",
   "STORE_PROTECTION_UNAVAILABLE", "OSError", "KdfError", "UnboundLocalError"}
  \cup LoadReasons

Verdicts ==
  [outcome : {"NONE", "PASS", "DENY", "ERROR", "RAISED", "REGISTERED"},
   reason : Reasons, strength : {"NONE", "WEAK", "STANDARD", "RAW"}]

\* Every variable keeps its shape; every stored fingerprint and strength is
\* that of the ids stored with it.
TypeOK ==
  /\ platform \in Platform
  /\ disk \in Volume[platform]
  /\ store \in [Arg -> Entry \cup {NoEntry}]
  /\ pc \in {"idle", "begin", "load", "uid", "enc", "compare", "serial", "partition",
             "fve", "resolve", "luks", "ext4", "judge", "commit", "done"}
  /\ inv \in Invocation \cup {[op |-> "none"]}
  /\ entry \in Entry \cup {NoEntry}
  /\ obs \in [uid : Uid \cup {NoId}, enc : Enc \cup {NoId}]
  /\ target \in {"backing", "mapper"}
  /\ raw \in RawObservation
  /\ verdict \in Verdicts
  /\ steady \in BOOLEAN /\ candid \in BOOLEAN

\* PASS means that the volume is the registered one as far as it was
\* identified: the same filesystem and, for a STANDARD identity, the same
\* encrypted volume, whatever fails.  It rests on the ids being read back from
\* the hash of their concatenation.
PassMeansRegisteredVolume ==
  Passed /\ steady =>
    /\ disk.uid = entry.uid
    /\ entry.strength = "STANDARD" => disk.enc = entry.enc

\* "A fingerprint is only comparable within the same platform" (README):
\* although verify_volume never looks at an entry's platform, an identity
\* registered on one never passes on another.
NoCrossPlatformPass == Passed => entry.platform = platform

\* RAW strength is only given when an id on the medium really agrees with
\* the API channel or with what was read there at registration.
RawIsEarned ==
  Passed /\ verdict.strength = "RAW" /\ steady =>
    /\ inv.raw
    /\ \/ disk.hdr # NoId /\ Text(disk.hdr) \in {disk.enc, entry.hdr}
       \/ disk.fs # NoId /\ Text(disk.fs) \in {disk.uid, entry.fs}
       \/ target = "mapper" /\ Text(disk.uid) \in {disk.uid, entry.fs}

\* "Both channels must agree" (README): what the medium says.
ChannelsAgree == disk.hdr = disk.enc

\* On Windows, PASS with --raw means that they do, and that a registered
\* NTFS serial is still there, unless a failure looked like absence.
WindowsChannelsAgree ==
  Passed /\ inv.raw /\ platform = "win32" /\ steady /\ candid =>
    ChannelsAgree /\ (entry.fs # NoId => disk.fs = entry.fs)

\* On Linux, PASS with --raw means that an encrypted volume has the header the
\* system announces, and that every id read from the medium at registration is
\* still there: a header nobody announces is all that can be overlooked.
LinuxChannelsAgree ==
  Passed /\ inv.raw /\ platform = "linux" /\ steady /\ candid =>
    /\ disk.enc # NoId => Text(disk.hdr) = disk.enc
    /\ disk.enc = NoId => Text(disk.fs) \in {NoId, disk.uid}
    /\ entry.hdr # NoId => Text(disk.hdr) = entry.hdr
    /\ entry.fs # NoId => Text(disk.fs) = entry.fs

\* "A failure to acquire evidence is never converted into a valid identity":
\* what is registered is what the volume has, channel by channel.
RegistrationIsTruthful ==
  Done("REGISTERED") /\ steady /\ candid =>
    /\ entry.uid = disk.uid /\ entry.enc = disk.enc
    /\ inv.raw => entry.hdr = Text(disk.hdr) /\ entry.fs = Text(disk.fs)

\* EVIDENCE_CONFLICT has a cause: the two channels print different ids for
\* the volume, or a registered raw id is no longer there.
ConflictIsReal ==
  Done("DENY") /\ verdict.reason = "EVIDENCE_CONFLICT" /\ steady /\ candid =>
    \/ Text(disk.hdr) # disk.enc
    \/ disk.enc = NoId /\ Text(disk.fs) \notin {NoId, disk.uid}
    \/ Contradicts(entry.hdr, Text(disk.hdr))
    \/ Contradicts(entry.fs, Text(disk.fs))

\* The registered volume is not denied: FINGERPRINT_MISMATCH means that an id
\* the entry identifies the volume by is another one now, be it encrypted since
\* or not, and only a missing encryption is reported as missing metadata.
DenialIsReal ==
  Done("DENY") /\ steady =>
    /\ verdict.reason = "FINGERPRINT_MISMATCH" =>
         disk.uid # entry.uid \/ (entry.strength = "STANDARD" /\ disk.enc # entry.enc)
    /\ candid /\ verdict.reason \in {"LUKS_METADATA_UNAVAILABLE",
                                    "BITLOCKER_METADATA_UNAVAILABLE"} =>
         entry.strength = "STANDARD" /\ disk.enc = NoId

\* The exception of _corroborate hides a match: where it leaves verify_volume,
\* on Linux with --raw only, the volume is the registered one, and encrypted.
RaiseHidesAMatch ==
  Done("RAISED") /\ verdict.reason = "UnboundLocalError" /\ steady =>
    /\ platform = "linux" /\ inv.raw /\ disk.enc # NoId
    /\ disk.uid = entry.uid
    /\ entry.strength = "STANDARD" => disk.enc = entry.enc

-----------------------------------------------------------------------------
(* What the documentation says of the program, without the restrictions.   *)

\* "A failed BitLocker/LUKS query is an error, never a silent WEAK fallback"
\* (register_volume): a WEAK registration is one of an unencrypted volume.
WeakMeansUnencrypted ==
  Done("REGISTERED") /\ steady /\ entry.strength = "WEAK" => disk.enc = NoId

\* "Never raises for operational problems: everything is classified into a
\* Verdict" (verify_volume): nor does it of itself, where every command and
\* file is there and the store's parameters are what was written.
VerifyNeverRaises ==
  Done("RAISED") /\ ~ Registering => verdict.reason \in {"OSError", "KdfError"}

\* "A disagreement (... LUKS UUID present on disk but not per API, or a
\* registered raw serial that changed)" is "DENY / EVIDENCE_CONFLICT" (README):
\* a PASS with --raw means that the medium disagrees neither with the system nor
\* with the filesystem that was registered.
PassMeansNoDisagreement ==
  Passed /\ inv.raw /\ steady /\ candid =>
    ChannelsAgree /\ (entry.fs # NoId => Text(disk.fs) = entry.fs)

\* The raw UUID "matches cryptsetup luksUUID / lsblk UUID output verbatim"
\* (format_uuid): where the medium has what the system announces, and no raw id
\* was registered, there is no conflict.
SameVolumeNoConflict ==
  Done("DENY") /\ verdict.reason = "EVIDENCE_CONFLICT" /\ steady /\ candid
  /\ entry.hdr = NoId /\ entry.fs = NoId =>
    ~ (ChannelsAgree /\ disk.fs \in {NoId, disk.uid})

=============================================================================
