------------------------ MODULE VolumeVerifierProofs ------------------------
(***************************************************************************)
(* What VolumeVerifier guarantees for every set of identifiers, volumes    *)
(* and platforms that its assumptions allow: its type, and what PASS means. *)
(***************************************************************************)
EXTENDS VolumeVerifier, ConcatLemmas, SequenceTheorems, TLAPS

-----------------------------------------------------------------------------
(* Entries.                                                                *)

\* The platform of the only machines on which an argument leads to a volume.
Home(arg) == IF arg = "C:" THEN "win32" ELSE "linux"

\* The entries a registration on pf can make.
EntryOn(pf) ==
  {e \in Entry : e.platform = pf /\ e.enc \in EncOn(pf) \cup {NoId}}

\* What a volume shows is made of ids.
LEMMA DiskType ==
  ASSUME TypeOK
  PROVE  /\ disk.uid \in Uid \cup {NoId} /\ disk.enc \in EncOn(platform) \cup {NoId}
         /\ disk.hdr \in Enc \cup {NoId} /\ disk.fs \in Uid \cup {NoId}
         /\ EncOn(platform) \subseteq Enc
  BY VolumeAssumption DEF TypeOK, EncOn

\* The raw channel's name of an id is an id of the same kind.
LEMMA TextType ==
  /\ \A u \in Uid \cup {NoId} : Text(u) \in Uid \cup {NoId}
  /\ \A e \in Enc \cup {NoId} : Text(e) \in Enc \cup {NoId}
  BY FormatUuidAssumption DEF Text

\* An entry's strength and fingerprint are those of its ids.
LEMMA EntryType ==
  ASSUME NEW e \in Entry
  PROVE  /\ e.platform \in {"win32", "linux"} /\ e # NoEntry
         /\ e.uid \in Uid /\ e.enc \in Enc \cup {NoId}
         /\ e.strength = IF e.enc # NoId THEN "STANDARD" ELSE "WEAK"
         /\ e.fp = IF e.enc # NoId THEN FingerprintStandard(e.uid, e.enc)
                                   ELSE Fingerprint(e.uid)
<1>1. PICK pf \in {"win32", "linux"}, o \in Observation, r \in RawObservation :
        e = MakeEntry(pf, o, r)
  BY DEF Entry
<1>2. o.uid \in Uid /\ o.enc \in Enc \cup {NoId}
  BY DEF Observation
<1>3. /\ e.platform = pf /\ e.uid = o.uid /\ e.enc = o.enc
      /\ e.strength = IF o.enc # NoId THEN "STANDARD" ELSE "WEAK"
      /\ e.fp = IF o.enc # NoId THEN FingerprintStandard(o.uid, o.enc)
                                ELSE Fingerprint(o.uid)
  BY <1>1 DEF MakeEntry
<1>4. e # NoEntry
  BY <1>3 DEF NoEntry
<1> QED
  BY <1>2, <1>3, <1>4

\* Ids whose fingerprint, made the way of the entry's strength, is the entry's
\* are the ids the entry was made of.
LEMMA FingerprintIdentifies ==
  ASSUME NEW pf \in Platform, NEW e \in EntryOn(pf),
         NEW uid \in Uid, NEW enc \in EncOn(pf) \cup {NoId},
         e.strength = "STANDARD" => enc # NoId,
         e.fp = IF e.strength = "STANDARD" THEN FingerprintStandard(uid, enc)
                                           ELSE Fingerprint(uid)
  PROVE  e.uid = uid /\ (e.strength = "STANDARD" => e.enc = enc)
<1>1. /\ e.uid \in Uid /\ e.enc \in EncOn(pf) \cup {NoId}
      /\ e.strength = IF e.enc # NoId THEN "STANDARD" ELSE "WEAK"
      /\ e.fp = IF e.enc # NoId THEN FingerprintStandard(e.uid, e.enc)
                                ELSE Fingerprint(e.uid)
  BY EntryType DEF EntryOn
<1>2. CASE e.strength = "STANDARD"
  <2>1. e.enc \in EncOn(pf) /\ enc \in EncOn(pf)
    BY <1>1, <1>2
  <2>2. Len(e.enc) = Len(enc)
    BY <2>1, EncLengthAssumption
  <2>3. e.uid \o e.enc = uid \o enc
    BY <1>1, <1>2, <2>1 DEF FingerprintStandard
  <2>4. /\ e.uid \in Seq(Symbol) /\ e.enc \in Seq(Symbol)
        /\ uid \in Seq(Symbol) /\ enc \in Seq(Symbol)
    BY <1>1, <2>1, IdsAssumption, VolumeAssumption DEF EncOn
  <2> QED
    BY <2>2, <2>3, <2>4, ConcatCancels
<1>3. CASE e.strength # "STANDARD"
  BY <1>1, <1>3 DEF Fingerprint
<1> QED
  BY <1>2, <1>3

-----------------------------------------------------------------------------
(* Type correctness.                                                       *)

\* Where the filesystem's id has been observed.
Observed ==
  \/ pc \in {"enc", "compare", "serial", "partition", "fve", "resolve", "luks",
             "ext4", "judge", "commit"}
  \/ pc = "load" /\ Registering

\* Where a verification has an entry.
Comparing ==
  \/ pc \in {"compare", "judge"}
  \/ ~ Registering /\ pc \in {"uid", "enc", "serial", "partition", "fve", "resolve",
                             "luks", "ext4"}

\* TypeOK alone is not inductive: a registration makes an entry of what was
\* observed, which must be more than None by then, and on a platform that
\* has a source.
TypeInv ==
  /\ TypeOK
  /\ pc # "idle" => inv \in Invocation
  /\ pc \notin {"idle", "begin", "done"} => platform \in {"win32", "linux"}
  /\ Observed => obs.uid \in Uid
  /\ Comparing => entry \in Entry
  /\ pc \in {"compare", "judge"} => ~ Registering
  /\ pc = "commit" => Registering

\* What a registration makes is an entry.
LEMMA MadeType ==
  ASSUME NEW pf \in {"win32", "linux"}, NEW o \in Observation, NEW r \in RawObservation
  PROVE  MakeEntry(pf, o, r) \in Entry
  BY DEF Entry

\* Before the first invocation.
LEMMA TypeInit == Init => TypeInv
<1> SUFFICES ASSUME Init PROVE TypeInv
  OBVIOUS
<1>1. store \in [Arg -> Entry \cup {NoEntry}]
  BY DEF Init
<1>2. obs \in [uid : Uid \cup {NoId}, enc : Enc \cup {NoId}] /\ raw \in RawObservation
  BY DEF Init, NoObs, NoRaw, RawObservation
<1>3. verdict \in Verdicts
  BY DEF Init, NoVerdict, Verdict, Verdicts, Reasons
<1> QED
  BY <1>1, <1>2, <1>3 DEF Init, TypeInv, TypeOK, Observed, Comparing

\* Whatever an invocation concludes is a verdict.
LEMMA VerdictType ==
  ASSUME NEW o \in {"PASS", "DENY", "ERROR", "RAISED", "REGISTERED"}, NEW r \in Reasons,
         NEW s \in {"NONE", "WEAK", "STANDARD", "RAW"}
  PROVE  Verdict(o, r, s) \in Verdicts
  BY DEF Verdict, Verdicts

\* An invocation that ends leaves what it has learnt behind.
LEMMA EndType ==
  ASSUME TypeInv, NEW v \in Verdicts, pc # "idle", End(v),
         store' \in [Arg -> Entry \cup {NoEntry}], entry' \in Entry \cup {NoEntry}
  PROVE  TypeInv'
  BY DEF TypeInv, TypeOK, End, Inside, Observed, Comparing

\* So does one that ends in an error.
LEMMA ErrorType ==
  ASSUME TypeInv, NEW reason \in Reasons, pc # "idle", Error(reason)
  PROVE  TypeInv'
<1>1. Verdict("ERROR", reason, "NONE") \in Verdicts
  BY VerdictType DEF Reasons
<1> QED
  BY <1>1, EndType DEF Error, TypeInv, TypeOK

\* And one that an exception ends.
LEMMA RaisedType ==
  ASSUME TypeInv, NEW exception \in Reasons, pc # "idle", Raised(exception)
  PROVE  TypeInv'
<1>1. Verdict("RAISED", exception, "NONE") \in Verdicts
  BY VerdictType DEF Reasons
<1> QED
  BY <1>1, EndType DEF Raised, TypeInv, TypeOK

\* And one whose raw channel fails.
LEMMA RawErrorType ==
  ASSUME TypeInv, pc # "idle", RawError
  PROVE  TypeInv'
<1>1. CASE Error("RAW_READ_FAILED")
  BY <1>1, ErrorType DEF Reasons
<1>2. CASE Error("RAW_INSUFFICIENT_PRIVILEGES")
  BY <1>2, ErrorType DEF Reasons
<1> QED
  BY <1>1, <1>2 DEF RawError

\* No query and no conclusion leads out of the types.
LEMMA TypeStep == TypeInv /\ [Next]_vars => TypeInv'
<1> SUFFICES ASSUME TypeInv, [Next]_vars PROVE TypeInv'
  OBVIOUS
<1>1. CASE UNCHANGED vars
  BY <1>1 DEF vars, Observed, Comparing, Registering, TypeInv, TypeOK
<1>2. ASSUME NEW i \in Invocation, Start(i) PROVE TypeInv'
  <2>1. /\ NoObs \in [uid : Uid \cup {NoId}, enc : Enc \cup {NoId}]
        /\ NoRaw \in RawObservation /\ NoVerdict \in Verdicts
    BY
       DEF NoObs, NoRaw, RawObservation, NoVerdict, Verdict, Verdicts, TypeInv,
           TypeOK, Reasons
  <2> QED
    BY <1>2, <2>1 DEF Start, Observed, Comparing, TypeInv, TypeOK
<1>3. CASE VolumeChanges
  BY <1>3 DEF VolumeChanges, Observed, Comparing, Registering, TypeInv, TypeOK
<1>4. CASE StoreMoves
  BY <1>4 DEF StoreMoves, Observed, Comparing, TypeInv, TypeOK
<1>5. CASE Begin
  <2>1. ASSUME NEW place \in {"uid", "load"}, Goto(place), pc = "begin",
               place = "uid" => Registering, place = "load" => ~ Registering,
               platform \in {"win32", "linux"}, UNCHANGED <<entry, obs, target, raw, candid>>
        PROVE  TypeInv'
    BY <2>1 DEF Goto, Inside, Observed, Comparing, Registering, TypeInv, TypeOK
  <2> QED
    BY <1>5, <2>1, ErrorType DEF Begin, Reasons
<1>6. CASE StoreRefuses
  BY <1>6, ErrorType DEF StoreRefuses, Reasons
<1>7. CASE LoadForVerify
  <2>1. \A r \in {"STORE_MISSING", "NOT_REGISTERED"} :
          Verdict("DENY", r, "NONE") \in Verdicts
    BY VerdictType DEF Reasons
  <2>2. CASE \E v \in Verdicts : End(v) /\ UNCHANGED <<store, entry>>
    BY <1>7, <2>2, EndType DEF LoadForVerify, TypeInv, TypeOK
  <2>3. CASE /\ store[inv.arg] # NoEntry /\ entry' = store[inv.arg]
             /\ Goto("uid") /\ UNCHANGED <<obs, target, raw, candid>>
    <3>1. inv.arg \in Arg
      BY <1>7 DEF LoadForVerify, Invocation, TypeInv, TypeOK
    <3>2. entry' \in Entry
      BY <2>3, <3>1 DEF TypeInv, TypeOK
    <3> QED
      BY <1>7, <2>3, <3>2
         DEF LoadForVerify, Goto, Inside, Observed, Comparing, Registering, TypeInv,
             TypeOK
  <2> QED
    BY <1>7, <2>1, <2>2, <2>3 DEF LoadForVerify
<1>8. CASE QueryUid
  <2>1. CASE /\ disk.uid # NoId /\ obs' = [obs EXCEPT !.uid = disk.uid]
             /\ Goto("enc") /\ UNCHANGED <<entry, target, raw, candid>>
    BY <1>8, <2>1, DiskType
       DEF QueryUid, Goto, Inside, Observed, Comparing, Registering, TypeInv, TypeOK
  <2> QED
    BY <1>8, <2>1, ErrorType DEF QueryUid, Reasons
<1>9. CASE QueryEnc
  <2>1. ASSUME NEW seen \in {disk.enc, NoId}, obs' = [obs EXCEPT !.enc = seen],
               candid' = (candid /\ seen = disk.enc), pc = "enc",
               Goto(IF Registering THEN "load" ELSE "compare"),
               UNCHANGED <<entry, target, raw>>
        PROVE  TypeInv'
    <3>1. seen \in Enc \cup {NoId} /\ obs.uid \in Uid
      BY <2>1, DiskType DEF Observed, TypeInv, TypeOK
    <3> QED
      BY <2>1, <3>1 DEF Goto, Inside, Observed, Comparing, Registering, TypeInv, TypeOK
  <2> QED
    BY <1>9, <2>1, ErrorType DEF QueryEnc, Reasons
<1>10. CASE LoadForRegister
  BY <1>10
     DEF LoadForRegister, RawStart, Goto, Inside, Observed, Comparing, Registering,
         TypeInv, TypeOK
<1>11. CASE Compare
  <2>1. entry \in Entry /\ entry.strength \in {"WEAK", "STANDARD"}
    BY <1>11, EntryType DEF Compare, Comparing, TypeInv, TypeOK
  <2>2. /\ \A r \in {"LUKS_METADATA_UNAVAILABLE", "BITLOCKER_METADATA_UNAVAILABLE"} :
             Verdict("DENY", r, "NONE") \in Verdicts
        /\ Verdict("DENY", "FINGERPRINT_MISMATCH", entry.strength) \in Verdicts
        /\ Verdict("PASS", "MATCHED_REGISTERED_IDENTITY", entry.strength) \in Verdicts
    BY <2>1, VerdictType DEF Reasons
  <2>3. CASE \E v \in Verdicts : End(v) /\ UNCHANGED <<store, entry>>
    BY <1>11, <2>3, EndType DEF Compare, TypeInv, TypeOK
  <2>4. CASE Goto(RawStart) /\ UNCHANGED <<entry, obs, target, raw, candid>>
    BY <1>11, <2>4
       DEF Compare, RawStart, Goto, Inside, Observed, Comparing, Registering,
           TypeInv, TypeOK
  <2> QED
    BY <1>11, <2>2, <2>3, <2>4 DEF Compare
<1>12. CASE ReadSerial
  <2>1. CASE /\ raw' = [raw EXCEPT !.fs = disk.fs]
             /\ Goto("partition") /\ UNCHANGED <<entry, obs, target, candid>>
    BY <1>12, <2>1, DiskType
       DEF ReadSerial, Windows, Goto, Inside, Observed, Comparing, Registering,
              RawObservation, TypeInv, TypeOK
  <2> QED
    BY <1>12, <2>1, RawErrorType DEF ReadSerial, Windows
<1>13. CASE FindPartition
  <2>1. CASE Goto("fve") /\ UNCHANGED <<entry, obs, target, raw, candid>>
    BY <1>13, <2>1
       DEF FindPartition, Windows, Goto, Inside, Observed, Comparing, Registering,
              TypeInv, TypeOK
  <2>2. CASE Error("RAW_READ_FAILED")
    BY <1>13, <2>2, ErrorType DEF FindPartition, Windows, Reasons
  <2> QED
    BY <1>13, <2>1, <2>2 DEF FindPartition
<1>14. ASSUME NEW seen \in Enc \cup {NoId}, raw' = [raw EXCEPT !.hdr = seen],
              pc \in {"fve", "luks"}, candid' \in BOOLEAN,
              Goto(IF pc = "fve" THEN RawEnd ELSE "ext4"), UNCHANGED <<entry, obs, target>>
       PROVE  TypeInv'
  <2>1. raw' \in RawObservation
    BY <1>14 DEF RawObservation, TypeInv, TypeOK
  <2> QED
    BY <1>14, <2>1
       DEF RawEnd, Goto, Inside, Observed, Comparing, Registering, TypeInv, TypeOK
<1>15. CASE ReadFve
  <2>1. CASE RawError
    BY <1>15, <2>1, RawErrorType DEF ReadFve, Windows
  <2>2. ASSUME NEW seen \in {disk.hdr, NoId}, raw' = [raw EXCEPT !.hdr = seen],
               candid' = (candid /\ seen = disk.hdr), Goto(RawEnd),
               UNCHANGED <<entry, obs, target>>
        PROVE  TypeInv'
    <3>1. seen \in Enc \cup {NoId}
      BY <2>2, DiskType DEF TypeInv
    <3> QED
      BY <1>14, <1>15, <2>2, <3>1 DEF ReadFve, Windows
  <2> QED
    BY <1>15, <2>1, <2>2 DEF ReadFve
<1>16. CASE ResolveTarget
  <2>1. CASE /\ target' \in {"backing", "mapper"} /\ candid' \in {candid, FALSE}
             /\ Goto("luks") /\ UNCHANGED <<entry, obs, raw>>
    BY <1>16, <2>1
       DEF ResolveTarget, Goto, Inside, Observed, Comparing, Registering, TypeInv,
           TypeOK
  <2>2. CASE Error("VOLUME_QUERY_FAILED")
    BY <1>16, <2>2, ErrorType DEF ResolveTarget, Reasons
  <2> QED
    BY <1>16, <2>1, <2>2 DEF ResolveTarget
<1>17. CASE ReadLuks
  <2>1. CASE RawError
    BY <1>17, <2>1, RawErrorType DEF ReadLuks
  <2>2. ASSUME NEW seen \in Enc \cup {NoId}, raw' = [raw EXCEPT !.hdr = seen],
               Goto("ext4"), UNCHANGED <<entry, obs, target, candid>>
        PROVE  TypeInv'
    BY <1>14, <1>17, <2>2 DEF ReadLuks, TypeInv, TypeOK
  <2> QED
    BY <1>17, <2>1, <2>2, DiskType, TextType DEF ReadLuks, TypeInv
<1>18. CASE ReadExt4
  <2>1. ASSUME NEW seen \in {disk.fs, disk.uid, NoId}, raw' = [raw EXCEPT !.fs = Text(seen)],
               Goto(RawEnd), UNCHANGED <<entry, obs, target, candid>>
        PROVE  TypeInv'
    <3>1. raw' \in RawObservation
      BY <2>1, DiskType, TextType DEF RawObservation, TypeInv, TypeOK
    <3> QED
      BY <1>18, <2>1, <3>1
         DEF ReadExt4, RawEnd, Goto, Inside, Observed, Comparing, Registering,
                TypeInv, TypeOK
  <2> QED
    BY <1>18, <2>1, RawErrorType DEF ReadExt4
<1>19. CASE Judge
  <2>1. entry.strength \in {"WEAK", "STANDARD"}
    BY <1>19, EntryType DEF Judge, Comparing, TypeInv, TypeOK
  <2>2. /\ Verdict("DENY", "EVIDENCE_CONFLICT", entry.strength) \in Verdicts
        /\ \A s \in {"RAW", entry.strength} :
             Verdict("PASS", "MATCHED_REGISTERED_IDENTITY", s) \in Verdicts
    BY <2>1, VerdictType DEF Reasons
  <2>3. CASE Raised("UnboundLocalError")
    BY <1>19, <2>3, RaisedType DEF Judge, Reasons
  <2>4. CASE \E v \in Verdicts : End(v) /\ UNCHANGED <<store, entry>>
    BY <1>19, <2>4, EndType DEF Judge, TypeInv, TypeOK
  <2> QED
    BY <1>19, <2>2, <2>3, <2>4 DEF Judge
<1>20. CASE Commit
  <2>1. platform \in {"win32", "linux"} /\ obs \in Observation /\ inv.arg \in Arg
    BY <1>20 DEF Commit, Observed, Observation, Invocation, TypeInv, TypeOK
  <2>2. entry' \in Entry
    BY <1>20, <2>1, MadeType DEF Commit, TypeInv, TypeOK
  <2>3. entry'.strength \in {"WEAK", "STANDARD"}
    BY <2>2, EntryType
  <2>4. Verdict("REGISTERED", "NONE", entry'.strength) \in Verdicts
    BY <2>3, VerdictType DEF Reasons
  <2>5. store' \in [Arg -> Entry \cup {NoEntry}]
    BY <1>20, <2>1, <2>2 DEF Commit, TypeInv, TypeOK
  <2> QED
    BY <1>20, <2>2, <2>4, <2>5, EndType DEF Commit
<1>21. CASE SystemRaises
  BY <1>21, RaisedType DEF SystemRaises, CallsSystem, Reasons
<1> QED
  BY <1>1, <1>2, <1>3, <1>4, <1>5, <1>6, <1>7, <1>8, <1>9, <1>10, <1>11, <1>12,
     <1>13, <1>15, <1>16, <1>17, <1>18, <1>19, <1>20, <1>21 DEF Next, Step

\* Whatever the queries answer and whenever the volume changes, every variable
\* keeps its shape, and each stored fingerprint and strength is that of the
\* ids stored with it.
THEOREM VerifierTypeCorrect == Spec => []TypeOK
<1>1. TypeInv => TypeOK
  BY DEF TypeInv
<1> QED
  BY <1>1, TypeInit, TypeStep, PTL DEF Spec

-----------------------------------------------------------------------------
(* What an invocation knows.                                               *)

RawPlaces == {"serial", "partition", "fve", "resolve", "luks", "ext4"}

\* Each identity of the store was registered where its argument leads to a
\* volume, and only there does an invocation with this argument get that far.
AtHome ==
  /\ \A a \in Arg : store[a] # NoEntry => store[a] \in EntryOn(Home(a))
  /\ pc \notin {"idle", "begin", "done"} /\ platform = "win32" => inv.arg = "C:"
  /\ Observed => platform = Home(inv.arg)
  /\ Comparing => entry \in EntryOn(Home(inv.arg))

\* The API channel's ids are the volume's, except that encryption may be
\* overlooked; a comparison that goes on has succeeded.
ApiHolds ==
  /\ Observed /\ steady => obs.uid = disk.uid
  /\ Observed /\ pc # "enc" =>
       /\ obs.enc \in EncOn(platform) \cup {NoId}
       /\ steady => obs.enc \in {disk.enc, NoId}
       /\ steady /\ candid => obs.enc = disk.enc
  /\ ~ Registering /\ pc \in RawPlaces \cup {"judge"} =>
       ~ MetadataUnavailable /\ CurrentFp = entry.fp

\* What the raw channel has read so far is what its device holds.
RawHolds ==
  /\ pc \in {"serial", "partition", "fve"} => platform = "win32"
  /\ pc \in {"resolve", "luks", "ext4"} => platform = "linux"
  /\ pc \in RawPlaces \cup {"judge"} => inv.raw
  /\ pc \in {"luks", "ext4", "judge", "commit"} /\ inv.raw /\ platform = "linux" /\ candid =>
       target = "backing"
  /\ pc \in {"partition", "fve"} /\ steady => raw.fs = disk.fs
  /\ pc \in {"ext4", "judge", "commit"} /\ inv.raw /\ platform = "linux" /\ steady =>
       raw.hdr = IF target = "backing" THEN Text(disk.hdr) ELSE NoId
  /\ pc \in {"judge", "commit"} /\ inv.raw /\ platform = "linux" /\ steady =>
       IF target = "backing" THEN raw.fs = Text(disk.fs)
                             ELSE raw.fs \in {Text(disk.uid), NoId}
  /\ pc \in {"judge", "commit"} /\ inv.raw /\ platform = "win32" /\ steady =>
       /\ raw.fs = disk.fs /\ raw.hdr \in {disk.hdr, NoId}
       /\ candid => raw.hdr = disk.hdr

\* What a registration returns is an entry.
Registers == Done("REGISTERED") => entry \in Entry

\* The properties of the verdicts.
Concluded ==
  /\ PassMeansRegisteredVolume
  /\ NoCrossPlatformPass
  /\ RawIsEarned
  /\ WindowsChannelsAgree
  /\ RegistrationIsTruthful
  /\ LinuxChannelsAgree
  /\ ConflictIsReal
  /\ DenialIsReal
  /\ RaiseHidesAMatch
  /\ Registers

SafeInv ==
  /\ TypeInv
  /\ AtHome
  /\ ApiHolds
  /\ RawHolds
  /\ Concluded

\* Before the first invocation there is nothing to know.
LEMMA SafeInit == Init => SafeInv
<1> SUFFICES ASSUME Init PROVE SafeInv
  OBVIOUS
<1>1. TypeInv
  BY TypeInit
<1>2. pc = "idle" /\ \A a \in Arg : store[a] = NoEntry
  BY DEF Init
<1>3. AtHome
  BY <1>2 DEF AtHome, Observed, Comparing
<1>4. ApiHolds
  BY <1>2 DEF ApiHolds, Observed, RawPlaces
<1>5. RawHolds
  BY <1>2 DEF RawHolds, RawPlaces
<1>6. Concluded
  BY <1>2 DEF Concluded, PassMeansRegisteredVolume, NoCrossPlatformPass, RawIsEarned,
     WindowsChannelsAgree, RegistrationIsTruthful, ConflictIsReal, DenialIsReal,
     LinuxChannelsAgree, Registers, RaiseHidesAMatch, Passed, Done
<1> QED
  BY <1>1, <1>3, <1>4, <1>5, <1>6 DEF SafeInv

\* An invocation that runs, that ends in an error or that the system ends, and
\* a store that has nothing to compare with, say nothing of the volume.
LEMMA SaysNothing ==
  ASSUME \/ pc' # "done" \/ verdict'.outcome = "ERROR"
         \/ /\ verdict'.outcome = "DENY"
            /\ verdict'.reason \in {"STORE_MISSING", "NOT_REGISTERED"}
         \/ /\ verdict'.outcome = "RAISED"
            /\ verdict'.reason # "UnboundLocalError"
  PROVE  Concluded'
  BY DEF Concluded, PassMeansRegisteredVolume, NoCrossPlatformPass, RawIsEarned,
     WindowsChannelsAgree, LinuxChannelsAgree, RegistrationIsTruthful, ConflictIsReal,
     DenialIsReal, Registers, RaiseHidesAMatch, Passed, Done

\* An error keeps what is known.
LEMMA SafeError ==
  ASSUME SafeInv, TypeInv', NEW reason, Error(reason)
  PROVE  SafeInv'
<1>1. pc' = "done" /\ verdict'.outcome = "ERROR" /\ UNCHANGED <<store, entry>>
  BY DEF Error, End, Verdict
<1>2. AtHome'
  BY <1>1 DEF SafeInv, AtHome, Observed, Comparing
<1>3. ApiHolds' /\ RawHolds'
  BY <1>1 DEF ApiHolds, RawHolds, Observed, RawPlaces
<1>4. Concluded'
  BY <1>1, SaysNothing
<1> QED
  BY <1>2, <1>3, <1>4 DEF SafeInv

\* So does an exception of the system's.
LEMMA SafeRaised ==
  ASSUME SafeInv, TypeInv', NEW exception, exception # "UnboundLocalError",
         Raised(exception)
  PROVE  SafeInv'
<1>1. /\ pc' = "done" /\ verdict'.outcome = "RAISED" /\ verdict'.reason = exception
      /\ UNCHANGED <<store, entry>>
  BY DEF Raised, End, Verdict
<1>2. AtHome'
  BY <1>1 DEF SafeInv, AtHome, Observed, Comparing
<1>3. ApiHolds' /\ RawHolds'
  BY <1>1 DEF ApiHolds, RawHolds, Observed, RawPlaces
<1>4. Concluded'
  BY <1>1, SaysNothing
<1> QED
  BY <1>2, <1>3, <1>4 DEF SafeInv

\* A step to another place of the invocation concludes nothing.
LEMMA GotoConcludes ==
  ASSUME NEW place, place # "done", Goto(place)
  PROVE  Concluded'
  BY SaysNothing DEF Goto

\* An invocation that ends knows nothing any more.
LEMMA EndForgets ==
  ASSUME NEW v, End(v)
  PROVE  ApiHolds' /\ RawHolds'
  BY DEF End, ApiHolds, RawHolds, Observed, RawPlaces

\* What is known stays true while nothing but the volume changes: it is only
\* claimed for a steady one.
LEMMA VolumeChangesSafe ==
  ASSUME SafeInv, TypeInv', VolumeChanges
  PROVE  SafeInv'
<1> USE DEF VolumeChanges
<1>1. ~ steady' /\ UNCHANGED <<platform, store, pc, inv, entry, obs, target, raw, verdict, candid>>
  OBVIOUS
<1>2. AtHome'
  BY <1>1 DEF SafeInv, AtHome, Observed, Comparing, Registering
<1>3. ApiHolds'
  BY <1>1 DEF SafeInv, ApiHolds, Observed, Registering, MetadataUnavailable, CurrentFp
<1>4. RawHolds'
  BY <1>1 DEF SafeInv, RawHolds
<1>5. Concluded'
  BY <1>1 DEF SafeInv, Concluded, PassMeansRegisteredVolume, NoCrossPlatformPass,
     RawIsEarned, WindowsChannelsAgree, RegistrationIsTruthful, ConflictIsReal,
     DenialIsReal, LinuxChannelsAgree, Registers, RaiseHidesAMatch, Passed, Done
<1> QED
  BY <1>2, <1>3, <1>4, <1>5 DEF SafeInv

\* A verification that agrees with its entry agrees with it id by id.
LEMMA MatchIdentifies ==
  ASSUME SafeInv, Observed, pc # "enc", entry \in EntryOn(platform),
         ~ MetadataUnavailable, CurrentFp = entry.fp
  PROVE  entry.uid = obs.uid /\ (entry.strength = "STANDARD" => entry.enc = obs.enc)
<1>1. platform \in Platform /\ obs.uid \in Uid /\ obs.enc \in EncOn(platform) \cup {NoId}
  BY DEF SafeInv, TypeInv, TypeOK, ApiHolds
<1> QED
  BY <1>1, FingerprintIdentifies DEF MetadataUnavailable, CurrentFp

\* A store that says there is nothing to compare with says nothing of the volume.
LEMMA LoadForVerifySafe ==
  ASSUME SafeInv, TypeInv', LoadForVerify
  PROVE  SafeInv'
<1> USE DEF LoadForVerify
<1>1. inv.arg \in Arg /\ platform \in {"win32", "linux"} /\ pc = "load" /\ ~ Registering
  BY DEF SafeInv, TypeInv, Invocation
<1>2. ASSUME NEW reason \in {"STORE_MISSING", "NOT_REGISTERED"},
             End(Verdict("DENY", reason, "NONE")), UNCHANGED <<store, entry>>
      PROVE  SafeInv'
  <2>1. /\ pc' = "done" /\ verdict'.outcome = "DENY"
        /\ verdict'.reason \in {"STORE_MISSING", "NOT_REGISTERED"}
    BY <1>2 DEF End, Verdict
  <2>2. AtHome'
    BY <1>2, <2>1 DEF SafeInv, AtHome, Observed, Comparing
  <2>3. Concluded'
    BY <2>1, SaysNothing
  <2> QED
    BY <1>2, <2>2, <2>3, EndForgets DEF SafeInv
<1>3. CASE /\ store[inv.arg] # NoEntry /\ entry' = store[inv.arg]
           /\ Goto("uid") /\ UNCHANGED <<obs, target, raw, candid>>
  <2>1. AtHome'
    BY <1>1, <1>3 DEF SafeInv, AtHome, Goto, Inside, Observed, Comparing, Registering
  <2>2. ApiHolds' /\ RawHolds'
    BY <1>3 DEF ApiHolds, RawHolds, RawPlaces, Goto, Observed
  <2> QED
    BY <1>3, <2>1, <2>2, GotoConcludes DEF SafeInv
<1> QED
  BY <1>2, <1>3

\* The first comparison: a match goes on, or is a PASS.
LEMMA CompareSafe ==
  ASSUME SafeInv, TypeInv', Compare
  PROVE  SafeInv'
<1>1. /\ pc = "compare" /\ ~ Registering /\ Observed /\ Comparing
      /\ entry \in EntryOn(platform) /\ entry \in Entry
  BY DEF Compare, SafeInv, TypeInv, AtHome, Observed, Comparing
<1>2. entry.strength \in {"WEAK", "STANDARD"} /\ entry.platform = platform
  BY <1>1, EntryType DEF EntryOn
<1>3. ASSUME NEW reason, NEW strength, reason # "EVIDENCE_CONFLICT",
             End(Verdict("DENY", reason, strength)), UNCHANGED <<store, entry>>,
             DenialIsReal'
      PROVE  SafeInv'
  <2>1. pc' = "done" /\ verdict'.outcome = "DENY" /\ verdict'.reason # "EVIDENCE_CONFLICT"
    BY <1>3 DEF End, Verdict
  <2>2. AtHome'
    BY <1>3, <2>1 DEF SafeInv, AtHome, Observed, Comparing
  <2>3. Concluded'
    BY <1>3, <2>1 DEF Concluded, PassMeansRegisteredVolume, NoCrossPlatformPass,
       RawIsEarned, WindowsChannelsAgree, RegistrationIsTruthful, ConflictIsReal,
       LinuxChannelsAgree, Registers, RaiseHidesAMatch, Passed, Done
  <2> QED
    BY <1>3, <2>2, <2>3, EndForgets DEF SafeInv
<1>4. CASE /\ ~ MetadataUnavailable /\ CurrentFp = entry.fp /\ ~ inv.raw
           /\ End(Verdict("PASS", "MATCHED_REGISTERED_IDENTITY", entry.strength))
           /\ UNCHANGED <<store, entry>>
  <2>1. /\ pc' = "done" /\ verdict'.outcome = "PASS" /\ verdict'.strength # "RAW"
        /\ UNCHANGED <<platform, disk, inv, steady, store, entry>>
    BY <1>2, <1>4 DEF End, Inside, Verdict
  <2>2. AtHome'
    BY <2>1 DEF SafeInv, AtHome, Observed, Comparing
  <2>3. entry.uid = obs.uid /\ (entry.strength = "STANDARD" => entry.enc = obs.enc)
    BY <1>1, <1>4, MatchIdentifies
  <2>4. PassMeansRegisteredVolume'
    BY <1>1, <1>4, <2>1, <2>3
       DEF SafeInv, ApiHolds, PassMeansRegisteredVolume, MetadataUnavailable
  <2>5. Concluded'
    BY <1>2, <1>4, <2>1, <2>4 DEF Concluded, NoCrossPlatformPass, RawIsEarned,
       WindowsChannelsAgree, RegistrationIsTruthful, ConflictIsReal, DenialIsReal,
       LinuxChannelsAgree, Registers, RaiseHidesAMatch, Passed, Done
  <2> QED
    BY <1>4, <2>2, <2>5, EndForgets DEF SafeInv
<1>5. CASE /\ ~ MetadataUnavailable /\ CurrentFp = entry.fp /\ inv.raw
           /\ Goto(RawStart) /\ UNCHANGED <<entry, obs, target, raw, candid>>
  <2> USE <1>1, <1>5 DEF Goto, Inside, RawStart
  <2>1. AtHome'
    BY DEF SafeInv, AtHome, Observed, Comparing, Registering
  <2>2. ApiHolds'
    BY
       DEF SafeInv, ApiHolds, Observed, RawPlaces, Registering, MetadataUnavailable,
           CurrentFp
  <2>3. RawHolds'
    BY DEF SafeInv, TypeInv, RawHolds, RawPlaces
  <2>4. Concluded'
    BY GotoConcludes
  <2> QED
    BY <2>1, <2>2, <2>3, <2>4 DEF SafeInv
<1>6. CASE MetadataUnavailable /\ UNCHANGED <<store, entry>>
           /\ End(Verdict("DENY", IF entry.platform = "linux"
                                  THEN "LUKS_METADATA_UNAVAILABLE"
                                  ELSE "BITLOCKER_METADATA_UNAVAILABLE", "NONE"))
  <2>1. DenialIsReal'
    BY <1>1, <1>6
       DEF SafeInv, ApiHolds, DenialIsReal, Done, End, Inside, Verdict,
           MetadataUnavailable
  <2> QED
    BY <1>3, <1>6, <2>1
<1>7. CASE /\ ~ MetadataUnavailable /\ CurrentFp # entry.fp
           /\ End(Verdict("DENY", "FINGERPRINT_MISMATCH", entry.strength))
           /\ UNCHANGED <<store, entry>>
  <2>1. obs.uid # entry.uid \/ (entry.strength = "STANDARD" /\ obs.enc # entry.enc)
    BY <1>1, <1>7, EntryType DEF CurrentFp
  <2>2. steady => obs.uid = disk.uid /\ obs.enc \in {disk.enc, NoId}
    BY <1>1 DEF SafeInv, ApiHolds
  <2>3. entry.strength = "STANDARD" => obs.enc # NoId
    BY <1>7 DEF MetadataUnavailable
  <2>4. DenialIsReal'
    BY <1>7, <2>1, <2>2, <2>3 DEF DenialIsReal, Done, End, Inside, Verdict
  <2> QED
    BY <1>3, <1>7, <2>4
<1> QED
  BY <1>4, <1>5, <1>6, <1>7 DEF Compare

\* The conclusion of _corroborate is one about the volume.
LEMMA JudgeSafe ==
  ASSUME SafeInv, TypeInv', Judge
  PROVE  SafeInv'
<1>1. /\ pc = "judge" /\ ~ Registering /\ inv.raw /\ Observed /\ Comparing
      /\ platform = Home(inv.arg) /\ entry \in EntryOn(platform) /\ entry \in Entry
      /\ ~ MetadataUnavailable /\ CurrentFp = entry.fp
  BY DEF Judge, SafeInv, TypeInv, AtHome, ApiHolds, RawHolds, Observed, Comparing
<1>2. /\ entry.strength \in {"WEAK", "STANDARD"} /\ entry.platform = platform
      /\ platform \in {"win32", "linux"}
  BY <1>1, EntryType DEF EntryOn, Home
<1>3. /\ pc' = "done" /\ UNCHANGED <<platform, disk, inv, steady, store, entry, obs,
                                     target, raw, candid>>
  BY DEF Judge, Raised, End, Inside
<1>4. AtHome'
  BY <1>3 DEF SafeInv, AtHome, Observed, Comparing
<1>5. ApiHolds' /\ RawHolds'
  BY EndForgets DEF Judge, Raised
<1>6. entry.uid = obs.uid /\ (entry.strength = "STANDARD" => entry.enc = obs.enc)
  BY <1>1, MatchIdentifies
<1>7. verdict'.outcome \in {"PASS", "DENY", "RAISED"}
  BY DEF Judge, Raised, End, Verdict
<1>8. verdict'.outcome = "PASS" => ~ Conflict
  BY DEF Judge, Raised, End, Verdict
<1>9. verdict'.outcome = "PASS" /\ verdict'.strength = "RAW" => Confirmed
  BY <1>2 DEF Judge, Raised, End, Verdict
<1>10. verdict'.outcome = "DENY" => Conflict /\ verdict'.reason = "EVIDENCE_CONFLICT"
  BY DEF Judge, Raised, End, Verdict
<1>11. steady =>
         /\ obs.uid = disk.uid /\ obs.enc \in {disk.enc, NoId}
         /\ candid => obs.enc = disk.enc
  BY <1>1 DEF SafeInv, ApiHolds
<1>12. steady /\ platform = "win32" =>
         /\ raw.fs = disk.fs /\ raw.hdr \in {disk.hdr, NoId}
         /\ candid => raw.hdr = disk.hdr
  BY <1>1 DEF SafeInv, RawHolds
<1>13. steady /\ platform = "linux" =>
         /\ raw.hdr = IF target = "backing" THEN Text(disk.hdr) ELSE NoId
         /\ IF target = "backing" THEN raw.fs = Text(disk.fs)
                                  ELSE raw.fs \in {Text(disk.uid), NoId}
         /\ candid => target = "backing"
  BY <1>1 DEF SafeInv, RawHolds
<1>14. target \in {"backing", "mapper"}
  BY DEF SafeInv, TypeInv, TypeOK
<1>15. PassMeansRegisteredVolume'
  BY <1>1, <1>3, <1>6, <1>11 DEF PassMeansRegisteredVolume, MetadataUnavailable
<1>16. NoCrossPlatformPass'
  BY <1>2, <1>3 DEF NoCrossPlatformPass
<1>17. RawIsEarned'
  <2> SUFFICES ASSUME steady, verdict'.outcome = "PASS", verdict'.strength = "RAW"
               PROVE  \/ disk.hdr # NoId /\ Text(disk.hdr) \in {disk.enc, entry.hdr}
                      \/ disk.fs # NoId /\ Text(disk.fs) \in {disk.uid, entry.fs}
                      \/ target = "mapper" /\ Text(disk.uid) \in {disk.uid, entry.fs}
    BY <1>1, <1>3 DEF RawIsEarned, Passed, Done, Text
  <2>1. CASE platform = "win32"
    BY <1>9, <1>11, <1>12, <2>1 DEF Confirmed, ConfirmedOnWindows, Confirms, Text
  <2>2. CASE platform = "linux"
    BY <1>6, <1>9, <1>11, <1>13, <1>14, <2>2 DEF Confirmed, ConfirmedOnLinux, Confirms, Text
  <2> QED
    BY <1>2, <2>1, <2>2
<1>18. WindowsChannelsAgree'
  BY <1>3, <1>8, <1>11, <1>12
     DEF WindowsChannelsAgree, Passed, Done, ChannelsAgree, Conflict, ConflictOnWindows,
         Contradicts
<1>19. RegistrationIsTruthful'
  BY <1>7 DEF RegistrationIsTruthful, Done
<1>20. ConflictIsReal'
  <2> SUFFICES ASSUME steady, candid, verdict'.outcome = "DENY"
               PROVE  \/ Text(disk.hdr) # disk.enc
                      \/ disk.enc = NoId /\ Text(disk.fs) \notin {NoId, disk.uid}
                      \/ Contradicts(entry.hdr, Text(disk.hdr))
                      \/ Contradicts(entry.fs, Text(disk.fs))
    BY <1>3 DEF ConflictIsReal, Done, Contradicts, Text
  <2>1. CASE platform = "win32"
    BY <1>10, <1>11, <1>12, <2>1
       DEF Conflict, ConflictOnWindows, Contradicts, Text
  <2>2. CASE platform = "linux"
    BY <1>10, <1>11, <1>13, <2>2
       DEF Conflict, ConflictOnLinux, Contradicts, Text
  <2> QED
    BY <1>2, <2>1, <2>2
<1>21. DenialIsReal'
  BY <1>10 DEF DenialIsReal, Done
<1>22. LinuxChannelsAgree'
  <2> SUFFICES ASSUME steady, candid, platform = "linux", verdict'.outcome = "PASS"
               PROVE  /\ disk.enc # NoId => Text(disk.hdr) = disk.enc
                      /\ disk.enc = NoId => Text(disk.fs) \in {NoId, disk.uid}
                      /\ entry.hdr # NoId => Text(disk.hdr) = entry.hdr
                      /\ entry.fs # NoId => Text(disk.fs) = entry.fs
    BY <1>3 DEF LinuxChannelsAgree, Passed, Done, Text
  <2> QED
    BY <1>8, <1>11, <1>13 DEF Conflict, ConflictOnLinux, Contradicts, Text
<1>23. Registers'
  BY <1>7 DEF Registers, Done
<1>24. RaiseHidesAMatch'
  <2>1. verdict'.outcome = "RAISED" => Unbound
    BY <1>2 DEF Judge, End, Verdict
  <2> QED
    BY <1>1, <1>3, <1>6, <1>11, <2>1
       DEF RaiseHidesAMatch, Done, Unbound, MetadataUnavailable
<1> QED
  BY <1>4, <1>5, <1>15, <1>16, <1>17, <1>18, <1>19, <1>20, <1>21, <1>22, <1>23, <1>24
     DEF SafeInv, Concluded

\* What is registered is what was observed.
LEMMA CommitSafe ==
  ASSUME SafeInv, TypeInv', Commit
  PROVE  SafeInv'
<1>1. /\ pc = "commit" /\ Observed /\ platform = Home(inv.arg)
      /\ platform \in {"win32", "linux"} /\ inv.arg \in Arg
      /\ obs.uid \in Uid /\ obs.enc \in EncOn(platform) \cup {NoId}
      /\ obs \in Observation /\ raw \in RawObservation
  BY DEF Commit, SafeInv, TypeInv, TypeOK, AtHome, ApiHolds, Observed, Invocation,
     Observation
<1>2. /\ pc' = "done" /\ verdict'.outcome = "REGISTERED"
      /\ UNCHANGED <<platform, disk, inv, steady, obs, target, raw, candid>>
  BY DEF Commit, End, Inside, Verdict
<1>3. entry' = MakeEntry(platform, obs, raw)
  BY DEF Commit
<1>4. /\ entry'.platform = platform /\ entry'.uid = obs.uid /\ entry'.enc = obs.enc
      /\ entry'.hdr = raw.hdr /\ entry'.fs = raw.fs
  BY <1>3 DEF MakeEntry
<1>5. entry' \in EntryOn(platform)
  BY <1>1, <1>3, <1>4, MadeType DEF EntryOn
<1>6. AtHome'
  BY <1>1, <1>2, <1>5 DEF Commit, SafeInv, AtHome, Observed, Comparing, TypeInv, TypeOK
<1>7. RegistrationIsTruthful'
  BY <1>1, <1>2, <1>4 DEF RegistrationIsTruthful, SafeInv, ApiHolds, RawHolds, Text
<1>8. Registers'
  BY <1>5 DEF Registers, EntryOn
<1>9. Concluded'
  BY <1>2, <1>7, <1>8 DEF Concluded, PassMeansRegisteredVolume, NoCrossPlatformPass,
     RawIsEarned, WindowsChannelsAgree, ConflictIsReal, DenialIsReal,
     LinuxChannelsAgree, RaiseHidesAMatch, Passed, Done
<1> QED
  BY <1>6, <1>9, EndForgets DEF SafeInv, Commit

\* Each query adds what it saw to what is known.
LEMMA QuerySafe ==
  ASSUME SafeInv, TypeInv', Begin \/ QueryUid \/ QueryEnc \/ LoadForRegister
  PROVE  SafeInv'
<1>1. CASE \E reason : Error(reason)
  BY <1>1, SafeError
<1>2. ASSUME NEW place \in {"uid", "load"}, pc = "begin", Goto(place),
             place = "load" => ~ Registering,
             platform = "linux" \/ (platform = "win32" /\ inv.arg = "C:"),
             UNCHANGED <<entry, obs, target, raw, candid>>,
             place = "uid" => Registering
      PROVE  SafeInv'
  <2> USE <1>2 DEF Goto, Inside
  <2>1. AtHome'
    BY DEF SafeInv, AtHome, Observed, Comparing, Registering
  <2>2. ApiHolds' /\ RawHolds'
    BY DEF ApiHolds, RawHolds, RawPlaces, Observed, Registering
  <2> QED
    BY <2>1, <2>2, GotoConcludes DEF SafeInv
<1>3. CASE /\ pc = "uid" /\ ~ (platform = "linux" /\ inv.arg = "C:") /\ disk.uid # NoId
           /\ obs' = [obs EXCEPT !.uid = disk.uid]
           /\ Goto("enc") /\ UNCHANGED <<entry, target, raw, candid>>
  <2> USE <1>3 DEF Goto, Inside
  <2>1. platform = Home(inv.arg)
    BY DEF SafeInv, TypeInv, AtHome, Invocation, Arg, Home
  <2>2. AtHome'
    BY <2>1 DEF SafeInv, AtHome, Observed, Comparing, Registering
  <2>3. obs'.uid = disk.uid
    BY DEF SafeInv, TypeInv, TypeOK
  <2>4. ApiHolds' /\ RawHolds'
    BY <2>3 DEF ApiHolds, RawHolds, RawPlaces, Observed
  <2> QED
    BY <2>2, <2>4, GotoConcludes DEF SafeInv
<1>4. ASSUME NEW seen \in {disk.enc, NoId}, pc = "enc", obs' = [obs EXCEPT !.enc = seen],
             candid' = (candid /\ seen = disk.enc),
             Goto(IF Registering THEN "load" ELSE "compare"),
             UNCHANGED <<entry, target, raw>>
      PROVE  SafeInv'
  <2> USE <1>4 DEF Goto, Inside
  <2>1. AtHome'
    BY DEF SafeInv, AtHome, Observed, Comparing, Registering
  <2>2. obs'.uid = obs.uid /\ obs'.enc = seen /\ seen \in EncOn(platform) \cup {NoId}
    BY DiskType DEF SafeInv, TypeInv, TypeOK
  <2>3. ApiHolds'
    BY <2>2 DEF SafeInv, ApiHolds, RawPlaces, Observed, Registering
  <2>4. RawHolds'
    BY DEF RawHolds, RawPlaces
  <2>5. Concluded'
    BY GotoConcludes
  <2> QED
    BY <2>1, <2>3, <2>4, <2>5 DEF SafeInv
<1>5. CASE LoadForRegister
  <2> USE <1>5 DEF LoadForRegister, RawStart, Goto, Inside
  <2>1. AtHome'
    BY DEF SafeInv, AtHome, Observed, Comparing, Registering
  <2>2. ApiHolds'
    BY DEF SafeInv, ApiHolds, RawPlaces, Observed, Registering
  <2>3. RawHolds'
    <3>1. platform \in {"win32", "linux"}
      BY DEF SafeInv, TypeInv
    <3> QED
      BY <3>1 DEF SafeInv, RawHolds, RawPlaces
  <2>4. Concluded'
    BY GotoConcludes
  <2> QED
    BY <2>1, <2>2, <2>3, <2>4 DEF SafeInv
<1> QED
  BY <1>1, <1>2, <1>3, <1>4, <1>5 DEF Begin, QueryUid, QueryEnc

\* Each raw read adds what is on its device.
LEMMA RawSafe ==
  ASSUME SafeInv, TypeInv',
         \/ ReadSerial \/ FindPartition \/ ReadFve
         \/ ResolveTarget \/ ReadLuks \/ ReadExt4
  PROVE  SafeInv'
<1>1. CASE \E reason : Error(reason)
  BY <1>1, SafeError
<1>2. ASSUME NEW place \in {"partition", "fve", "luks", "ext4", "judge", "commit"},
             pc \in RawPlaces, Goto(place),
             place = "judge" => ~ Registering, place = "commit" => Registering,
             UNCHANGED <<entry, obs>>, candid' => candid, RawHolds'
      PROVE  SafeInv'
  <2> USE <1>2 DEF Goto, Inside
  <2>1. AtHome'
    BY DEF SafeInv, AtHome, Observed, Comparing, Registering, RawPlaces
  <2>2. ApiHolds'
    BY DEF SafeInv, ApiHolds, RawPlaces, Observed, Registering, MetadataUnavailable,
           CurrentFp
  <2>3. Concluded'
    BY GotoConcludes
  <2> QED
    BY <2>1, <2>2, <2>3 DEF SafeInv
<1>3. RawEnd \in {"judge", "commit"} /\ (RawEnd = "judge" <=> ~ Registering)
  BY DEF RawEnd
<1>4. platform \in {"win32", "linux"} \/ pc \in {"idle", "begin", "done"}
  BY DEF SafeInv, TypeInv
<1>5. CASE /\ Windows("serial") /\ raw' = [raw EXCEPT !.fs = disk.fs]
           /\ Goto("partition") /\ UNCHANGED <<entry, obs, target, candid>>
  <2>1. RawHolds'
    BY <1>5 DEF SafeInv, TypeInv, TypeOK, RawObservation, RawHolds, RawPlaces, Windows,
       Goto, Inside
  <2> QED
    BY <1>2, <1>5, <2>1 DEF Windows, RawPlaces
<1>6. CASE /\ Windows("partition") /\ Goto("fve")
           /\ UNCHANGED <<entry, obs, target, raw, candid>>
  <2>1. RawHolds'
    BY <1>6 DEF SafeInv, RawHolds, RawPlaces, Windows, Goto, Inside
  <2> QED
    BY <1>2, <1>6, <2>1 DEF Windows, RawPlaces
<1>7. ASSUME NEW seen \in {disk.hdr, NoId}, Windows("fve"),
             raw' = [raw EXCEPT !.hdr = seen], candid' = (candid /\ seen = disk.hdr),
             Goto(RawEnd), UNCHANGED <<entry, obs, target>>
      PROVE  SafeInv'
  <2>1. raw'.hdr = seen /\ raw'.fs = raw.fs
    BY <1>7 DEF SafeInv, TypeInv, TypeOK, RawObservation
  <2>2. RawHolds'
    BY <1>3, <1>7, <2>1 DEF SafeInv, RawHolds, RawPlaces, Windows, Goto, Inside
  <2> QED
    BY <1>2, <1>3, <1>7, <2>2 DEF Windows, RawPlaces
<1>8. CASE /\ pc = "resolve"
           /\ \/ target' = "backing" /\ UNCHANGED candid
              \/ disk.enc # NoId /\ target' = "mapper" /\ candid' = FALSE
           /\ Goto("luks") /\ UNCHANGED <<entry, obs, raw>>
  <2>1. RawHolds'
    BY <1>8 DEF SafeInv, RawHolds, RawPlaces, Goto, Inside
  <2> QED
    BY <1>2, <1>8, <2>1 DEF RawPlaces
<1>9. CASE /\ pc = "luks"
           /\ raw' = [raw EXCEPT !.hdr = IF target = "backing" THEN Text(disk.hdr) ELSE NoId]
           /\ Goto("ext4") /\ UNCHANGED <<entry, obs, target, candid>>
  <2>1. raw'.hdr = IF target = "backing" THEN Text(disk.hdr) ELSE NoId
    BY <1>9 DEF SafeInv, TypeInv, TypeOK, RawObservation
  <2>2. RawHolds'
    BY <1>9, <2>1 DEF SafeInv, RawHolds, RawPlaces, Goto, Inside, Text
  <2> QED
    BY <1>2, <1>9, <2>2 DEF RawPlaces
<1>10. ASSUME NEW seen \in IF target = "backing" THEN {disk.fs} ELSE {disk.uid, NoId},
              pc = "ext4", raw' = [raw EXCEPT !.fs = Text(seen)], Goto(RawEnd),
              UNCHANGED <<entry, obs, target, candid>>
       PROVE  SafeInv'
  <2>1. raw'.hdr = raw.hdr /\ raw'.fs = Text(seen)
    BY <1>10 DEF SafeInv, TypeInv, TypeOK, RawObservation
  <2>2. RawHolds'
    BY <1>3, <1>10, <2>1 DEF SafeInv, RawHolds, RawPlaces, Goto, Inside, Text
  <2> QED
    BY <1>2, <1>3, <1>10, <2>2 DEF RawPlaces
<1> QED
  BY <1>1, <1>5, <1>6, <1>7, <1>8, <1>9, <1>10
     DEF ReadSerial, FindPartition, ReadFve, ResolveTarget, ReadLuks, ReadExt4, RawError,
         Windows

\* Whatever the volume does and the queries answer, what is known stays true.
LEMMA SafeStep == SafeInv /\ [Next]_vars => SafeInv'
<1> SUFFICES ASSUME SafeInv, [Next]_vars PROVE SafeInv'
  OBVIOUS
<1>1. TypeInv'
  BY TypeStep DEF SafeInv
<1>2. CASE UNCHANGED vars
  BY <1>1, <1>2 DEF vars, SafeInv, AtHome, ApiHolds, RawHolds, Concluded, Observed,
     Comparing, Registering, MetadataUnavailable, CurrentFp,
     PassMeansRegisteredVolume, NoCrossPlatformPass, RawIsEarned,
     WindowsChannelsAgree, RegistrationIsTruthful, ConflictIsReal, DenialIsReal,
     LinuxChannelsAgree, Registers, RaiseHidesAMatch, Passed, Done, ChannelsAgree, Text
<1>3. ASSUME pc' \in {"idle", "begin"}, UNCHANGED store PROVE SafeInv'
  <2>1. AtHome'
    BY <1>3 DEF SafeInv, AtHome, Observed, Comparing
  <2>2. ApiHolds' /\ RawHolds'
    BY <1>3 DEF ApiHolds, RawHolds, Observed, RawPlaces
  <2>3. Concluded'
    BY <1>3, SaysNothing
  <2> QED
    BY <1>1, <2>1, <2>2, <2>3 DEF SafeInv
<1>4. CASE \E i \in Invocation : Start(i)
  BY <1>3, <1>4 DEF Start
<1>5. CASE VolumeChanges
  BY <1>1, <1>5, VolumeChangesSafe
<1>6. CASE StoreMoves
  BY <1>3, <1>6 DEF StoreMoves
<1>7. CASE Begin \/ QueryUid \/ QueryEnc \/ LoadForRegister
  BY <1>1, <1>7, QuerySafe
<1>8. CASE StoreRefuses
  BY <1>1, <1>8, SafeError DEF StoreRefuses
<1>9. CASE LoadForVerify
  BY <1>1, <1>9, LoadForVerifySafe
<1>10. CASE Compare
  BY <1>1, <1>10, CompareSafe
<1>11. CASE \/ ReadSerial \/ FindPartition \/ ReadFve
            \/ ResolveTarget \/ ReadLuks \/ ReadExt4
  BY <1>1, <1>11, RawSafe
<1>12. CASE Judge
  BY <1>1, <1>12, JudgeSafe
<1>13. CASE Commit
  BY <1>1, <1>13, CommitSafe
<1>14. CASE SystemRaises
  BY <1>1, <1>14, SafeRaised DEF SystemRaises
<1> QED
  BY <1>2, <1>4, <1>5, <1>6, <1>7, <1>8, <1>9, <1>10, <1>11, <1>12, <1>13,
     <1>14 DEF Next, Step

\* SafeInv is an invariant of the verifier.
LEMMA SafeInvariant == Spec => []SafeInv
  BY SafeInit, SafeStep, PTL DEF Spec

\* For every set of ids and volumes: PASS means that the volume is the
\* registered one, as far as its entry identifies it, whatever fails.
THEOREM PassIdentifies == Spec => []PassMeansRegisteredVolume
<1>1. SafeInv => PassMeansRegisteredVolume
  BY DEF SafeInv, Concluded
<1> QED
  BY <1>1, SafeInvariant, PTL

\* An identity registered on one platform never passes on another, although
\* verify_volume does not compare the platforms.
THEOREM PlatformsApart == Spec => []NoCrossPlatformPass
<1>1. SafeInv => NoCrossPlatformPass
  BY DEF SafeInv, Concluded
<1> QED
  BY <1>1, SafeInvariant, PTL

\* RAW strength always rests on an id that was read from the medium.
THEOREM RawEarned == Spec => []RawIsEarned
<1>1. SafeInv => RawIsEarned
  BY DEF SafeInv, Concluded
<1> QED
  BY <1>1, SafeInvariant, PTL

\* On Windows a PASS with --raw means that both channels agree, unless a
\* failure looked like absence.
THEOREM WindowsCorroborates == Spec => []WindowsChannelsAgree
<1>1. SafeInv => WindowsChannelsAgree
  BY DEF SafeInv, Concluded
<1> QED
  BY <1>1, SafeInvariant, PTL

\* On Linux a PASS with --raw means that the medium has the header and the
\* filesystem that the system announces, and every raw id of the entry, unless
\* a failure looked like absence.
THEOREM LinuxCorroborates == Spec => []LinuxChannelsAgree
<1>1. SafeInv => LinuxChannelsAgree
  BY DEF SafeInv, Concluded
<1> QED
  BY <1>1, SafeInvariant, PTL

\* What is registered is what the volume has, channel by channel, unless a
\* failure looked like absence.
THEOREM TruthfulRegistration == Spec => []RegistrationIsTruthful
<1>1. SafeInv => RegistrationIsTruthful
  BY DEF SafeInv, Concluded
<1> QED
  BY <1>1, SafeInvariant, PTL

\* EVIDENCE_CONFLICT means that the channels print different ids or that a
\* registered raw id is gone, unless a failure looked like absence.
THEOREM RealConflict == Spec => []ConflictIsReal
<1>1. SafeInv => ConflictIsReal
  BY DEF SafeInv, Concluded
<1> QED
  BY <1>1, SafeInvariant, PTL

\* The registered volume is not denied: a mismatch is one of ids the entry
\* identifies the volume by.
THEOREM RealDenial == Spec => []DenialIsReal
<1>1. SafeInv => DenialIsReal
  BY DEF SafeInv, Concluded
<1> QED
  BY <1>1, SafeInvariant, PTL

\* The UnboundLocalError hides a match: where it leaves verify_volume, the
\* volume is the registered one, encrypted, on Linux, and asked for with --raw.
THEOREM RaiseHides == Spec => []RaiseHidesAMatch
<1>1. SafeInv => RaiseHidesAMatch
  BY DEF SafeInv, Concluded
<1> QED
  BY <1>1, SafeInvariant, PTL

-----------------------------------------------------------------------------
(* How far the code is from what the documentation says.  Each of these is *)
(* a property some run refutes, under the condition the refutation needs.  *)

\* A failed query taken for absence is the only way in which an encrypted
\* volume is registered as WEAK.
THEOREM WeakIsSwallowedFailure == Spec => [](candid => WeakMeansUnencrypted)
<1>1. ASSUME SafeInv, candid PROVE WeakMeansUnencrypted
  <2> SUFFICES ASSUME Done("REGISTERED"), steady, entry.strength = "WEAK"
               PROVE  disk.enc = NoId
    BY DEF WeakMeansUnencrypted
  <2>1. entry \in Entry /\ entry.enc = disk.enc
    BY <1>1 DEF SafeInv, Concluded, Registers, RegistrationIsTruthful
  <2> QED
    BY <2>1, EntryType
<1>2. SafeInv => (candid => WeakMeansUnencrypted)
  BY <1>1
<1> QED
  BY <1>2, SafeInvariant, PTL

\* The order of a UUID's bytes is the only reason for which a volume whose two
\* channels agree is in conflict with itself: it is none on Windows, and on
\* Linux none where the swap leaves the ids on the medium alone.
THEOREM ConflictIsByteOrder ==
  Spec => [](Text(disk.hdr) = disk.hdr /\ Text(disk.fs) = disk.fs => SameVolumeNoConflict)
<1>1. ASSUME SafeInv, Text(disk.hdr) = disk.hdr, Text(disk.fs) = disk.fs
      PROVE  SameVolumeNoConflict
  <2>1. ConflictIsReal
    BY <1>1 DEF SafeInv, Concluded
  <2> QED
    BY <1>1, <2>1 DEF ConflictIsReal, SameVolumeNoConflict, ChannelsAgree, Contradicts
<1>2. SafeInv => (Text(disk.hdr) = disk.hdr /\ Text(disk.fs) = disk.fs
                    => SameVolumeNoConflict)
  BY <1>1
<1> QED
  BY <1>2, SafeInvariant, PTL

=============================================================================
