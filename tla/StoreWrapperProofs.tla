------------------------- MODULE StoreWrapperProofs -------------------------
(***************************************************************************)
(* What StoreWrapper guarantees for every set of keys, ids, entries,       *)
(* passphrases and contexts, and for any number of accidents.              *)
(***************************************************************************)
EXTENDS StoreWrapper, ConcatLemmas, SequenceTheorems, TLAPS

-----------------------------------------------------------------------------
(* Entries.                                                                *)

\* Ids are strings, and no string is an odd value.
LEMMA IdsAreStrings ==
  /\ \A v \in Text : IsStr(v) /\ v # NoId /\ v # NotString
  /\ \A v \in Id : v \in Text /\ v # <<>> /\ IsStr(v) /\ v # NoId
  /\ ~ IsStr(NoId) /\ ~ IsStr(NotString) /\ NoId # NotString
BY OddAssumption, IdAssumption DEF IsStr, Odd

\* What register_volume hashes is a string.
LEMMA FingerprintsAreStrings ==
  ASSUME NEW u \in Text, NEW b \in Text \cup {NoId}
  PROVE  FingerprintOf(u, b) \in Text
BY ConcatProperties DEF FingerprintOf, Text

\* register_volume's entries are valid, consistent and of the right type.
LEMMA MadeEntries ==
  ASSUME NEW i \in [uid : Text, bid : Text \cup {NoId}]
  PROVE  /\ MakeEntry(i) \in AnyEntry
         /\ ValidEntry(MakeEntry(i))
         /\ Consistent(MakeEntry(i))
         /\ IdentityOf(MakeEntry(i)) = i
<1>1. FingerprintOf(i.uid, i.bid) \in Text
  BY FingerprintsAreStrings
<1>2. MakeEntry(i) \in AnyEntry
  BY <1>1 DEF MakeEntry, AnyEntry
<1>3. ValidEntry(MakeEntry(i))
  BY <1>1, IdsAreStrings DEF MakeEntry, ValidEntry
<1>4. IdentityOf(MakeEntry(i)) = i
  <2>1. /\ MakeEntry(i).uid = i.uid /\ MakeEntry(i).bid = i.bid
        /\ MakeEntry(i).strength = IF i.bid = NoId THEN "WEAK" ELSE "STANDARD"
    BY DEF MakeEntry
  <2>2. (IF MakeEntry(i).strength = "STANDARD" THEN MakeEntry(i).bid ELSE NoId) = i.bid
    BY <2>1
  <2>3. IdentityOf(MakeEntry(i)) = [uid |-> i.uid, bid |-> i.bid]
    BY <2>1, <2>2, Zenon DEF IdentityOf
  <2>4. i = [uid |-> i.uid, bid |-> i.bid]
    OBVIOUS
  <2> QED
    BY <2>3, <2>4, Zenon
<1>5. Consistent(MakeEntry(i))
  BY <1>4 DEF Consistent
<1> QED
  BY <1>2, <1>3, <1>4, <1>5

\* A v1 entry that is taken over has a string for an id, and becomes a valid
\* entry for its id and its encryption id, if it has one.
LEMMA MigratedEntries ==
  ASSUME NEW v \in AnyLegacy \cup {NoEntry, NotDict}, Migrates(v)
  PROVE  /\ v \in AnyLegacy /\ v.uid \in Text /\ v.uid # <<>>
         /\ LegacyBid(v) \in Text \cup {NoId}
         /\ MigrateEntry(v) \in AnyEntry
         /\ ValidEntry(MigrateEntry(v))
         /\ Consistent(MigrateEntry(v))
         /\ IdentityOf(MigrateEntry(v)) = [uid |-> v.uid, bid |-> LegacyBid(v)]
         /\ MigrateEntry(v) # NoEntry
<1>1. v \in AnyLegacy /\ v.uid \in Text /\ v.uid # <<>>
  BY IdsAreStrings DEF Migrates, AnyLegacy, IsStr
<1>2. LegacyBid(v) \in Text \cup {NoId} /\ (IsStr(v.bid) => v.bid \in Text)
  BY <1>1, IdsAreStrings DEF LegacyBid, AnyLegacy, IsStr
<1> DEFINE i == [uid |-> v.uid, bid |-> LegacyBid(v)]
           e == MigrateEntry(v)
<1>3. /\ MakeEntry(i) \in AnyEntry /\ ValidEntry(MakeEntry(i))
      /\ Consistent(MakeEntry(i)) /\ IdentityOf(MakeEntry(i)) = i
  BY <1>1, <1>2, MadeEntries
<1>4. /\ e.uid = v.uid /\ e.bid = (IF IsStr(v.bid) THEN v.bid ELSE NoId)
      /\ e.strength = MakeEntry(i).strength /\ e.fp = MakeEntry(i).fp
      /\ e \in AnyEntry
  BY <1>2, <1>3 DEF MigrateEntry, MakeEntry, AnyEntry
<1>5. IdentityOf(e) = i
  <2>1. CASE e.strength = "STANDARD"
    <3>1. LegacyBid(v) # NoId
      BY <2>1, <1>4 DEF MakeEntry
    <3> QED
      BY <3>1, <2>1, <1>4 DEF IdentityOf, LegacyBid
  <2>2. CASE e.strength # "STANDARD"
    BY <2>2, <1>4 DEF IdentityOf, MakeEntry
  <2> QED
    BY <2>1, <2>2
<1>6. Consistent(e)
  BY <1>4, <1>5 DEF Consistent
<1>7. ValidEntry(e)
  BY <1>2, <1>3, <1>4, IdsAreStrings DEF ValidEntry, MakeEntry
<1>8. e # NoEntry
  BY <1>4, OddAssumption DEF Odd
<1> HIDE DEF i, e
<1> QED
  BY <1>1, <1>2, <1>4, <1>5, <1>6, <1>7, <1>8 DEF i, e

(* The inductive invariant.                                                *)

\* At least two of the three fields of a v1 entry are those written, or all
\* of it is gone.
OneAway(v, w) ==
  \/ v = w
  \/ w # NoEntry /\ v = NotDict
  \/ /\ w # NoEntry /\ v \in AnyLegacy
     /\ \/ v.uid = w.uid /\ v.bid = w.bid
        \/ v.uid = w.uid /\ v.fp = w.fp
        \/ v.bid = w.bid /\ v.fp = w.fp

LegacyInv ==
  /\ file.version = "absent" /\ file.root \in {"missing", "dict"}
  /\ file.root = "missing" => harm = 0 /\ file.legacy = NoLegacy
  /\ \E w \in [V1Key -> LegacyEntry \cup {NoEntry}] :
       /\ truth = HeldV1(w)
       /\ harm = 0 => file.legacy = w
       /\ harm = 1 => \A j \in V1Key : OneAway(file.legacy[j], w[j])

Sealable(e) == e = NoEntry \/ (ValidEntry(e) /\ Consistent(e))

\* Entries that open are consistent, and those we wrote open.
Sound(m, by) ==
  \A k \in Key :
    \/ Sealable(m[k])
    \/ by = "others" /\ ~ ValidEntry(m[k])

\* The file is what the owner wrote, but for the fields an accident changed;
\* no accident makes a tag or a blob.
Written(m, original) ==
  /\ truth = Held(m) /\ Sound(m, owner.by)
  /\ harm = 0 => file = original
  /\ file.entries \in HarmTo.entries \cup {original.entries}
  /\ file.mac \in HarmTo.mac \cup {original.mac}

WrapperInv ==
  /\ file.root # "missing" /\ file.legacy = NoLegacy
  /\ owner.by \in {"us", "others"} /\ CanSeal(owner.pass, owner.ctx)
  /\ \E m \in Payload, salt \in Salt :
       Written(m, StoreWrapperBytes(m, owner.pass, owner.ctx, salt))

IInv ==
  /\ TypeOK
  /\ owner = Nobody => LegacyInv
  /\ owner # Nobody => WrapperInv

(* What opens.                                                             *)

\* Blobs and tags are no odd values.
LEMMA SealsAreNotOdd ==
  /\ \A v \in Blob \cup Tag \cup Payload \cup AnyEntry \cup AnyLegacy : v \notin Odd
  /\ \A v \in Salt \cup Nat \cup Passphrase \cup Ctx : v \notin Odd
  /\ NoEntry \in Odd /\ NotDict \in Odd /\ Absent \in Odd /\ NoCtx \in Odd /\ NoPass \in Odd
  /\ HarmTo.entries \subseteq Odd /\ HarmTo.mac \subseteq Odd
BY OddAssumption DEF Odd, HarmTo

\* The fields of the wrapper.
HasFields(f, m, pass, ctx, salt) ==
  /\ f \in File /\ Loaded(f) = m
  /\ f.root = "dict" /\ f.version = "2" /\ f.legacy = NoLegacy
  /\ pass = NoPass => /\ f.protection = "DPAPI_USER" /\ ctx \in Ctx
                      /\ f.entries = [ctx |-> ctx, payload |-> m]
                      /\ f.mac = Absent /\ f.kdf = Absent
  /\ pass # NoPass => /\ f.protection = "HMAC_PASSPHRASE" /\ pass \in Passphrase
                      /\ f.payload = m /\ f.kdf = Kdf(salt) /\ f.kdf \in AnyKdf
                      /\ f.mac = Mac(pass, Kdf(salt), m) /\ f.mac \in Tag
                      /\ f.entries = Absent

LEMMA Fields ==
  ASSUME NEW m \in Payload, NEW pass \in Pass, NEW ctx \in Context, NEW salt \in Salt,
         CanSeal(pass, ctx)
  PROVE  HasFields(StoreWrapperBytes(m, pass, ctx, salt), m, pass, ctx, salt)
<1>1. CASE pass = NoPass
  <2>1. ctx \in Ctx /\ [ctx |-> ctx, payload |-> m] \in Blob
    BY <1>1 DEF CanSeal, Context, Blob
  <2> QED
    BY <1>1, <2>1 DEF StoreWrapperBytes, Missing, Loaded, File, HarmTo, NoLegacy, HasFields
<1>2. CASE pass # NoPass
  <2>1. pass \in Passphrase /\ Kdf(salt) \in AnyKdf
    BY <1>2, IterationsAssumption DEF Pass, Kdf, AnyKdf
  <2>2. Mac(pass, Kdf(salt), m) \in Tag
    BY <2>1 DEF Mac, Tag
  <2> QED
    BY <1>2, <2>1, <2>2 DEF StoreWrapperBytes, Missing, Loaded, File, HarmTo, NoLegacy, HasFields
<1> QED
  BY <1>1, <1>2

\* A payload opens when every entry is valid.
LEMMA Payloads ==
  ASSUME NEW payload \in Payload \cup {Absent, NotString, NotBase64, NotJson, NotDict},
         payload \notin {Absent, NotString, NotBase64}, PayloadReason(payload) = "OK"
  PROVE  payload \in Payload /\ \A k \in Key : payload[k] = NoEntry \/ ValidEntry(payload[k])
BY DEF PayloadReason

\* What _load_store opens is what was written, and valid.
LEMMA OpenedIsWritten ==
  ASSUME IInv, NEW pass \in Pass, NEW ctx \in Context, LoadReason(file, pass, ctx) = "OK"
  PROVE  /\ owner # Nobody /\ Held(Loaded(file)) = truth
         /\ Loaded(file) \in Payload
         /\ \A k \in Key : Sealable(Loaded(file)[k])
<1>1. file.root = "dict" /\ file.version = "2" /\ file.protection \in {"DPAPI_USER", "HMAC_PASSPHRASE"}
  BY DEF LoadReason, IInv, TypeOK, File, HarmTo
<1>2. owner # Nobody
  BY <1>1 DEF IInv, LegacyInv
<1>3. PICK m \in Payload, salt \in Salt :
        Written(m, StoreWrapperBytes(m, owner.pass, owner.ctx, salt))
  BY <1>2 DEF IInv, WrapperInv
<1> DEFINE original == StoreWrapperBytes(m, owner.pass, owner.ctx, salt)
<1>4. owner.pass \in Pass /\ owner.ctx \in Context /\ CanSeal(owner.pass, owner.ctx)
  BY <1>2 DEF IInv, TypeOK, WrapperInv
<1>5. Written(m, original)
  BY <1>3
<1>6. /\ original.entries # Absent => original.entries.payload = m
      /\ original.mac # Absent => original.mac.payload = m
  <2>1. HasFields(original, m, owner.pass, owner.ctx, salt)
    BY <1>4, Fields
  <2> HIDE DEF original
  <2> QED
    BY <2>1 DEF HasFields, Mac
<1> HIDE DEF original
<1>7. Loaded(file) = m /\ PayloadReason(m) = "OK"
  <2>1. CASE file.protection = "DPAPI_USER"
    <3>1. DpapiReason(file, ctx) = "OK"
      BY <1>1, <2>1 DEF LoadReason
    <3>2. file.entries \notin HarmTo.entries /\ PayloadReason(file.entries.payload) = "OK"
      BY <3>1 DEF DpapiReason, HarmTo
    <3>3. file.entries = original.entries
      BY <1>5, <3>2 DEF Written
    <3>4. original.entries # Absent
      BY <3>2, <3>3 DEF HarmTo
    <3>5. file.entries.payload = m
      BY <1>6, <3>3, <3>4
    <3> QED
      BY <2>1, <3>2, <3>5 DEF Loaded
  <2>2. CASE file.protection = "HMAC_PASSPHRASE"
    <3>1. HmacReason(file, pass) = "OK"
      BY <1>1, <2>2 DEF LoadReason
    <3>2. /\ file.kdf \notin {Absent, NotDict} /\ file.payload \notin {Absent, NotString, NotBase64}
          /\ file.mac = Mac(pass, file.kdf, file.payload) /\ pass # NoPass
          /\ PayloadReason(file.payload) = "OK"
      BY <3>1 DEF HmacReason, KdfReason
    <3>3. file.payload \in Payload /\ file.kdf \in AnyKdf
      BY <3>2, Payloads DEF IInv, TypeOK, File, HarmTo
    <3>4. file.mac \in Tag /\ file.mac.payload = file.payload
      BY <3>2, <3>3 DEF Mac, Tag, Pass
    <3>5. file.mac = original.mac /\ original.mac # Absent
      BY <1>5, <3>4, SealsAreNotOdd DEF Written
    <3>6. original.mac.payload = m
      BY <1>6, <3>5
    <3> QED
      BY <2>2, <3>2, <3>4, <3>5, <3>6 DEF Loaded
  <2> QED
    BY <1>1, <2>1, <2>2
<1>8. \A k \in Key : m[k] = NoEntry \/ ValidEntry(m[k])
  BY <1>7, Payloads, SealsAreNotOdd DEF Odd
<1> QED
  BY <1>2, <1>3, <1>7, <1>8 DEF Written, Sound, Sealable

\* What a registration takes over of a v1 store.
LEMMA MigratedMaps ==
  ASSUME NEW legacy \in [V1Key -> AnyLegacy \cup {NoEntry, NotDict}],
         NEW m \in MigrateLegacyEntries(legacy), NEW k \in Key
  PROVE  \/ /\ m[k] = NoEntry
            /\ \A j \in V1Key : Upper[j] = k => ~ Migrates(legacy[j])
         \/ \E j \in V1Key :
              /\ Upper[j] = k /\ Migrates(legacy[j]) /\ m[k] = MigrateEntry(legacy[j])
              /\ legacy[j] \in AnyLegacy
              /\ m[k] \in AnyEntry /\ m[k] # NoEntry /\ Sealable(m[k])
<1>1. CASE Candidates(legacy, k) = {}
  BY <1>1 DEF MigrateLegacyEntries, Candidates
<1>2. CASE Candidates(legacy, k) # {}
  <2>1. PICK j \in V1Key : Upper[j] = k /\ Migrates(legacy[j]) /\ m[k] = MigrateEntry(legacy[j])
    BY <1>2 DEF MigrateLegacyEntries, Candidates
  <2> QED
    BY <2>1, MigratedEntries DEF Sealable
<1> QED
  BY <1>1, <1>2

\* What a registration starts from can be written and opened again.
LEMMA Inherited ==
  ASSUME IInv, NEW pass \in Pass, NEW ctx \in Context,
         NEW m \in LoadStoreForRegister(file, pass, ctx)
  PROVE  /\ m \in Payload
         /\ \A k \in Key : Sealable(m[k])
         /\ \/ m = NoEntries /\ file.root = "missing"
            \/ m = Loaded(file) /\ LoadReason(file, pass, ctx) = "OK"
            \/ m \in MigrateLegacyEntries(file.legacy) /\ file.version = "absent"
<1>1. \/ m = NoEntries /\ file.root = "missing"
      \/ m = Loaded(file) /\ LoadReason(file, pass, ctx) = "OK"
      \/ m \in MigrateLegacyEntries(file.legacy) /\ file.version = "absent"
  <2>1. CASE LoadReason(file, pass, ctx) = "MISSING"
    <3>1. file.root = "missing"
      BY <2>1 DEF LoadReason, DpapiReason, HmacReason, KdfReason, PayloadReason, IInv, TypeOK, File, HarmTo
    <3> QED
      BY <2>1, <3>1 DEF LoadStoreForRegister
  <2> QED
    BY <2>1 DEF LoadStoreForRegister
<1>2. CASE m = NoEntries
  BY <1>1, <1>2 DEF NoEntries, Payload, Sealable
<1>3. CASE m = Loaded(file) /\ LoadReason(file, pass, ctx) = "OK"
  BY <1>1, <1>3, OpenedIsWritten
<1>4. CASE m \in MigrateLegacyEntries(file.legacy)
  <2>1. file.legacy \in [V1Key -> AnyLegacy \cup {NoEntry, NotDict}]
    BY DEF IInv, TypeOK, File
  <2>2. \A k \in Key : m[k] \in AnyEntry \cup {NoEntry} /\ Sealable(m[k])
    BY <1>4, <2>1, MigratedMaps DEF Sealable
  <2>3. m = [k \in Key |-> m[k]]
    BY <1>4 DEF MigrateLegacyEntries
  <2> QED
    BY <1>1, <2>2, <2>3 DEF Payload
<1> QED
  BY <1>1, <1>2, <1>3, <1>4

-----------------------------------------------------------------------------
(* The invariant is inductive.                                             *)

\* A v1 store as it was written, and a file that is not there.
LEMMA LegacyFiles ==
  ASSUME NEW w \in [V1Key -> LegacyEntry \cup {NoEntry}]
  PROVE  /\ w \in [V1Key -> AnyLegacy \cup {NoEntry, NotDict}]
         /\ V1(w) \in File /\ V1(w).version = "absent" /\ V1(w).root = "dict" /\ V1(w).legacy = w
         /\ Missing \in File /\ Missing.version = "absent" /\ Missing.root = "missing"
         /\ Missing.legacy = NoLegacy
         /\ NoLegacy \in [V1Key -> LegacyEntry \cup {NoEntry}] /\ HeldV1(NoLegacy) = Held(NoEntries)
<1>1. LegacyEntry \subseteq AnyLegacy
  <2> SUFFICES ASSUME NEW i \in Observed
               PROVE  [uid |-> i.uid, bid |-> i.bid, fp |-> FingerprintOf(i.uid, i.bid)] \in AnyLegacy
    BY DEF LegacyEntry
  <2>1. i.uid \in Text /\ i.bid \in Text \cup {NoId}
    BY ObservedAssumption, IdAssumption
  <2> QED
    BY <2>1, FingerprintsAreStrings DEF AnyLegacy
<1>2. w \in [V1Key -> AnyLegacy \cup {NoEntry, NotDict}]
  BY <1>1
<1>3. NoLegacy \in [V1Key -> LegacyEntry \cup {NoEntry}]
  BY DEF NoLegacy
<1>4. HeldV1(NoLegacy) = Held(NoEntries)
  BY DEF HeldV1, Held, NoLegacy, NoEntries
<1>5. Missing \in File /\ Missing.version = "absent" /\ Missing.root = "missing" /\ Missing.legacy = NoLegacy
  BY <1>1, <1>3 DEF Missing, File, HarmTo
<1>6. V1(w) \in File /\ V1(w).version = "absent" /\ V1(w).root = "dict" /\ V1(w).legacy = w
  BY <1>2, <1>5 DEF V1, Missing, File, HarmTo
<1> QED
  BY <1>2, <1>3, <1>4, <1>5, <1>6

\* What the migration looks at was found by a registration.
LEMMA ObservedEntries ==
  ASSUME NEW i \in Observed
  PROVE  MakeEntry(i) \in AnyEntry /\ Sealable(MakeEntry(i)) /\ IdentityOf(MakeEntry(i)) = i
<1>1. i \in [uid : Text, bid : Text \cup {NoId}]
  BY ObservedAssumption, IdAssumption
<1> QED
  BY <1>1, MadeEntries DEF Sealable

LEMMA OwnersDiffer ==
  ASSUME NEW pass, NEW ctx
  PROVE  Us(pass, ctx) # Nobody /\ Others(pass, ctx) # Nobody
BY DEF Us, Others, Nobody

LEMMA InitInv == Init => IInv
<1> SUFFICES ASSUME Init PROVE IInv
  OBVIOUS
<1>1. ASSUME NEW w \in [V1Key -> LegacyEntry \cup {NoEntry}],
             \/ file = V1(w)
             \/ w = NoLegacy /\ file = Missing,
             truth = HeldV1(w), owner = Nobody
      PROVE  IInv
  <2>1. file \in File /\ file.version = "absent" /\ file.root \in {"missing", "dict"} /\ file.legacy = w
        /\ (file.root = "missing" => w = NoLegacy)
    BY <1>1, LegacyFiles
  <2>2. harm = 0 /\ owner \in [by : {"nobody", "us", "others"}, pass : Pass, ctx : Context]
    BY <1>1 DEF Init, Nobody, Pass, Context
  <2>3. LegacyInv
    BY <1>1, <2>1, <2>2 DEF LegacyInv
  <2> QED
    BY <1>1, <2>1, <2>2, <2>3 DEF IInv, TypeOK
<1>2. ASSUME NEW pass \in Pass, NEW ctx \in Context, NEW salt \in Salt,
             NEW m \in [Key -> {MakeEntry(i) : i \in Observed} \cup Strange \cup {NoEntry}],
             CanSeal(pass, ctx), file = StoreWrapperBytes(m, pass, ctx, salt),
             truth = Held(m), owner = Others(pass, ctx)
      PROVE  IInv
  <2>1. m \in Payload /\ Sound(m, "others")
    BY ObservedEntries, StrangeAssumption DEF Payload, Sound, Sealable
  <2>2. HasFields(file, m, pass, ctx, salt)
    BY <1>2, <2>1, Fields
  <2>3. owner.by = "others" /\ owner.pass = pass /\ owner.ctx = ctx /\ owner # Nobody
        /\ owner \in [by : {"nobody", "us", "others"}, pass : Pass, ctx : Context]
    BY <1>2, OwnersDiffer DEF Others
  <2>4. Written(m, StoreWrapperBytes(m, owner.pass, owner.ctx, salt))
    BY <1>2, <2>1, <2>3 DEF Written
  <2>5. WrapperInv
    BY <1>2, <2>1, <2>2, <2>3, <2>4 DEF WrapperInv, HasFields
  <2> QED
    BY <2>2, <2>3, <2>5 DEF IInv, TypeOK, HasFields, Init
<1>3. NoLegacy \in [V1Key -> LegacyEntry \cup {NoEntry}] /\ HeldV1(NoLegacy) = Held(NoEntries)
  <2>1. NoLegacy \in [V1Key -> LegacyEntry \cup {NoEntry}]
    BY DEF NoLegacy
  <2> QED
    BY <2>1, LegacyFiles
<1>4. CASE file = Missing /\ truth = Held(NoEntries) /\ owner = Nobody
  BY <1>1, <1>3, <1>4
<1>5. CASE /\ \E w \in [V1Key -> LegacyEntry \cup {NoEntry}] : file = V1(w) /\ truth = HeldV1(w)
           /\ owner = Nobody
  BY <1>1, <1>5
<1> QED
  BY <1>2, <1>4, <1>5 DEF Init, Pass, Context

LEMMA RegisterInv ==
  ASSUME IInv, NEW k \in Key, NEW i \in Observed, NEW pass \in Pass, NEW ctx \in Context,
         Register(k, i, pass, ctx)
  PROVE  IInv'
<1>1. PICK m \in LoadStoreForRegister(file, pass, ctx), salt \in Salt :
        /\ file' = StoreWrapperBytes([m EXCEPT ![k] = MakeEntry(i)], pass, ctx, salt)
        /\ truth' = Held([m EXCEPT ![k] = MakeEntry(i)])
  BY DEF Register
<1> DEFINE n == [m EXCEPT ![k] = MakeEntry(i)]
<1>2. m \in Payload /\ \A j \in Key : Sealable(m[j])
  BY Inherited
<1>3. n \in Payload /\ Sound(n, "us")
  BY <1>2, ObservedEntries DEF Payload, Sound
<1> HIDE DEF n
<1>4. CanSeal(pass, ctx) /\ HasFields(file', n, pass, ctx, salt)
  BY <1>1, <1>3, Fields DEF Register, n
<1>5. owner'.by = "us" /\ owner'.pass = pass /\ owner'.ctx = ctx /\ owner' # Nobody /\ harm' = 0
      /\ owner' \in [by : {"nobody", "us", "others"}, pass : Pass, ctx : Context]
  BY OwnersDiffer DEF Register, Us
<1>6. Written(n, StoreWrapperBytes(n, owner.pass, owner.ctx, salt))'
  BY <1>1, <1>3, <1>5 DEF Written, n
<1>7. WrapperInv'
  BY <1>3, <1>4, <1>5, <1>6 DEF WrapperInv, HasFields
<1> QED
  BY <1>4, <1>5, <1>7 DEF IInv, TypeOK, HasFields

\* What an accident in the wrapper f leaves of it.
Harmed(f, g) ==
  /\ g \in File /\ g.root # "missing" /\ g.legacy = f.legacy
  /\ g.entries \in HarmTo.entries \cup {f.entries}
  /\ g.mac \in HarmTo.mac \cup {f.mac}

LEMMA WrapperChangesInv ==
  ASSUME IInv, WrapperChanges
  PROVE  IInv'
<1>1. /\ file \in File /\ harm \in Nat /\ harm' = harm + 1 /\ UNCHANGED <<truth, owner>>
      /\ owner # Nobody /\ file.root = "dict"
  BY DEF IInv, TypeOK, WrapperChanges, Accident
<1>2. Harmed(file, file')
  <2>1. ASSUME NEW field \in DOMAIN HarmTo, NEW v \in HarmTo[field],
               file' = [file EXCEPT ![field] = v]
        PROVE  Harmed(file, file')
    <3>1. field \in {"root", "version", "protection", "entries", "payload", "mac", "kdf"}
      BY DEF HarmTo
    <3>2. [Key -> {MakeEntry(i) : i \in Observed} \cup {NoEntry}] \subseteq Payload
      BY ObservedEntries DEF Payload
    <3>3. CASE field = "root"
      BY <1>1, <2>1, <3>2, <3>3 DEF HarmTo, File, Harmed
    <3>4. CASE field = "version"
      BY <1>1, <2>1, <3>2, <3>4 DEF HarmTo, File, Harmed
    <3>5. CASE field = "protection"
      BY <1>1, <2>1, <3>2, <3>5 DEF HarmTo, File, Harmed
    <3>6. CASE field = "entries"
      BY <1>1, <2>1, <3>2, <3>6 DEF HarmTo, File, Harmed
    <3>7. CASE field = "payload"
      BY <1>1, <2>1, <3>2, <3>7 DEF HarmTo, File, Harmed
    <3>8. CASE field = "mac"
      BY <1>1, <2>1, <3>2, <3>8 DEF HarmTo, File, Harmed
    <3>9. CASE field = "kdf"
      BY <1>1, <2>1, <3>2, <3>9 DEF HarmTo, File, Harmed
    <3> QED
      BY <3>1, <3>3, <3>4, <3>5, <3>6, <3>7, <3>8, <3>9
  <2>2. ASSUME NEW field \in DOMAIN KdfHarmTo, NEW v \in KdfHarmTo[field],
               file.kdf \notin {Absent, NotDict}, file' = [file EXCEPT !.kdf[field] = v]
        PROVE  Harmed(file, file')
    <3>1. field \in {"salt", "iterations"}
      BY DEF KdfHarmTo
    <3>2. v \in Odd \cup Nat /\ (field = "salt" => v \in Odd)
      BY <2>2, <3>1, IterationsAssumption DEF KdfHarmTo, Odd
    <3>3. [file.kdf EXCEPT ![field] = v] \in AnyKdf
      BY <1>1, <2>2, <3>1, <3>2 DEF File, HarmTo, AnyKdf
    <3> QED
      BY <1>1, <2>2, <3>3 DEF File, HarmTo, Harmed
  <2> QED
    BY <2>1, <2>2, Zenon DEF WrapperChanges
<1>3. PICK m \in Payload, salt \in Salt :
        Written(m, StoreWrapperBytes(m, owner.pass, owner.ctx, salt))
  BY <1>1 DEF IInv, WrapperInv
<1>4. Written(m, StoreWrapperBytes(m, owner.pass, owner.ctx, salt))'
  BY <1>1, <1>2, <1>3 DEF Written, Harmed
<1>5. WrapperInv'
  BY <1>1, <1>2, <1>4 DEF IInv, WrapperInv, Harmed
<1> QED
  BY <1>1, <1>2, <1>5 DEF IInv, TypeOK, Harmed

LEMMA LegacyChangesInv ==
  ASSUME IInv, LegacyChanges
  PROVE  IInv'
<1>1. /\ file \in File /\ harm \in Nat /\ harm' = harm + 1 /\ UNCHANGED <<truth, owner>>
      /\ owner = Nobody /\ file.root = "dict" /\ LegacyInv
  BY DEF IInv, TypeOK, LegacyChanges, Accident
<1>2. PICK j \in V1Key :
       /\ file.legacy[j] \notin {NoEntry, NotDict}
       /\ \/ file' = [file EXCEPT !.legacy[j] = NotDict]
          \/ \E v \in Id \cup {<<>>, NotString} : file' = [file EXCEPT !.legacy[j].uid = v]
          \/ \E v \in Id \cup {<<>>, NoId, NotString} : file' = [file EXCEPT !.legacy[j].bid = v]
          \/ \E v \in {FingerprintOf(u, b) : u \in Id, b \in Id \cup {NoId}} \cup {NotString} :
               file' = [file EXCEPT !.legacy[j].fp = v]
  BY DEF LegacyChanges
<1> DEFINE l == file.legacy
<1>3. /\ l \in [V1Key -> AnyLegacy \cup {NoEntry, NotDict}] /\ l[j] \in AnyLegacy
  BY <1>1, <1>2 DEF File
<1>4. PICK v \in AnyLegacy \cup {NotDict} : OneAway(v, l[j]) /\ file' = [file EXCEPT !.legacy[j] = v]
  <2>1. l[j] # NoEntry
    BY <1>2
  <2>2. CASE file' = [file EXCEPT !.legacy[j] = NotDict]
    BY <2>1, <2>2 DEF OneAway
  <2>3. ASSUME NEW v \in Id \cup {<<>>, NotString}, file' = [file EXCEPT !.legacy[j].uid = v]
        PROVE  OneAway([l[j] EXCEPT !.uid = v], l[j]) /\ [l[j] EXCEPT !.uid = v] \in AnyLegacy
    <3>1. v \in Text \cup {NotString}
      BY IdAssumption, EmptySeq DEF Text
    <3> QED
      BY <1>3, <2>1, <3>1 DEF OneAway, AnyLegacy
  <2>4. ASSUME NEW v \in Id \cup {<<>>, NoId, NotString}, file' = [file EXCEPT !.legacy[j].bid = v]
        PROVE  OneAway([l[j] EXCEPT !.bid = v], l[j]) /\ [l[j] EXCEPT !.bid = v] \in AnyLegacy
    <3>1. v \in Text \cup {NoId, NotString}
      BY IdAssumption, EmptySeq DEF Text
    <3> QED
      BY <1>3, <2>1, <3>1 DEF OneAway, AnyLegacy
  <2>5. ASSUME NEW v \in {FingerprintOf(u, b) : u \in Id, b \in Id \cup {NoId}} \cup {NotString},
               file' = [file EXCEPT !.legacy[j].fp = v]
        PROVE  OneAway([l[j] EXCEPT !.fp = v], l[j]) /\ [l[j] EXCEPT !.fp = v] \in AnyLegacy
    <3>1. v \in Text \cup {NotString}
      BY IdAssumption, FingerprintsAreStrings
    <3> QED
      BY <1>3, <2>1, <3>1 DEF OneAway, AnyLegacy
  <2> QED
    BY <1>2, <2>2, <2>3, <2>4, <2>5
<1>5. /\ file' \in File /\ file'.version = file.version /\ file'.root = "dict"
      /\ file'.legacy = [l EXCEPT ![j] = v]
  BY <1>1, <1>3, <1>4 DEF File
<1>6. PICK w \in [V1Key -> LegacyEntry \cup {NoEntry}] : truth = HeldV1(w) /\ (harm = 0 => l = w)
  BY <1>1 DEF LegacyInv
<1>7. harm' = 1 => \A i \in V1Key : OneAway(file'.legacy[i], w[i])
  <2> SUFFICES ASSUME harm' = 1, NEW i \in V1Key PROVE OneAway(file'.legacy[i], w[i])
    OBVIOUS
  <2>1. l = w
    BY <1>1, <1>6
  <2>2. CASE i = j
    BY <1>3, <1>4, <1>5, <2>1, <2>2
  <2>3. CASE i # j
    BY <1>3, <1>5, <2>1, <2>3 DEF OneAway
  <2> QED
    BY <2>2, <2>3
<1>8. LegacyInv'
  BY <1>1, <1>5, <1>6, <1>7 DEF LegacyInv
<1> QED
  BY <1>1, <1>5, <1>8 DEF IInv, TypeOK

LEMMA DeleteInv ==
  ASSUME IInv, Delete
  PROVE  IInv'
<1>1. NoLegacy \in [V1Key -> LegacyEntry \cup {NoEntry}]
  BY DEF NoLegacy
<1>2. file' \in File /\ file'.version = "absent" /\ file'.root = "missing" /\ file'.legacy = NoLegacy
      /\ truth' = HeldV1(NoLegacy)
  BY <1>1, LegacyFiles DEF Delete
<1>3. harm' = 0 /\ owner' = Nobody
      /\ owner' \in [by : {"nobody", "us", "others"}, pass : Pass, ctx : Context]
  BY DEF Delete, Nobody, Pass, Context
<1>4. LegacyInv'
  BY <1>1, <1>2, <1>3 DEF LegacyInv
<1> QED
  BY <1>2, <1>3, <1>4 DEF IInv, TypeOK

LEMMA NextInv == IInv /\ [Next]_vars => IInv'
<1> SUFFICES ASSUME IInv, [Next]_vars PROVE IInv'
  OBVIOUS
<1>1. ASSUME NEW k \in Key, NEW i \in Observed, NEW pass \in Pass, NEW ctx \in Context,
             Register(k, i, pass, ctx)
      PROVE  IInv'
  BY <1>1, RegisterInv
<1>2. CASE UNCHANGED vars
  BY <1>2 DEF vars, IInv, TypeOK, LegacyInv, WrapperInv, Written
<1> QED
  BY <1>1, <1>2, WrapperChangesInv, LegacyChangesInv, DeleteInv DEF Next, Pass, Context

THEOREM InvariantHolds == Spec => []IInv
BY InitInv, NextInv, PTL DEF Spec

-----------------------------------------------------------------------------
(* What follows in every state.                                            *)

\* Every field of the store keeps to what it may hold or an accident leaves.
THEOREM TypeCorrect == Spec => []TypeOK
BY InvariantHolds, PTL DEF IInv

\* Whatever accidents have done to a store, what opens is what was written.
THEOREM OnlyWrittenOpens == Spec => []OnlyWrittenIdentitiesOpen
<1>1. IInv => OnlyWrittenIdentitiesOpen
  BY OpenedIsWritten DEF OnlyWrittenIdentitiesOpen
<1> QED
  BY <1>1, InvariantHolds, PTL

\* The payload m of a file as it was written: what its key and tag say of it.
LEMMA UntouchedFiles ==
  ASSUME IInv, owner # Nobody, harm = 0
  PROVE  /\ \E m \in Payload, salt \in Salt :
              HasFields(file, m, owner.pass, owner.ctx, salt) /\ Sound(m, owner.by)
         /\ owner.pass \in Pass /\ owner.ctx \in Context /\ CanSeal(owner.pass, owner.ctx)
<1>1. owner.pass \in Pass /\ owner.ctx \in Context /\ CanSeal(owner.pass, owner.ctx)
  BY DEF IInv, TypeOK, WrapperInv
<1>2. PICK m \in Payload, salt \in Salt :
        Written(m, StoreWrapperBytes(m, owner.pass, owner.ctx, salt))
  BY DEF IInv, WrapperInv
<1>3. file = StoreWrapperBytes(m, owner.pass, owner.ctx, salt) /\ Sound(m, owner.by)
  BY <1>2 DEF Written
<1> QED
  BY <1>1, <1>3, Fields

\* The fields an HMAC store was written with pass every look before the tag's.
LEMMA WrittenKdf ==
  ASSUME NEW f, NEW m \in Payload, NEW pass \in Pass, NEW ctx \in Context, NEW salt \in Salt,
         HasFields(f, m, pass, ctx, salt), pass # NoPass
  PROVE  /\ f.kdf \notin {Absent, NotDict}
         /\ {f.payload, f.mac} \cap {Absent, NotString} = {}
         /\ KdfReason(f) = "OK"
<1>1. f.kdf = Kdf(salt) /\ f.kdf \in AnyKdf /\ f.mac \in Tag /\ f.payload \in Payload
  BY DEF HasFields
<1>2. /\ f.kdf \notin {Absent, NotDict}
      /\ {f.payload, f.mac} \cap {Absent, NotString, NotBase64} = {}
  BY <1>1, OddAssumption DEF Odd
<1>3. f.kdf.salt = salt /\ f.kdf.iterations = Iterations
  BY <1>1 DEF Kdf
<1>4. /\ salt \notin {NotString, Absent, NotBase64}
      /\ Iterations \notin {NotNumber, Absent, NotNumeral, 0}
  BY OddAssumption, IterationsAssumption DEF Odd
<1> QED
  BY <1>2, <1>3, <1>4 DEF KdfReason

\* What a registration writes opens again, and can be verified.
THEOREM NobodyLockedOut == Spec => []NeverLockedOut
<1>1. IInv => NeverLockedOut
  <2> SUFFICES ASSUME IInv, owner.by = "us", harm = 0
               PROVE  /\ LoadReason(file, owner.pass, owner.ctx) = "OK"
                      /\ \A k \in Key : Consistent(Loaded(file)[k])
    BY DEF NeverLockedOut
  <2>1. owner # Nobody
    BY DEF Nobody
  <2>2. PICK m \in Payload, salt \in Salt :
          HasFields(file, m, owner.pass, owner.ctx, salt) /\ Sound(m, owner.by)
    BY <2>1, UntouchedFiles
  <2>3. \A k \in Key : Sealable(m[k])
    BY <2>2 DEF Sound
  <2>4. m \notin Odd
    BY SealsAreNotOdd
  <2>5. PayloadReason(m) = "OK" /\ \A k \in Key : Consistent(m[k])
    BY <2>3, <2>4 DEF PayloadReason, Sealable, Odd, Consistent
  <2>6. CASE owner.pass = NoPass
    <3>1. file.entries = [ctx |-> owner.ctx, payload |-> m] /\ owner.ctx \in Ctx
          /\ file.root = "dict" /\ file.version = "2" /\ file.protection = "DPAPI_USER"
      BY <2>2, <2>6 DEF HasFields
    <3>2. file.entries \in Blob /\ file.entries.ctx = owner.ctx /\ file.entries.payload = m
      BY <3>1 DEF Blob
    <3>3. file.entries \notin Odd /\ owner.ctx # NoCtx
      BY <3>1, <3>2, SealsAreNotOdd
    <3>4. DpapiReason(file, owner.ctx) = "OK"
      BY <2>5, <3>2, <3>3 DEF DpapiReason, Odd
    <3> QED
      BY <2>2, <2>5, <3>1, <3>4 DEF LoadReason, HasFields
  <2>7. CASE owner.pass # NoPass
    <3>1. owner.pass \in Pass /\ owner.ctx \in Context
      BY DEF IInv, TypeOK
    <3>2. file.root = "dict" /\ file.version = "2" /\ file.protection = "HMAC_PASSPHRASE"
          /\ file.payload = m /\ file.mac = Mac(owner.pass, file.kdf, m)
      BY <2>2, <2>7 DEF HasFields
    <3>3. HmacReason(file, owner.pass) = "OK"
      BY <2>2, <2>5, <2>7, <3>1, <3>2, WrittenKdf DEF HmacReason
    <3> QED
      BY <2>2, <2>5, <3>2, <3>3 DEF LoadReason, HasFields
  <2> QED
    BY <2>6, <2>7
<1> QED
  BY <1>1, InvariantHolds, PTL

\* An exception without a reason code takes an accident in "kdf".
THEOREM OnlyTheKdfRaises == Spec => []OnlyKdfRaises
<1>1. IInv => OnlyKdfRaises
  <2> SUFFICES ASSUME IInv, NEW pass \in Pass, NEW ctx \in Context,
                      LoadReason(file, pass, ctx) = "RAISED"
               PROVE  harm > 0 /\ file.kdf \notin {Kdf(salt) : salt \in Salt}
    BY DEF OnlyKdfRaises
  <2>1. /\ file.root = "dict" /\ file.version = "2" /\ file.protection = "HMAC_PASSPHRASE"
        /\ HmacReason(file, pass) = "RAISED"
    <3>1. file.root \in {"missing", "dict", "not JSON", "not an object"}
      BY DEF IInv, TypeOK, File, HarmTo
    <3>2. DpapiReason(file, ctx) # "RAISED"
      BY DEF DpapiReason, PayloadReason
    <3> QED
      BY <3>1, <3>2 DEF LoadReason
  <2>2. KdfReason(file) = "RAISED" /\ file.kdf \notin {Absent, NotDict}
    BY <2>1 DEF HmacReason, PayloadReason
  <2>3. ASSUME NEW salt \in Salt, file.kdf = Kdf(salt)
        PROVE  FALSE
    <3>1. file.kdf.salt = salt /\ file.kdf.iterations = Iterations
      BY <2>3 DEF Kdf
    <3>2. /\ salt \notin {NotString, Absent, NotBase64}
          /\ Iterations \notin {NotNumber, Absent, NotNumeral, 0}
      BY OddAssumption, IterationsAssumption DEF Odd
    <3> QED
      BY <2>2, <3>1, <3>2 DEF KdfReason
  <2>4. CASE harm = 0
    <3>1. owner # Nobody
      BY <2>1 DEF IInv, LegacyInv
    <3>2. PICK m \in Payload, salt \in Salt : HasFields(file, m, owner.pass, owner.ctx, salt)
      BY <2>4, <3>1, UntouchedFiles
    <3> QED
      BY <2>2, <2>3, <3>2 DEF HasFields
  <2> QED
    BY <2>3, <2>4 DEF IInv, TypeOK
<1> QED
  BY <1>1, InvariantHolds, PTL

\* The files of IdentityStore.tla are those of this module.
THEOREM FormatsAgree == Spec => []AgreesWithStoreFormat
<1>1. IInv => AgreesWithStoreFormat
  <2> SUFFICES ASSUME IInv, owner # Nobody, harm = 0, PayloadReason(Loaded(file)) = "OK",
                      NEW pass \in Pass, NEW ctx \in Context
               PROVE  LoadReason(file, pass, ctx) =
                        Format!LoadReason(Format!Seal(Loaded(file), owner.pass, owner.ctx), pass, ctx)
    BY DEF AgreesWithStoreFormat
  <2>1. PICK m \in Payload, salt \in Salt : HasFields(file, m, owner.pass, owner.ctx, salt)
    BY UntouchedFiles
  <2>2. PayloadReason(m) = "OK" /\ m \notin Odd
    BY <2>1, SealsAreNotOdd DEF HasFields
  <2>3. CASE owner.pass = NoPass
    <3>1. file.entries = [ctx |-> owner.ctx, payload |-> m] /\ owner.ctx \in Ctx
          /\ file.root = "dict" /\ file.version = "2" /\ file.protection = "DPAPI_USER"
      BY <2>1, <2>3 DEF HasFields
    <3>2. file.entries \in Blob /\ file.entries.ctx = owner.ctx /\ file.entries.payload = m
      BY <3>1 DEF Blob
    <3>3. file.entries \notin Odd /\ owner.ctx # NoCtx
      BY <3>1, <3>2, SealsAreNotOdd
    <3>4. DpapiReason(file, ctx) = IF owner.ctx = ctx THEN "OK" ELSE "STORE_CORRUPTED"
      BY <2>2, <3>2, <3>3 DEF DpapiReason, Odd
    <3>5. LoadReason(file, pass, ctx) = IF owner.ctx = ctx THEN "OK" ELSE "STORE_CORRUPTED"
      BY <3>1, <3>4 DEF LoadReason
    <3> QED
      BY <2>3, <3>5 DEF Format!LoadReason, Format!Seal
  <2>4. CASE owner.pass # NoPass
    <3>1. owner.pass \in Pass /\ owner.ctx \in Context
      BY DEF IInv, TypeOK
    <3>2. file.root = "dict" /\ file.version = "2" /\ file.protection = "HMAC_PASSPHRASE"
          /\ file.payload = m /\ file.mac = Mac(owner.pass, file.kdf, m)
      BY <2>1, <2>4 DEF HasFields
    <3>3. (file.mac = Mac(pass, file.kdf, file.payload)) <=> owner.pass = pass
      BY <3>2 DEF Mac
    <3>4. HmacReason(file, pass) = IF pass = NoPass THEN "STORE_PASSPHRASE_REQUIRED"
                                   ELSE IF owner.pass = pass THEN "OK" ELSE "STORE_MAC_MISMATCH"
      BY <2>1, <2>2, <2>4, <3>1, <3>2, <3>3, WrittenKdf DEF HmacReason
    <3>5. LoadReason(file, pass, ctx) = HmacReason(file, pass)
      BY <3>2 DEF LoadReason
    <3> QED
      BY <2>4, <3>4, <3>5 DEF Format!LoadReason, Format!Seal
  <2> QED
    BY <2>3, <2>4
<1> QED
  BY <1>1, InvariantHolds, PTL

-----------------------------------------------------------------------------
(* What a registration may change.                                         *)

\* A v1 entry with one field changed that is still taken over names the
\* volume it named: what is hashed has no separator, and needs none.
LEMMA OneFieldGivesItselfAway ==
  ASSUME NEW i \in Observed, NEW v \in AnyLegacy \cup {NoEntry, NotDict}, Migrates(v),
         NEW w, w = [uid |-> i.uid, bid |-> i.bid, fp |-> FingerprintOf(i.uid, i.bid)],
         OneAway(v, w)
  PROVE  IdentityOf(MigrateEntry(v)) = [uid |-> w.uid, bid |-> w.bid]
<1>1. /\ i.uid \in Text /\ i.uid # <<>> /\ i.bid \in Text \cup {NoId} /\ i.bid # <<>>
      /\ (i.bid # NoId => IsStr(i.bid))
  BY ObservedAssumption, IdAssumption, IdsAreStrings, EmptySeq DEF Text
<1>2. /\ v \in AnyLegacy /\ v.uid \in Text /\ LegacyBid(v) \in Text \cup {NoId}
      /\ IdentityOf(MigrateEntry(v)) = [uid |-> v.uid, bid |-> LegacyBid(v)]
      /\ LegacyBid(v) # <<>>
  <2>1. LegacyBid(v) # <<>>
    BY IdsAreStrings, EmptySeq DEF LegacyBid, Text
  <2> QED
    BY <2>1, MigratedEntries
<1>3. w.uid = i.uid /\ w.bid = i.bid /\ w.fp = FingerprintOf(i.uid, i.bid) /\ IsStr(w.fp)
  BY <1>1, FingerprintsAreStrings, IdsAreStrings
<1>4. v.bid = w.bid => LegacyBid(v) = w.bid
  BY <1>1, <1>3, IdsAreStrings DEF LegacyBid
<1>5. v.fp = w.fp => FingerprintOf(v.uid, LegacyBid(v)) = FingerprintOf(i.uid, i.bid)
  BY <1>3 DEF Migrates
<1>6. v.uid = w.uid /\ v.fp = w.fp => LegacyBid(v) = w.bid
  <2> SUFFICES ASSUME v.uid = w.uid, v.fp = w.fp PROVE LegacyBid(v) = i.bid
    BY <1>3
  <2> DEFINE u == i.uid  b == i.bid  c == LegacyBid(v)
  <2>1. FingerprintOf(u, c) = FingerprintOf(u, b)
    BY <1>3, <1>5
  <2>2. u \in Text /\ b \in Text \cup {NoId} /\ c \in Text \cup {NoId} /\ b # <<>> /\ c # <<>>
    BY <1>1, <1>2
  <2> HIDE DEF u, b, c
  <2>3. \A d \in Text : /\ u \o d \in Text /\ Len(u) \in Nat /\ Len(d) \in Nat
                        /\ Len(u \o d) = Len(u) + Len(d) /\ (d # <<>> => Len(d) > 0)
    BY <2>2, ConcatProperties, EmptySeq, LenProperties DEF Text
  <2>4. ASSUME b = NoId /\ c # NoId PROVE c = b
    <3>1. u \o c = u /\ c \in Text
      BY <2>1, <2>2, <2>4 DEF FingerprintOf
    <3> QED
      BY <2>2, <2>3, <3>1
  <2>5. ASSUME b # NoId /\ c = NoId PROVE c = b
    <3>1. u \o b = u /\ b \in Text
      BY <2>1, <2>2, <2>5 DEF FingerprintOf
    <3> QED
      BY <2>2, <2>3, <3>1
  <2>6. ASSUME b # NoId /\ c # NoId PROVE c = b
    <3>1. u \o c = u \o b /\ b \in Text /\ c \in Text
      BY <2>1, <2>2, <2>6 DEF FingerprintOf
    <3>2. Len(c) = Len(b)
      BY <2>2, <2>3, <3>1
    <3>3. u \in Seq(Symbol) /\ b \in Seq(Symbol) /\ c \in Seq(Symbol)
      BY <2>2, <3>1 DEF Text
    <3> QED
      BY <3>1, <3>2, <3>3, ConcatCancels
  <2>7. c = b
    BY <2>4, <2>5, <2>6
  <2> QED
    BY <2>7 DEF b, c
<1>7. v.bid = w.bid /\ v.fp = w.fp => v.uid = w.uid
  <2> SUFFICES ASSUME v.bid = w.bid, v.fp = w.fp PROVE v.uid = i.uid
    BY <1>3
  <2>1. FingerprintOf(v.uid, i.bid) = FingerprintOf(i.uid, i.bid)
    BY <1>3, <1>4, <1>5
  <2>2. CASE i.bid = NoId
    BY <2>1, <2>2 DEF FingerprintOf
  <2>3. CASE i.bid # NoId
    <3>1. /\ v.uid \in Text /\ i.uid \in Text /\ i.bid \in Text
          /\ v.uid \o i.bid = i.uid \o i.bid
      BY <1>1, <1>2, <2>1, <2>3 DEF FingerprintOf
    <3>2. v.uid \in Seq(Symbol) /\ i.uid \in Seq(Symbol) /\ i.bid \in Seq(Symbol)
      BY <3>1 DEF Text
    <3> QED
      BY <3>1, <3>2, ConcatCancels
  <2> QED
    BY <2>2, <2>3
<1>8. v.uid = w.uid /\ LegacyBid(v) = w.bid
  BY <1>2, <1>4, <1>6, <1>7, SealsAreNotOdd DEF OneAway
<1> QED
  BY <1>2, <1>8

\* What register_volume of a v1 program wrote is taken over.
LEMMA WrittenLegacyMigrates ==
  ASSUME NEW i \in Observed, NEW w,
         w = [uid |-> i.uid, bid |-> i.bid, fp |-> FingerprintOf(i.uid, i.bid)]
  PROVE  Migrates(w) /\ w \in AnyLegacy
<1>1. /\ i.uid \in Text /\ i.uid # <<>> /\ i.bid \in Text \cup {NoId} /\ i.bid # <<>>
  BY ObservedAssumption, IdAssumption, IdsAreStrings, EmptySeq DEF Text
<1>2. FingerprintOf(i.uid, i.bid) \in Text
  BY <1>1, FingerprintsAreStrings
<1>3. w \in AnyLegacy /\ w.uid = i.uid /\ w.bid = i.bid /\ w.fp = FingerprintOf(i.uid, i.bid)
  BY <1>1, <1>2 DEF AnyLegacy
<1>4. LegacyBid(w) = i.bid
  BY <1>1, <1>3, IdsAreStrings DEF LegacyBid, IsStr
<1>5. w # NoEntry /\ w # NotDict
  BY <1>3, SealsAreNotOdd
<1> QED
  BY <1>1, <1>3, <1>4, <1>5, IdsAreStrings DEF Migrates

\* What a registration leaves under the other keys.
LEMMA RegisterKeeps ==
  ASSUME IInv, NEW k \in Key, NEW i \in Observed, NEW pass \in Pass, NEW ctx \in Context,
         Register(k, i, pass, ctx), NEW j \in Key \ {k}
  PROVE  /\ owner # Nobody \/ harm < 2 => truth'[j] \subseteq truth[j]
         /\ \/ truth'[j] = truth[j]
            \/ owner = Nobody /\ (harm > 0 \/ truth'[j] # {})
            \/ owner # Nobody /\ file.version = "absent"
<1>1. PICK m \in LoadStoreForRegister(file, pass, ctx) :
        truth' = Held([m EXCEPT ![k] = MakeEntry(i)])
  BY DEF Register
<1>2. /\ m \in Payload
      /\ \/ m = NoEntries /\ file.root = "missing"
         \/ m = Loaded(file) /\ LoadReason(file, pass, ctx) = "OK"
         \/ m \in MigrateLegacyEntries(file.legacy) /\ file.version = "absent"
  BY Inherited
<1>3. truth'[j] = IF m[j] = NoEntry THEN {} ELSE {IdentityOf(m[j])}
  BY <1>1, <1>2 DEF Held, Payload
<1>4. CASE m = NoEntries /\ file.root = "missing"
  <2>1. truth'[j] = {}
    BY <1>3, <1>4 DEF NoEntries
  <2>2. owner = Nobody /\ LegacyInv
    BY <1>4 DEF IInv, WrapperInv
  <2>3. truth = HeldV1(NoLegacy)
    BY <1>4, <2>2 DEF LegacyInv
  <2>4. truth[j] = {}
    BY <2>3 DEF HeldV1, NoLegacy
  <2> QED
    BY <2>1, <2>4
<1>5. CASE m = Loaded(file) /\ LoadReason(file, pass, ctx) = "OK"
  <2>1. truth = Held(m)
    BY <1>5, OpenedIsWritten
  <2> QED
    BY <1>3, <2>1 DEF Held
<1>6. CASE m \in MigrateLegacyEntries(file.legacy) /\ file.version = "absent"
  <2>1. file.legacy \in [V1Key -> AnyLegacy \cup {NoEntry, NotDict}] /\ ~ Migrates(NoEntry)
    BY DEF IInv, TypeOK, File, Migrates
  <2>2. CASE owner # Nobody
    <3>1. file.legacy = NoLegacy
      BY <2>2 DEF IInv, WrapperInv
    <3>2. \A l \in V1Key : ~ Migrates(file.legacy[l])
      BY <2>1, <3>1 DEF NoLegacy
    <3>3. m[j] = NoEntry
      BY <1>6, <2>1, <3>2, MigratedMaps
    <3> QED
      BY <1>3, <1>6, <2>2, <3>3
  <2>3. CASE owner = Nobody
    <3>1. PICK w \in [V1Key -> LegacyEntry \cup {NoEntry}] :
            /\ truth = HeldV1(w)
            /\ harm = 0 => file.legacy = w
            /\ harm = 1 => \A l \in V1Key : OneAway(file.legacy[l], w[l])
      BY <2>3 DEF IInv, LegacyInv
    <3>2. truth[j] = {[uid |-> w[l].uid, bid |-> w[l].bid] :
                        l \in {l \in V1Key : Upper[l] = j /\ w[l] # NoEntry}}
      BY <3>1 DEF HeldV1
    <3>3. CASE m[j] = NoEntry
      <4>1. \A l \in V1Key : Upper[l] = j => ~ Migrates(file.legacy[l])
        BY <1>6, <2>1, <3>3, MigratedMaps
      <4>2. ASSUME harm = 0, NEW l \in V1Key, Upper[l] = j, w[l] # NoEntry
            PROVE  FALSE
        <5>1. PICK o \in Observed :
                w[l] = [uid |-> o.uid, bid |-> o.bid, fp |-> FingerprintOf(o.uid, o.bid)]
          BY <4>2 DEF LegacyEntry
        <5>2. Migrates(w[l])
          BY <5>1, WrittenLegacyMigrates
        <5> QED
          BY <3>1, <4>1, <4>2, <5>2
      <4>3. harm = 0 => truth[j] = {}
        BY <3>2, <4>2
      <4>4. harm = 0 \/ harm > 0
        BY DEF IInv, TypeOK
      <4> QED
        BY <1>3, <2>3, <3>3, <4>3, <4>4
    <3>4. CASE m[j] # NoEntry
      <4>1. PICK l \in V1Key : /\ Upper[l] = j /\ Migrates(file.legacy[l])
                              /\ m[j] = MigrateEntry(file.legacy[l])
        BY <1>6, <2>1, <3>4, MigratedMaps
      <4>2. ASSUME harm < 2 PROVE IdentityOf(m[j]) \in truth[j]
        <5>1. harm = 0 \/ harm = 1
          BY <4>2 DEF IInv, TypeOK
        <5>2. OneAway(file.legacy[l], w[l])
          BY <3>1, <5>1 DEF OneAway
        <5>3. w[l] # NoEntry
          BY <2>1, <4>1, <5>2 DEF OneAway
        <5>4. PICK o \in Observed :
                w[l] = [uid |-> o.uid, bid |-> o.bid, fp |-> FingerprintOf(o.uid, o.bid)]
          BY <5>3 DEF LegacyEntry
        <5>5. IdentityOf(m[j]) = [uid |-> w[l].uid, bid |-> w[l].bid]
          BY <2>1, <4>1, <5>2, <5>4, OneFieldGivesItselfAway
        <5> QED
          BY <3>2, <4>1, <5>3, <5>5
      <4> QED
        BY <1>3, <2>3, <3>4, <4>2
    <3> QED
      BY <3>3, <3>4
  <2> QED
    BY <2>2, <2>3
<1> QED
  BY <1>2, <1>4, <1>5, <1>6

\* A step that is no registration keeps every key, or deletes the store.
LEMMA OtherStepsKeep ==
  ASSUME WrapperChanges \/ LegacyChanges \/ Delete \/ UNCHANGED vars
  PROVE  truth' = truth \/ (truth' = Held(NoEntries) /\ file'.root = "missing")
BY DEF WrapperChanges, LegacyChanges, Accident, Delete, Missing, vars

\* No registration puts an identity under another key, but from a v1 store
\* with two fields changed.
THEOREM NothingInvented == Spec => RegistrationInventsNothing
<1> DEFINE A == owner # Nobody \/ harm < 2 =>
                  \E k \in Key : \A j \in Key \ {k} : truth'[j] \subseteq truth[j]
<1>1. IInv /\ [Next]_vars => A
  <2> SUFFICES ASSUME IInv, [Next]_vars PROVE A
    OBVIOUS
  <2>1. ASSUME NEW k \in Key, NEW i \in Observed, NEW pass \in Pass, NEW ctx \in Context,
               Register(k, i, pass, ctx)
        PROVE  A
    BY <2>1, RegisterKeeps
  <2>2. \A j \in Key : Held(NoEntries)[j] = {}
    BY DEF Held, NoEntries
  <2>3. CASE WrapperChanges \/ LegacyChanges \/ Delete \/ UNCHANGED vars
    BY <2>2, <2>3, OtherStepsKeep, KeyAssumption
  <2> QED
    BY <2>1, <2>3 DEF Next, Pass, Context
<1> QED
  BY <1>1, InvariantHolds, PTL DEF Spec, RegistrationInventsNothing

\* No registration loses an identity of another key, but the exceptions that
\* RegistrationForgetsNothing names.
THEOREM NothingForgotten == Spec => RegistrationForgetsNothing
<1> DEFINE A == file'.root # "missing" =>
                  \E k \in Key : \A j \in Key \ {k} :
                    \/ truth'[j] = truth[j]
                    \/ owner = Nobody /\ (harm > 0 \/ truth'[j] # {})
                    \/ owner # Nobody /\ file.version = "absent"
<1>1. IInv /\ [Next]_vars => A
  <2> SUFFICES ASSUME IInv, [Next]_vars PROVE A
    OBVIOUS
  <2>1. ASSUME NEW k \in Key, NEW i \in Observed, NEW pass \in Pass, NEW ctx \in Context,
               Register(k, i, pass, ctx)
        PROVE  A
    BY <2>1, RegisterKeeps
  <2>2. CASE WrapperChanges \/ LegacyChanges \/ Delete \/ UNCHANGED vars
    BY <2>2, OtherStepsKeep, KeyAssumption
  <2> QED
    BY <2>1, <2>2 DEF Next, Pass, Context
<1> QED
  BY <1>1, InvariantHolds, PTL DEF Spec, RegistrationForgetsNothing

=============================================================================
