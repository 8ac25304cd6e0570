-------------------------- MODULE RawSectorsProofs --------------------------
(* Proofs about RawSectors, for every layout of the formats, every medium    *)
(* and every number of changes.                                              *)
EXTENDS RawSectors, TLAPS, SequenceTheorems, WellFoundedInduction

\* No sector of d from the caller's offset up to n stops the search.
Clear(d, n) == \A s \in offset .. n - 1 : ~ Stops(d, s)

Same(d, e, n) == \A s \in DOMAIN d : s >= n => d[s] = e[s]

\* What the search has passed over was clear in the medium it began with, which
\* is still the same from there on, or is clear in the medium as it is now.
Searched ==
  reader = "fve" /\ changes <= 1 =>
    \/ Clear(old, at) /\ Same(disk, old, at)
    \/ Clear(disk, at)

\* The same, of a header that goes on in the sector to be read.
Halfway ==
  reader = "splice" =>
    /\ at > offset /\ found \in Sector
    /\ FvePositions(found) # {} /\ 0 \notin FvePositions(found)
    /\ changes <= 1 =>
         \/ /\ Clear(old, at - 1) /\ Same(disk, old, at)
            /\ at - 1 \in DOMAIN old /\ old[at - 1] = found
         \/ /\ Clear(disk, at - 1)
            /\ at - 1 \in DOMAIN disk /\ disk[at - 1] = found

IInv ==
  /\ TypeOK
  /\ changes = 0 => disk = old
  /\ reader \in {"ntfs", "fve", "splice"} => out.fve = Pending
  /\ Searched /\ Halfway
  /\ FveIsOldOrNew

-----------------------------------------------------------------------------
(* The search on a medium that does not change.                            *)

LEMMA MinIs ==
  ASSUME NEW T \in SUBSET Int, NEW m \in T, \A t \in T : m <= t
  PROVE  Min(T) = m
<1> DEFINE P(x) == x \in T /\ \A t \in T : x <= t
<1>1. P(m)
  OBVIOUS
<1>2. ASSUME NEW x, P(x) PROVE x = m
  <2>1. x <= m /\ m <= x
    BY <1>2
  <2> QED BY <2>1, <1>2
<1> QED BY <1>1, <1>2 DEF Min

LEMMA MinOfTwo ==
  ASSUME NEW a \in Int, NEW b \in Int, a <= b
  PROVE  Min({a, b}) = a
<1>1. {a, b} \in SUBSET Int /\ a \in {a, b} /\ \A t \in {a, b} : a <= t
  OBVIOUS
<1> QED BY <1>1, MinIs

LEMMA NothingStops ==
  ASSUME NEW d, offset \in Nat, Clear(d, offset + Window)
  PROVE  FveOf(d) = Fails("VOLUME_QUERY_FAILED")
<1>1. {s \in offset .. offset + Window - 1 : Stops(d, s)} = {}
  BY SizeAssumption DEF Clear, Stops
<1> QED BY <1>1 DEF FveOf

LEMMA FirstStop ==
  ASSUME NEW d, offset \in Nat, NEW s \in offset .. offset + Window - 1,
         Clear(d, s), Stops(d, s)
  PROVE  FveOf(d) = FveAt(d, s)
<1> DEFINE stops == {t \in offset .. offset + Window - 1 : Stops(d, t)}
<1>1. s \in stops /\ stops \in SUBSET Int
  BY SizeAssumption
<1>2. \A t \in stops : s <= t
  <2> SUFFICES ASSUME NEW t \in stops, t < s PROVE FALSE
    BY SizeAssumption
  <2>1. t \in offset .. s - 1
    BY SizeAssumption
  <2> QED BY <2>1 DEF Clear
<1>3. Min(stops) = s
  <2> HIDE DEF stops
  <2> QED BY <1>1, <1>2, MinIs
<1> QED BY <1>1, <1>3 DEF FveOf

-----------------------------------------------------------------------------
(* Outcomes.                                                               *)

LEMMA Outcomes ==
  ASSUME NEW format, NEW data
  PROVE  /\ Parse(format, data).reason \in {"OK", "UNSUPPORTED_FS"}
         /\ ParseFve(data).reason \in {"OK", "STORE_CORRUPTED", "INVALID_SIGNATURE"}
         /\ ParseLuks(data).reason \in {"OK", "UNSUPPORTED_FS", "INVALID_SIGNATURE"}
<1>1. /\ \A id : Found(id).reason = "OK"
      /\ \A reason : Fails(reason).reason = reason
  BY DEF Found, Fails
<1>2. Parse(format, data).reason \in {"OK", "UNSUPPORTED_FS"}
  BY <1>1 DEF Parse
<1>3. ParseFve(data).reason \in {"OK", "STORE_CORRUPTED", "INVALID_SIGNATURE"}
  BY <1>1 DEF ParseFve
<1>4. ParseLuks(data).reason \in {"OK", "UNSUPPORTED_FS", "INVALID_SIGNATURE"}
  BY <1>1 DEF ParseLuks
<1> QED BY <1>2, <1>3, <1>4

LEMMA InitPending == Init => \A r \in Reader : out[r].reason = ""
<1>1. Init => \A r \in Reader : out[r] = Pending
  BY DEF Init
<1>2. Pending.reason = ""
  BY DEF Pending
<1> QED BY <1>1, <1>2

LEMMA OpenReasons ==
  ASSUME dev \in {"there", "denied", "gone", "failing"}, dev # "there"
  PROVE  OpenFails.reason \in {"INSUFFICIENT_PRIVILEGES", "VOLUME_QUERY_FAILED", "READ_FAILED"}
BY DEF OpenFails, Fails

-----------------------------------------------------------------------------
(* The invariant.                                                          *)

LEMMA InitInvariant == Init => IInv
<1> SUFFICES ASSUME Init PROVE IInv
  OBVIOUS
<1>1. offset \in Nat /\ offset <= offset + Window /\ offset \in offset .. offset + Window
  BY SizeAssumption DEF Init
<1>2. TypeOK
  BY <1>1 DEF Init, TypeOK, Reader
<1>3. out.fve = Pending
  BY DEF Init, Reader
<1> QED BY <1>2, <1>3 DEF Init, IInv, Searched, Halfway, FveIsOldOrNew

LEMMA ReadOnceFinishes ==
  ASSUME IInv, NEW r, NEW readable, NEW parsed, ReadOnce(r, readable, parsed),
         parsed.reason \in Reason
  PROVE  \E outcome :
           /\ reader = r /\ Finish(r, outcome) /\ outcome.reason \in Reason
           /\ UNCHANGED <<disk, dev, offset, old, changes>>
           /\ \/ outcome.reason \in {"INSUFFICIENT_PRIVILEGES", "VOLUME_QUERY_FAILED",
                                     "READ_FAILED"}
              \/ readable /\ outcome = parsed
<1> DEFINE outcome == IF dev # "there" THEN OpenFails
                      ELSE IF readable THEN parsed ELSE Fails("READ_FAILED")
<1>1. /\ outcome.reason \in Reason
      /\ \/ outcome.reason \in {"INSUFFICIENT_PRIVILEGES", "VOLUME_QUERY_FAILED",
                                "READ_FAILED"}
         \/ readable /\ outcome = parsed
  <2>1. CASE dev # "there"
    BY <2>1, OpenReasons DEF IInv, TypeOK, Reason
  <2>2. CASE dev = "there"
    BY <2>2 DEF Fails, Reason
  <2> QED BY <2>1, <2>2
<1>2. reader = r /\ Finish(r, outcome) /\ UNCHANGED <<disk, dev, offset, old, changes>>
  BY DEF ReadOnce
<1> HIDE DEF outcome
<1> QED BY <1>1, <1>2

\* A reader other than the search finishes.
LEMMA ReaderEnds ==
  ASSUME IInv, NEW r \in Reader \ {"fve"}, NEW outcome, reader = r, Finish(r, outcome),
         outcome.reason \in Reason, UNCHANGED <<disk, dev, offset, old, changes>>
  PROVE  IInv'
<1>1. offset \in Nat /\ offset <= offset + Window /\ offset \in offset .. offset + Window
  BY SizeAssumption DEF IInv, TypeOK
<1>2. /\ out' = [out EXCEPT ![r] = outcome] /\ reader' = After[r]
      /\ at' = offset /\ found' = <<>>
  BY DEF Finish
<1>3. TypeOK'
  <2>1. \A q \in Reader : out'[q] = IF q = r THEN outcome ELSE out[q]
    BY <1>2 DEF IInv, TypeOK
  <2>2. reader' \in Reader \cup {"done"} /\ DOMAIN out' = Reader
    BY <1>2 DEF After, Reader, IInv, TypeOK
  <2>3. disk' \in Medium /\ old' \in Medium
    BY DEF IInv, TypeOK, Medium
  <2>4. \A q \in Reader : out'[q] = Pending \/ out'[q].reason \in Reason
    BY <2>1 DEF IInv, TypeOK
  <2> QED BY <1>1, <1>2, <2>2, <2>3, <2>4 DEF IInv, TypeOK
<1>4. out'.fve = out.fve
  BY <1>2 DEF IInv, TypeOK, Reader
<1>5. reader' # "splice" /\ reader' # "ntfs" /\ (reader' = "fve" => r = "ntfs")
  BY <1>2 DEF After, Reader
<1>6. Searched'
  BY <1>1, <1>2 DEF IInv, Searched, Clear, Same
<1>7. FveIsOldOrNew'
  BY <1>4 DEF IInv, FveIsOldOrNew, FveOf, FveAt, Stops, OpenFails
<1> QED BY <1>3, <1>4, <1>5, <1>6, <1>7 DEF IInv, Halfway

\* The search finishes with an outcome that a medium of before or now gives, or
\* because the device is gone.
LEMMA SearchEnds ==
  ASSUME IInv, NEW outcome, Finish("fve", outcome), outcome.reason \in Reason,
         UNCHANGED <<disk, dev, offset, old, changes>>,
         changes <= 1 => \/ outcome \in {FveOf(old), FveOf(disk)}
                         \/ /\ dev # "there"
                            /\ outcome.reason \in {"READ_FAILED", OpenFails.reason}
  PROVE  IInv'
<1>1. offset \in Nat /\ offset <= offset + Window /\ offset \in offset .. offset + Window
  BY SizeAssumption DEF IInv, TypeOK
<1>2. \A q \in Reader : out'[q] = IF q = "fve" THEN outcome ELSE out[q]
  BY DEF IInv, TypeOK, Finish
<1>3. /\ reader' = "luks" /\ DOMAIN out' = Reader
      /\ out'.fve = outcome
  BY <1>2 DEF Finish, After, Reader, IInv, TypeOK
<1>4. TypeOK'
  <2>1. disk' \in Medium /\ old' \in Medium
    BY DEF IInv, TypeOK, Medium
  <2>2. \A q \in Reader : out'[q] = Pending \/ out'[q].reason \in Reason
    BY <1>2 DEF IInv, TypeOK
  <2> QED BY <1>1, <1>3, <2>1, <2>2 DEF IInv, TypeOK, Finish, Reader
<1>5. FveOf(old)' = FveOf(old) /\ FveOf(disk)' = FveOf(disk) /\ OpenFails' = OpenFails
  BY DEF FveOf, FveAt, Stops, OpenFails
<1>6. FveIsOldOrNew'
  BY <1>3, <1>5 DEF FveIsOldOrNew
<1> QED BY <1>3, <1>4, <1>6 DEF IInv, Searched, Halfway

LEMMA ScanStep == ASSUME IInv, Scan PROVE IInv'
<1>1. offset \in Nat /\ Window \in Nat /\ at \in Int /\ offset <= at /\ at < offset + Window
  BY SizeAssumption DEF IInv, TypeOK, Scan
<1>2. TypeOK'
  BY <1>1 DEF IInv, TypeOK, Scan, Medium
<1>3. at \in DOMAIN disk /\ ~ Stops(disk, at)
  BY DEF Scan, Unreadable, Readable, Stops
<1>4. ASSUME NEW d, Clear(d, at), ~ Stops(d, at) PROVE Clear(d, at + 1)
  BY <1>1, <1>4 DEF Clear
<1>5. Same(disk, old, at) => Same(disk, old, at + 1) /\ ~ Stops(old, at)
  <2> SUFFICES ASSUME Same(disk, old, at)
               PROVE  Same(disk, old, at + 1) /\ ~ Stops(old, at)
    OBVIOUS
  <2>1. \A s \in DOMAIN disk : s \in Int
    BY SizeAssumption DEF IInv, TypeOK, Medium
  <2>2. Same(disk, old, at + 1)
    BY <1>1, <2>1 DEF Same
  <2>3. at \in DOMAIN old /\ old[at] = disk[at]
    BY <1>1, <1>3 DEF Same, IInv, TypeOK
  <2> QED BY <1>3, <2>2, <2>3 DEF Stops, Readable
<1>6. changes <= 1 => \/ Clear(old, at + 1) /\ Same(disk, old, at + 1)
                      \/ Clear(disk, at + 1)
  BY <1>3, <1>4, <1>5 DEF IInv, Searched, Scan
<1>7. Searched'
  BY <1>6 DEF Searched, Scan, Clear, Same, Stops
<1>8. FveIsOldOrNew'
  BY DEF IInv, FveIsOldOrNew, Scan
<1> QED BY <1>2, <1>7, <1>8 DEF IInv, Halfway, Scan

LEMMA FindStep == ASSUME IInv, Find PROVE IInv'
<1>1. offset \in Nat /\ Window \in Nat /\ at \in Int /\ offset <= at /\ at < offset + Window
  BY SizeAssumption DEF IInv, TypeOK, Find
<1>2. at \in DOMAIN disk /\ Readable(disk, at) /\ Stops(disk, at)
  BY DEF Find, Unreadable, Readable, Stops
<1>3. \A s \in DOMAIN disk : s \in Int
  BY SizeAssumption DEF IInv, TypeOK, Medium
<1>4. Same(disk, old, at) => at \in DOMAIN old /\ old[at] = disk[at] /\ Same(disk, old, at + 1)
  BY <1>1, <1>2, <1>3 DEF Same, IInv, TypeOK
<1>5. CASE 0 \in FvePositions(disk[at])
  <2>1. ASSUME NEW d, Clear(d, at), at \in DOMAIN d, d[at] = disk[at]
        PROVE  FveOf(d) = ParseFve(disk[at])
    <3>1. Readable(d, at) /\ Stops(d, at)
      BY <1>2, <2>1 DEF Readable, Stops
    <3>2. FveOf(d) = FveAt(d, at)
      BY <1>1, <2>1, <3>1, FirstStop
    <3> QED BY <1>5, <2>1, <3>1, <3>2 DEF FveAt
  <2>2. changes <= 1 => ParseFve(disk[at]) \in {FveOf(old), FveOf(disk)}
    BY <1>2, <1>4, <2>1 DEF IInv, Searched, Find
  <2>3. ParseFve(disk[at]).reason \in Reason
    BY Outcomes DEF Reason
  <2>4. Finish("fve", ParseFve(disk[at])) /\ UNCHANGED <<disk, dev, offset, old, changes>>
    BY <1>5 DEF Find
  <2> QED BY <2>2, <2>3, <2>4, SearchEnds
<1>6. CASE 0 \notin FvePositions(disk[at])
  <2>1. /\ reader' = "splice" /\ found' = disk[at] /\ at' = at + 1
        /\ UNCHANGED <<disk, dev, offset, old, changes, out>>
    BY <1>6 DEF Find
  <2>2. disk[at] \in Sector
    BY <1>2 DEF Readable, IInv, TypeOK, Medium
  <2>3. TypeOK'
    BY <1>1, <2>1, <2>2 DEF IInv, TypeOK, Medium, Reader
  <2>4. FveIsOldOrNew'
    BY <2>1 DEF IInv, FveIsOldOrNew, Find
  <2>5. changes <= 1 =>
          \/ /\ Clear(old, at) /\ Same(disk, old, at + 1)
             /\ at \in DOMAIN old /\ old[at] = found'
          \/ Clear(disk, at) /\ at \in DOMAIN disk /\ disk[at] = found'
    BY <1>2, <1>4, <2>1 DEF IInv, Searched, Find
  <2>6. at' - 1 = at /\ at' > offset
    BY <1>1, <2>1
  <2>7. Halfway'
    BY <1>6, <2>1, <2>2, <2>5, <2>6 DEF Halfway, Find, Clear, Same, Stops
  <2> QED BY <2>1, <2>3, <2>4, <2>7 DEF IInv, Searched, Find
<1> QED BY <1>5, <1>6

LEMMA SpliceStep == ASSUME IInv, Splice PROVE IInv'
<1> DEFINE first == at - 1
           header == ParseFve(Aligned(found, disk[at]))
<1>1. /\ offset \in Nat /\ Window \in Nat /\ at \in Int /\ offset <= first
      /\ first < offset + Window /\ first + 1 = at /\ first \in Int
  BY SizeAssumption DEF IInv, TypeOK, Splice, Halfway
<1>2. at \in DOMAIN disk /\ Readable(disk, at)
  BY DEF Splice, Unreadable, Readable
<1>3. \A s \in DOMAIN disk : s \in Int
  BY SizeAssumption DEF IInv, TypeOK, Medium
<1>4. /\ found \in Sector /\ FvePositions(found) # {} /\ 0 \notin FvePositions(found)
      /\ changes <= 1 =>
           \/ Clear(old, first) /\ Same(disk, old, at) /\ first \in DOMAIN old /\ old[first] = found
           \/ Clear(disk, first) /\ first \in DOMAIN disk /\ disk[first] = found
  BY DEF IInv, Halfway, Splice
<1>5. ASSUME NEW d, Clear(d, first), first \in DOMAIN d, d[first] = found,
             at \in DOMAIN d, d[at] = disk[at]
      PROVE  FveOf(d) = header
  <2>1. Readable(d, first) /\ Stops(d, first) /\ Readable(d, first + 1)
    BY <1>1, <1>2, <1>4, <1>5, SectorAssumption DEF Readable, Stops
  <2>2. FveOf(d) = FveAt(d, first)
    <3>1. first \in offset .. offset + Window - 1
      BY <1>1
    <3> HIDE DEF first
    <3> QED BY <1>1, <1>5, <2>1, <3>1, FirstStop
  <2>3. FveAt(d, first) = ParseFve(Aligned(d[first], d[first + 1]))
    BY <1>4, <1>5, <2>1 DEF FveAt
  <2> QED BY <1>1, <1>5, <2>2, <2>3
<1>6. Same(disk, old, at) => at \in DOMAIN old /\ old[at] = disk[at]
  BY <1>1, <1>2, <1>3 DEF Same, IInv, TypeOK
<1>7. changes <= 1 => header \in {FveOf(old), FveOf(disk)}
  <2> HIDE DEF first, header
  <2> QED BY <1>2, <1>4, <1>5, <1>6
<1>8. header.reason \in Reason
  BY Outcomes DEF Reason
<1>9. Finish("fve", header) /\ UNCHANGED <<disk, dev, offset, old, changes>>
  BY DEF Splice
<1> HIDE DEF header
<1> QED BY <1>7, <1>8, <1>9, SearchEnds

LEMMA FveFailsStep == ASSUME IInv, FveFails PROVE IInv'
<1>1. offset \in Nat /\ Window \in Nat /\ at \in Int /\ offset <= at
  BY SizeAssumption DEF IInv, TypeOK
<1>2. \A s \in DOMAIN disk : s \in Int
  BY SizeAssumption DEF IInv, TypeOK, Medium
<1>3. Same(disk, old, at) /\ ~ Readable(disk, at) => ~ Readable(old, at)
  BY <1>1, <1>2 DEF Same, Readable, IInv, TypeOK
<1>4. UNCHANGED <<disk, dev, offset, old, changes>>
  BY DEF FveFails
<1>5. \A r : Fails(r).reason = r
  BY DEF Fails
<1>6. CASE reader = "fve" /\ at = offset + Window
           /\ Finish("fve", Fails("VOLUME_QUERY_FAILED"))
  <2>1. changes <= 1 => Fails("VOLUME_QUERY_FAILED") \in {FveOf(old), FveOf(disk)}
    BY <1>1, <1>6, NothingStops DEF IInv, Searched
  <2> QED BY <1>4, <1>5, <1>6, <2>1, SearchEnds DEF Reason
<1>7. CASE /\ reader = "fve" /\ at < offset + Window /\ Unreadable
           /\ Finish("fve", IF at = offset /\ dev # "there" THEN OpenFails
                            ELSE Fails("READ_FAILED"))
  <2>1. CASE dev # "there"
    <3> DEFINE outcome == IF at = offset THEN OpenFails ELSE Fails("READ_FAILED")
    <3>1. outcome.reason \in {"READ_FAILED", OpenFails.reason} /\ outcome.reason \in Reason
      BY <1>5, <2>1, OpenReasons DEF IInv, TypeOK, Reason
    <3>2. Finish("fve", outcome)
      BY <1>7, <2>1
    <3> HIDE DEF outcome
    <3> QED BY <1>4, <2>1, <3>1, <3>2, SearchEnds
  <2>2. CASE dev = "there"
    <3>1. ~ Readable(disk, at) /\ Finish("fve", Fails("READ_FAILED"))
      BY <1>7, <2>2 DEF Unreadable
    <3>2. ASSUME NEW d, Clear(d, at), ~ Readable(d, at)
          PROVE  FveOf(d) = Fails("READ_FAILED")
      <4>1. Stops(d, at) /\ at \in offset .. offset + Window - 1
        BY <1>1, <1>7, <3>2 DEF Stops
      <4>2. FveOf(d) = FveAt(d, at)
        BY <1>1, <3>2, <4>1, FirstStop
      <4> QED BY <3>2, <4>2 DEF FveAt
    <3>3. changes <= 1 => Fails("READ_FAILED") \in {FveOf(old), FveOf(disk)}
      BY <1>3, <1>7, <3>1, <3>2 DEF IInv, Searched
    <3> QED BY <1>4, <1>5, <3>1, <3>3, SearchEnds DEF Reason
  <2> QED BY <2>1, <2>2
<1>8. CASE reader = "splice" /\ Unreadable /\ Finish("fve", Fails("READ_FAILED"))
  <2>1. CASE dev # "there"
    BY <1>4, <1>5, <1>8, <2>1, SearchEnds DEF Reason
  <2>2. CASE dev = "there"
    <3> DEFINE first == at - 1
    <3>1. ~ Readable(disk, at)
      BY <1>8, <2>2 DEF Unreadable
    <3>2. /\ first \in offset .. offset + Window - 1 /\ first + 1 = at /\ first \in Int
          /\ found \in Sector /\ FvePositions(found) # {} /\ 0 \notin FvePositions(found)
          /\ changes <= 1 =>
               \/ /\ Clear(old, first) /\ Same(disk, old, at)
                  /\ first \in DOMAIN old /\ old[first] = found
               \/ Clear(disk, first) /\ first \in DOMAIN disk /\ disk[first] = found
      BY <1>1, <1>8 DEF IInv, TypeOK, Halfway
    <3>3. ASSUME NEW d, Clear(d, first), first \in DOMAIN d, d[first] = found, ~ Readable(d, at)
          PROVE  FveOf(d) = Fails("READ_FAILED")
      <4>1. Readable(d, first) /\ Stops(d, first)
        BY <3>2, <3>3, SectorAssumption DEF Readable, Stops
      <4>2. FveOf(d) = FveAt(d, first)
        <5> HIDE DEF first
        <5> QED BY <1>1, <3>2, <3>3, <4>1, FirstStop
      <4>3. FveAt(d, first) = Fails("READ_FAILED")
        BY <3>2, <3>3, <4>1 DEF FveAt
      <4> QED BY <4>2, <4>3
    <3>4. changes <= 1 => Fails("READ_FAILED") \in {FveOf(old), FveOf(disk)}
      <4> HIDE DEF first
      <4> QED BY <1>3, <3>1, <3>2, <3>3
    <3> QED BY <1>4, <1>5, <1>8, <3>4, SearchEnds DEF Reason
  <2> QED BY <2>1, <2>2
<1> QED BY <1>6, <1>7, <1>8 DEF FveFails

\* A write behind the search leaves the rest as it was; one before it leaves
\* what was passed over clear.
LEMMA WriteStep == ASSUME IInv, Write PROVE IInv'
<1>1. /\ offset \in Nat /\ Window \in Nat /\ at \in Int /\ offset <= at /\ changes \in Nat
      /\ DOMAIN disk = DOMAIN old
  BY SizeAssumption DEF IInv, TypeOK
<1>2. PICK w \in DOMAIN disk, c \in Sector \cup {Bad} : disk' = [disk EXCEPT ![w] = c]
  BY DEF Write
<1>3. /\ DOMAIN disk' = DOMAIN disk /\ w \in Int
      /\ \A s \in DOMAIN disk : s # w => disk'[s] = disk[s]
  BY <1>2, SizeAssumption DEF IInv, TypeOK, Medium
<1>4. /\ changes' = changes + 1 /\ reader # "done"
      /\ UNCHANGED <<dev, offset, reader, at, found, out, old>>
  BY DEF Write
<1>5. TypeOK'
  <2>1. disk' \in Medium
    <3>1. PICK n \in Size : disk \in [0 .. n - 1 -> Sector \cup {Bad}]
      BY DEF IInv, TypeOK, Medium
    <3>2. disk' \in [0 .. n - 1 -> Sector \cup {Bad}]
      BY <1>2, <3>1
    <3> QED BY <3>2 DEF Medium
  <2>2. old' \in Medium
    BY <1>4 DEF IInv, TypeOK, Medium
  <2>3. changes' \in Nat
    BY <1>1, <1>4
  <2> QED BY <1>3, <1>4, <2>1, <2>2, <2>3 DEF IInv, TypeOK
<1>6. changes' # 0
  BY <1>1, <1>4
<1>7. CASE changes' > 1
  BY <1>4, <1>5, <1>6, <1>7 DEF IInv, Searched, Halfway, FveIsOldOrNew
<1>8. CASE changes' <= 1
  <2>1. disk = old
    BY <1>1, <1>4, <1>8 DEF IInv
  <2>2. \A n \in Int : w < n => Same(disk', old, n)
    BY <1>1, <1>3, <2>1 DEF Same
  <2>3. ASSUME NEW n \in Int, n <= w, Clear(old, n) PROVE Clear(disk', n)
    <3> SUFFICES ASSUME NEW s \in offset .. n - 1 PROVE ~ Stops(disk', s)
      BY DEF Clear
    <3>1. s # w /\ ~ Stops(old, s)
      BY <1>1, <2>3 DEF Clear
    <3> QED BY <1>1, <1>3, <2>1, <3>1 DEF Stops, Readable
  <2>4. Searched'
    <3> SUFFICES ASSUME reader = "fve"
                 PROVE  \/ Clear(old, at) /\ Same(disk', old, at)
                        \/ Clear(disk', at)
      BY <1>4 DEF Searched, Clear, Same, Stops
    <3>1. Clear(old, at)
      BY <1>1, <1>4, <1>8, <2>1 DEF IInv, Searched
    <3> QED BY <1>1, <1>3, <2>2, <2>3, <3>1
  <2>5. Halfway'
    <3> SUFFICES ASSUME reader = "splice"
                 PROVE  \/ /\ Clear(old, at - 1) /\ Same(disk', old, at)
                           /\ at - 1 \in DOMAIN old /\ old[at - 1] = found
                        \/ /\ Clear(disk', at - 1)
                           /\ at - 1 \in DOMAIN disk' /\ disk'[at - 1] = found
      BY <1>4 DEF IInv, Halfway, Clear, Same, Stops
    <3>1. Clear(old, at - 1) /\ at - 1 \in DOMAIN old /\ old[at - 1] = found
      BY <1>1, <1>4, <1>8, <2>1 DEF IInv, Halfway
    <3>2. CASE w < at
      BY <1>1, <2>2, <3>1, <3>2
    <3>3. CASE at <= w
      <4>1. Clear(disk', at - 1)
        BY <1>1, <1>3, <2>3, <3>1, <3>3
      <4>2. at - 1 \in DOMAIN disk' /\ disk'[at - 1] = found
        BY <1>1, <1>3, <2>1, <3>1, <3>3
      <4> QED BY <4>1, <4>2
    <3> QED BY <1>1, <1>3, <3>2, <3>3
  <2>6. FveIsOldOrNew'
    <3>1. FveOf(old)' = FveOf(old) /\ OpenFails' = OpenFails
      BY <1>4 DEF FveOf, FveAt, Stops, OpenFails
    <3> QED BY <1>1, <1>4, <1>8, <2>1, <3>1 DEF IInv, FveIsOldOrNew
  <2> QED BY <1>4, <1>5, <1>6, <2>4, <2>5, <2>6 DEF IInv
<1> QED BY <1>1, <1>4, <1>7, <1>8

LEMMA UnplugStep == ASSUME IInv, Unplug PROVE IInv'
<1>1. /\ dev = "there" /\ dev' = "gone"
      /\ UNCHANGED <<disk, offset, reader, at, found, out, old, changes>>
  BY DEF Unplug
<1>2. TypeOK'
  BY <1>1 DEF IInv, TypeOK, Medium
<1>3. FveOf(old)' = FveOf(old) /\ FveOf(disk)' = FveOf(disk)
  BY <1>1 DEF FveOf, FveAt, Stops
<1>4. Searched' /\ Halfway'
  BY <1>1 DEF IInv, Searched, Halfway, Clear, Same, Stops
<1> QED BY <1>1, <1>2, <1>3, <1>4 DEF IInv, FveIsOldOrNew

LEMMA StutterStep == ASSUME IInv, UNCHANGED vars PROVE IInv'
<1>1. TypeOK'
  BY DEF IInv, TypeOK, Medium, vars
<1>2. Searched' /\ Halfway' /\ FveIsOldOrNew'
  BY DEF IInv, Searched, Halfway, Clear, Same, FveIsOldOrNew, FveOf, FveAt, Stops,
         OpenFails, vars
<1> QED BY <1>1, <1>2 DEF IInv, vars

LEMMA ReadSteps ==
  ASSUME IInv, ReadNtfs \/ ReadLuks \/ ReadExt4 \/ ReadSwap
  PROVE  IInv'
<1>1. CASE ReadNtfs
  BY <1>1, ReadOnceFinishes, ReaderEnds, Outcomes DEF ReadNtfs, Reason, Reader
<1>2. CASE ReadLuks
  BY <1>2, ReadOnceFinishes, ReaderEnds, Outcomes DEF ReadLuks, Reason, Reader
<1>3. CASE ReadExt4
  BY <1>3, ReadOnceFinishes, ReaderEnds, Outcomes DEF ReadExt4, Reason, Reader
<1>4. CASE ReadSwap
  <2>1. Found(<<>>).reason \in Reason /\ Fails("UNSUPPORTED_FS").reason \in Reason
    BY DEF Found, Fails, Reason
  <2>2. PICK outcome : /\ reader = "swap" /\ Finish("swap", outcome)
                       /\ outcome \in {Found(<<>>), Fails("UNSUPPORTED_FS")}
                       /\ UNCHANGED <<disk, dev, offset, old, changes>>
    BY <1>4 DEF ReadSwap
  <2> QED BY <2>1, <2>2, ReaderEnds DEF Reader
<1> QED BY <1>1, <1>2, <1>3, <1>4

LEMMA StepInvariant == IInv /\ [Next]_vars => IInv'
<1> SUFFICES ASSUME IInv, [Next]_vars PROVE IInv'
  OBVIOUS
<1>1. CASE ReadNtfs \/ ReadLuks \/ ReadExt4 \/ ReadSwap
  BY <1>1, ReadSteps
<1>2. CASE Scan
  BY <1>2, ScanStep
<1>3. CASE Find
  BY <1>3, FindStep
<1>4. CASE Splice
  BY <1>4, SpliceStep
<1>5. CASE FveFails
  BY <1>5, FveFailsStep
<1>6. CASE Write
  BY <1>6, WriteStep
<1>7. CASE Unplug
  BY <1>7, UnplugStep
<1>8. CASE Done \/ UNCHANGED vars
  BY <1>8, StutterStep DEF Done
<1> QED BY <1>1, <1>2, <1>3, <1>4, <1>5, <1>6, <1>7, <1>8 DEF Next

THEOREM InvariantHolds == Spec => []IInv
<1> QED BY InitInvariant, StepInvariant, PTL DEF Spec

-----------------------------------------------------------------------------
(* Absence.                                                                *)

LEMMA SliceOfBytes ==
  ASSUME NEW d, NEW p \in Nat, NEW length \in Nat, NEW i \in Nat, NEW to \in Nat,
         i <= to, to <= length
  PROVE  Slice(Bytes(d, p, length), i, to) = Bytes(d, p + i, to - i)
<1> DEFINE k == to - i
           data == Bytes(d, p, length)
           All == {data[j] : j \in 1 .. length}
<1>1. data \in [1 .. length -> All]
  BY DEF Bytes
<1>2. data \in Seq(All) /\ Len(data) = length
  <2> HIDE DEF data, All
  <2> QED BY <1>1
<1>3. Min({to, Len(data)}) = to
  BY <1>2, MinOfTwo
<1>4. Slice(data, i, to) = SubSeq(data, i + 1, to)
  BY <1>3 DEF Slice
<1>5. \A j \in i + 1 .. to : data[j] \in All
  BY <1>1
<1>6. /\ SubSeq(data, i + 1, to) \in Seq(All)
      /\ Len(SubSeq(data, i + 1, to)) = k
      /\ \A j \in 1 .. k : SubSeq(data, i + 1, to)[j] = data[i + j]
  <2> HIDE DEF data, All
  <2> QED BY <1>5, SubSeqProperties
<1>7. \A j \in 1 .. k : data[i + j] = Bytes(d, p + i, k)[j]
  <2> SUFFICES ASSUME NEW j \in 1 .. k PROVE data[i + j] = Bytes(d, p + i, k)[j]
    OBVIOUS
  <2>1. i + j \in 1 .. length /\ p + (i + j) - 1 = (p + i) + j - 1
    OBVIOUS
  <2> QED BY <2>1 DEF Bytes
<1>8. SubSeq(data, i + 1, to) = Bytes(d, p + i, k)
  <2> HIDE DEF data, All
  <2>1. SubSeq(data, i + 1, to) = [j \in 1 .. k |-> SubSeq(data, i + 1, to)[j]]
    BY <1>6
  <2> QED BY <1>6, <1>7, <2>1 DEF Bytes
<1> QED BY <1>4, <1>8

\* A reader that ends with the reason of an absence found the medium without
\* what it looks for.
LEMMA AbsenceFound ==
  ASSUME IInv, AbsenceHasACause, NEW r \in Reader, NEW outcome, Finish(r, outcome),
         UNCHANGED <<disk, dev, offset, old, changes>>,
         changes <= 1 /\ r # "swap" /\ Absent(r, outcome) =>
           \/ \E d \in {old, disk} : Lacks(r, d)
           \/ r = "fve" /\ dev = "gone"
  PROVE  AbsenceHasACause'
<1>1. \A q \in Reader : out'[q] = IF q = r THEN outcome ELSE out[q]
  BY DEF IInv, TypeOK, Finish
<1>2. \A q, d : Lacks(q, d) <=> Lacks(q, d)'
  BY DEF Lacks, Stops
<1>3. \A q \in Reader \ {"swap"} : changes <= 1 /\ Absent(q, out'[q]) =>
           \/ \E d \in {old, disk} : Lacks(q, d)
           \/ q = "fve" /\ dev = "gone"
  BY <1>1 DEF AbsenceHasACause
<1> QED BY <1>2, <1>3 DEF AbsenceHasACause, Absent

LEMMA ReadersAbsence ==
  ASSUME IInv, AbsenceHasACause, ReadNtfs \/ ReadLuks \/ ReadExt4 \/ ReadSwap
  PROVE  AbsenceHasACause'
<1>1. \A id : Found(id).reason = "OK"
  BY DEF Found
<1>2. CASE ReadNtfs
  <2>1. Parse(Ntfs, disk[offset]).reason \in Reason
    BY Outcomes DEF Reason
  <2>2. PICK outcome :
          /\ Finish("ntfs", outcome) /\ UNCHANGED <<disk, dev, offset, old, changes>>
          /\ \/ outcome.reason \in {"INSUFFICIENT_PRIVILEGES", "VOLUME_QUERY_FAILED",
                                    "READ_FAILED"}
             \/ Readable(disk, offset) /\ outcome = Parse(Ntfs, disk[offset])
    BY <1>2, <2>1, ReadOnceFinishes DEF ReadNtfs
  <2>3. Absent("ntfs", outcome) => Lacks("ntfs", disk)
    BY <1>1, <2>2 DEF Absent, Lacks, Parse, Positions
  <2> QED BY <2>2, <2>3, AbsenceFound DEF Reader
<1>3. CASE ReadLuks
  <2> DEFINE header == Bytes(disk, 0, Luks.length)
  <2>1. ParseLuks(header).reason \in Reason
    BY Outcomes DEF Reason
  <2>2. PICK outcome :
          /\ Finish("luks", outcome) /\ UNCHANGED <<disk, dev, offset, old, changes>>
          /\ \/ outcome.reason \in {"INSUFFICIENT_PRIVILEGES", "VOLUME_QUERY_FAILED",
                                    "READ_FAILED"}
             \/ AllThere(disk, 0, Luks.length) /\ outcome = ParseLuks(header)
    BY <1>3, <2>1, ReadOnceFinishes DEF ReadLuks
  <2>3. Slice(header, 0, Len(Luks.sig)) = Bytes(disk, 0, Len(Luks.sig))
    <3>1. Luks.length \in Nat /\ Len(Luks.sig) \in Nat /\ Len(Luks.sig) <= Luks.length
      BY FormatAssumption
    <3>2. Slice(header, 0, Len(Luks.sig)) = Bytes(disk, 0 + 0, Len(Luks.sig) - 0)
      BY <3>1, SliceOfBytes
    <3> QED BY <3>1, <3>2
  <2>4. Absent("luks", outcome) => Lacks("luks", disk)
    <3>1. Fails("UNSUPPORTED_FS").reason = "UNSUPPORTED_FS"
      BY DEF Fails
    <3> QED BY <1>1, <2>2, <2>3, <3>1 DEF Absent, Lacks, ParseLuks
  <2> QED BY <2>2, <2>4, AbsenceFound DEF Reader
<1>4. CASE ReadExt4
  <2> DEFINE start == offset + Ext4.start
             block == Bytes(disk, start, Ext4.length)
  <2>1. Parse(Ext4, block).reason \in Reason
    BY Outcomes DEF Reason
  <2>2. PICK outcome :
          /\ Finish("ext4", outcome) /\ UNCHANGED <<disk, dev, offset, old, changes>>
          /\ \/ outcome.reason \in {"INSUFFICIENT_PRIVILEGES", "VOLUME_QUERY_FAILED",
                                    "READ_FAILED"}
             \/ AllThere(disk, start, Ext4.length) /\ outcome = Parse(Ext4, block)
    BY <1>4, <2>1, ReadOnceFinishes DEF ReadExt4
  <2>3. Slice(block, Ext4.sigAt, Ext4.sigAt + Len(Ext4.sig))
        = Bytes(disk, start + Ext4.sigAt, Len(Ext4.sig))
    <3> DEFINE to == Ext4.sigAt + Len(Ext4.sig)
    <3>1. /\ Ext4.start \in Nat /\ Ext4.length \in Nat /\ Ext4.sigAt \in Nat
          /\ Len(Ext4.sig) \in Nat /\ to <= Ext4.length
      BY FormatAssumption
    <3>2. start \in Nat
      BY <3>1, SizeAssumption DEF IInv, TypeOK
    <3>3. to \in Nat /\ Ext4.sigAt <= to /\ to - Ext4.sigAt = Len(Ext4.sig)
      BY <3>1
    <3>4. Slice(block, Ext4.sigAt, to) = Bytes(disk, start + Ext4.sigAt, to - Ext4.sigAt)
      <4> HIDE DEF to, start
      <4>1. \A p, length, i \in Nat : i <= to /\ to <= length =>
              Slice(Bytes(disk, p, length), i, to) = Bytes(disk, p + i, to - i)
        BY <3>3, SliceOfBytes
      <4> QED BY <3>1, <3>2, <3>3, <4>1
    <3> QED BY <3>3, <3>4 DEF to
  <2>4. Absent("ext4", outcome) => Lacks("ext4", disk)
    BY <1>1, <2>2, <2>3 DEF Absent, Lacks, Parse
  <2> QED BY <2>2, <2>4, AbsenceFound DEF Reader
<1>5. CASE ReadSwap
  <2>1. PICK outcome : /\ Finish("swap", outcome)
                       /\ UNCHANGED <<disk, dev, offset, old, changes>>
    BY <1>5 DEF ReadSwap
  <2> QED BY <2>1, AbsenceFound DEF Reader
<1> QED BY <1>2, <1>3, <1>4, <1>5

LEMMA AbsenceStays ==
  ASSUME AbsenceHasACause, UNCHANGED <<out, disk, dev, offset, old, changes>>
  PROVE  AbsenceHasACause'
<1>1. \A q, d : Lacks(q, d) <=> Lacks(q, d)'
  BY DEF Lacks, Stops
<1> QED BY <1>1 DEF AbsenceHasACause, Absent

LEMMA SearchAbsence ==
  ASSUME IInv, AbsenceHasACause, Scan \/ Find \/ Splice \/ FveFails
  PROVE  AbsenceHasACause'
<1>1. CASE \E outcome : /\ Finish("fve", outcome)
                        /\ UNCHANGED <<disk, dev, offset, old, changes>>
                        /\ changes <= 1 /\ Absent("fve", outcome) =>
                             \/ \E d \in {old, disk} : Lacks("fve", d)
                             \/ dev = "gone"
  BY <1>1, AbsenceFound DEF Reader
<1>2. CASE UNCHANGED <<out, disk, dev, offset, old, changes>>
  BY <1>2, AbsenceStays
<1>3. \A data : ~ Absent("fve", ParseFve(data))
  BY Outcomes DEF Absent
<1>4. CASE Scan
  BY <1>2, <1>4 DEF Scan
<1>5. CASE Find
  BY <1>1, <1>2, <1>3, <1>5 DEF Find
<1>6. CASE Splice
  BY <1>1, <1>3, <1>6 DEF Splice
<1>7. CASE FveFails
  <2>1. \A reason : Fails(reason).reason = reason
    BY DEF Fails
  <2>2. ~ Absent("fve", Fails("READ_FAILED"))
    BY <2>1 DEF Absent
  <2>3. dev # "there" /\ Absent("fve", OpenFails) => dev = "gone"
    BY <2>1 DEF Absent, OpenFails, IInv, TypeOK
  <2>4. reader = "fve" /\ at = offset + Window /\ changes <= 1 =>
          \E d \in {old, disk} : Lacks("fve", d)
    <3>1. ASSUME NEW d, Clear(d, offset + Window) PROVE Lacks("fve", d)
      <4>1. \A s \in offset .. offset + Window - 1 : ~ Stops(d, s)
        <5>1. offset \in Offset
          BY DEF IInv, TypeOK
        <5>2. offset + Window - 1 = (offset + Window) - 1
          BY <5>1, SizeAssumption
        <5> QED BY <3>1, <5>2, Zenon DEF Clear
      <4> QED BY <4>1 DEF Lacks
    <3> QED BY <3>1 DEF IInv, Searched
  <2> QED BY <1>1, <1>7, <2>2, <2>3, <2>4 DEF FveFails
<1> QED BY <1>4, <1>5, <1>6, <1>7

LEMMA WorldAbsence ==
  ASSUME IInv, AbsenceHasACause, Write \/ Unplug
  PROVE  AbsenceHasACause'
<1>1. \A q, d : Lacks(q, d) <=> Lacks(q, d)'
  BY DEF Lacks, Stops, Write, Unplug
<1>2. CASE Write
  <2>1. changes' <= 1 => changes <= 1 /\ disk = old
    BY <1>2 DEF IInv, TypeOK, Write
  <2> QED BY <1>1, <1>2, <2>1 DEF AbsenceHasACause, Absent, Write
<1>3. CASE Unplug
  BY <1>1, <1>3 DEF AbsenceHasACause, Absent, Unplug
<1> QED BY <1>2, <1>3

-----------------------------------------------------------------------------
(* Where an identifier comes from.                                         *)

LEMMA SmallestPosition ==
  ASSUME NEW T \in SUBSET Nat, T # {}
  PROVE  Min(T) \in T /\ \A t \in T : Min(T) <= t
<1> DEFINE less == {ss \in Nat \X Nat : ss[1] < ss[2]}
<1>1. IsWellFoundedOn(less, Nat)
  BY NatLessThanWellFounded, Zenon DEF OpToRel
<1>2. PICK m \in T : \A t \in T : ~ (<<t, m>> \in less)
  <2> HIDE DEF less
  <2> QED BY <1>1, WFMin
<1>3. \A t \in T : m <= t
  <2> SUFFICES ASSUME NEW t \in T, t < m PROVE FALSE
    OBVIOUS
  <2>1. <<t, m>> \in less
    OBVIOUS
  <2> QED BY <1>2, <2>1
<1> QED BY <1>3, MinIs

LEMMA SliceIs ==
  ASSUME NEW T, NEW data \in Seq(T), NEW i \in Nat, NEW to \in Nat,
         i <= to, to <= Len(data)
  PROVE  /\ Slice(data, i, to) \in Seq(T) /\ Len(Slice(data, i, to)) = to - i
         /\ \A j \in 1 .. to - i : Slice(data, i, to)[j] = data[i + j]
<1>1. Min({to, Len(data)}) = to
  BY MinOfTwo
<1>2. Slice(data, i, to) = SubSeq(data, i + 1, to)
  BY <1>1 DEF Slice
<1>3. \A j \in i + 1 .. to : data[j] \in T
  OBVIOUS
<1>4. /\ SubSeq(data, i + 1, to) \in Seq(T)
      /\ Len(SubSeq(data, i + 1, to)) = to - i
      /\ \A j \in 1 .. to - i : SubSeq(data, i + 1, to)[j] = data[i + j]
  BY <1>3, SubSeqProperties
<1> QED BY <1>2, <1>4

\* An identifier that ParseFve finds is within the header, behind the fields.
LEMMA ParseFveFinds ==
  ASSUME NEW header \in [1 .. S -> Byte], ParseFve(header).reason = "OK"
  PROVE  LET id == ParseFve(header).id IN
         /\ Len(id) = Fve.size /\ \E j \in 1 .. Fve.size : id[j] # 0
         /\ \E k \in Fve.min + Fve.idAt .. S - Fve.size :
              \A j \in 1 .. Fve.size : id[j] = header[k + j]
<1> DEFINE metadata == Max({header[Fve.field + 1], Fve.min})
           k == metadata + Fve.idAt
           id == Slice(header, k, k + Fve.size)
<1>1. /\ header \in Seq(Byte) /\ Len(header) = S /\ S \in Nat
      /\ Fve.min \in Nat /\ Fve.idAt \in Nat /\ Fve.size \in Nat
  BY SectorAssumption, FormatAssumption
<1>2. header[Fve.field + 1] \in Nat
  <2>1. Fve.field + 1 \in 1 .. S /\ Byte \subseteq Nat
    BY SectorAssumption, FormatAssumption
  <2> QED BY <2>1
<1>3. metadata \in Nat /\ Fve.min <= metadata
  <2> DEFINE a == header[Fve.field + 1]
             b == Fve.min
             P(x) == x \in {a, b} /\ \A t \in {a, b} : x >= t
  <2>1. P(IF a >= b THEN a ELSE b)
    BY <1>1, <1>2
  <2>2. P(CHOOSE x : P(x))
    BY <2>1
  <2>3. Max({a, b}) \in {a, b} /\ \A t \in {a, b} : Max({a, b}) >= t
    BY <2>2 DEF Max
  <2> QED BY <1>1, <1>2, <2>3
<1>4. /\ ~ (Len(header) < k + Fve.size)
      /\ id # [j \in 1 .. Fve.size |-> 0]
      /\ ParseFve(header) = Found(id)
  BY DEF ParseFve, Fails, Found
<1> HIDE DEF metadata
<1>5. k \in Nat /\ k + Fve.size <= S /\ k \in Fve.min + Fve.idAt .. S - Fve.size
  BY <1>1, <1>3, <1>4
<1>6. /\ id \in Seq(Byte) /\ Len(id) = Fve.size
      /\ \A j \in 1 .. Fve.size : id[j] = header[k + j]
  <2> DEFINE to == k + Fve.size
  <2>1. to \in Nat /\ k <= to /\ to <= Len(header) /\ to - k = Fve.size
    BY <1>1, <1>5
  <2> HIDE DEF k, to
  <2>2. /\ Slice(header, k, to) \in Seq(Byte) /\ Len(Slice(header, k, to)) = to - k
        /\ \A j \in 1 .. to - k : Slice(header, k, to)[j] = header[k + j]
    <3>1. \A i, t \in Nat : i <= t /\ t <= Len(header) =>
            /\ Slice(header, i, t) \in Seq(Byte) /\ Len(Slice(header, i, t)) = t - i
            /\ \A j \in 1 .. t - i : Slice(header, i, t)[j] = header[i + j]
      <4>1. header \in Seq(Byte)
        BY <1>1
      <4> QED BY <4>1, SliceIs, Zenon
    <3> QED BY <1>5, <2>1, <3>1
  <2> QED BY <2>1, <2>2 DEF to
<1>7. ParseFve(header).id = id
  BY <1>4 DEF Found
<1> HIDE DEF id, k
<1>8. \E j \in 1 .. Fve.size : id[j] # 0
  <2> SUFFICES ASSUME \A j \in 1 .. Fve.size : id[j] = 0 PROVE FALSE
    OBVIOUS
  <2>1. id = [j \in 1 .. Fve.size |-> id[j]]
    BY <1>6
  <2> QED BY <1>4, <2>1
<1> QED BY <1>5, <1>6, <1>7, <1>8

\* A header that starts in its sector.
LEMMA HeldWhole ==
  ASSUME NEW d, NEW s \in Int, d[s] \in Sector, 0 \in FvePositions(d[s]),
         ParseFve(d[s]).reason = "OK"
  PROVE  LET id == ParseFve(d[s]).id IN
         Len(id) = Fve.size /\ (\E j \in 1 .. Fve.size : id[j] # 0) /\ OnMedium(d, s, id)
<1> DEFINE id == ParseFve(d[s]).id
<1>1. d[s] \in [1 .. S -> Byte]
  BY SectorAssumption
<1>2. /\ Len(id) = Fve.size /\ \E j \in 1 .. Fve.size : id[j] # 0
      /\ \E k \in Fve.min + Fve.idAt .. S - Fve.size :
           \A j \in 1 .. Fve.size : id[j] = d[s][k + j]
  BY <1>1, ParseFveFinds
<1> HIDE DEF id
<1>3. PICK k \in Fve.min + Fve.idAt .. S - Fve.size :
        \A j \in 1 .. Fve.size : id[j] = d[s][k + j]
  BY <1>2
<1>4. /\ S \in Nat /\ Fve.min \in Nat /\ Fve.idAt \in Nat /\ Fve.size \in Nat
  BY SectorAssumption, FormatAssumption
<1>5. Holds(d, s, 0 + k, id)
  <2> SUFFICES ASSUME NEW j \in 1 .. Fve.size
               PROVE  /\ 0 + k + j - 1 < S
                      /\ d[s][(0 + k + j - 1) + 1] = id[j]
    BY <1>2 DEF Holds
  <2>1. 0 + k + j - 1 < S /\ (0 + k + j - 1) + 1 = k + j
    BY <1>4
  <2> QED BY <1>3, <2>1
<1>6. OnMedium(d, s, id)
  BY <1>5 DEF OnMedium
<1> QED BY <1>2, <1>6 DEF id

\* The bytes of a header that goes on in the next sector.
LEMMA AlignedIs ==
  ASSUME NEW sector \in Sector, NEW next \in Sector, FvePositions(sector) # {}
  PROVE  LET first == Min(FvePositions(sector)) IN
         /\ first \in FvePositions(sector) /\ first \in Nat /\ first <= S
         /\ Aligned(sector, next) \in [1 .. S -> Byte]
         /\ \A j \in 1 .. S : Aligned(sector, next)[j] =
              IF j <= S - first THEN sector[first + j] ELSE next[j - (S - first)]
<1> DEFINE first == Min(FvePositions(sector))
           tail == Slice(sector, first, Len(sector))
<1>1. /\ sector \in Seq(Byte) /\ Len(sector) = S /\ next \in Seq(Byte) /\ Len(next) = S
      /\ S \in Nat /\ Fve.sig \in Seq(Byte) /\ Len(Fve.sig) \in Nat
  BY SectorAssumption, FormatAssumption
<1>2. FvePositions(sector) \in SUBSET Nat /\ \A i \in FvePositions(sector) : i <= S
  BY <1>1 DEF FvePositions, Positions
<1>3. first \in FvePositions(sector) /\ first \in Nat /\ first <= S
  BY <1>2, SmallestPosition
<1> HIDE DEF first
<1>4. /\ tail \in Seq(Byte) /\ Len(tail) = S - first
      /\ \A j \in 1 .. S - first : tail[j] = sector[first + j]
  <2>1. \A i, t \in Nat : i <= t /\ t <= Len(sector) =>
          /\ Slice(sector, i, t) \in Seq(Byte) /\ Len(Slice(sector, i, t)) = t - i
          /\ \A j \in 1 .. t - i : Slice(sector, i, t)[j] = sector[i + j]
    <3>1. sector \in Seq(Byte)
      BY <1>1
    <3> QED BY <3>1, SliceIs, Zenon
  <2> QED BY <1>1, <1>3, <2>1
<1> HIDE DEF tail
<1> DEFINE data == tail \o next
<1>5. /\ data \in Seq(Byte) /\ Len(data) = (S - first) + S
      /\ \A j \in 1 .. (S - first) + S :
           data[j] = IF j <= S - first THEN tail[j] ELSE next[j - (S - first)]
  <2>1. tail \in Seq(Byte) /\ next \in Seq(Byte)
    BY <1>1, <1>4
  <2>2. /\ data \in Seq(Byte) /\ Len(data) = Len(tail) + Len(next)
        /\ \A j \in 1 .. Len(tail) + Len(next) :
             data[j] = IF j <= Len(tail) THEN tail[j] ELSE next[j - Len(tail)]
    BY <2>1, ConcatProperties, Zenon
  <2> HIDE DEF data
  <2> QED BY <1>1, <1>4, <2>2
<1> HIDE DEF data
<1>6. /\ Slice(data, 0, S) \in Seq(Byte) /\ Len(Slice(data, 0, S)) = S
      /\ \A j \in 1 .. S : Slice(data, 0, S)[j] = data[j]
  <2>1. \A i, t \in Nat : i <= t /\ t <= Len(data) =>
          /\ Slice(data, i, t) \in Seq(Byte) /\ Len(Slice(data, i, t)) = t - i
          /\ \A j \in 1 .. t - i : Slice(data, i, t)[j] = data[i + j]
    <3>1. data \in Seq(Byte)
      BY <1>5
    <3> QED BY <3>1, SliceIs, Zenon
  <2>2. 0 \in Nat /\ 0 <= S /\ S <= Len(data)
    BY <1>1, <1>3, <1>5
  <2>3. /\ Slice(data, 0, S) \in Seq(Byte) /\ Len(Slice(data, 0, S)) = S - 0
        /\ \A j \in 1 .. S - 0 : Slice(data, 0, S)[j] = data[0 + j]
    BY <1>1, <2>1, <2>2
  <2> QED BY <1>1, <2>3
<1>7. Aligned(sector, next) = Slice(data, 0, S)
  BY DEF Aligned, data, tail, first
<1>8. \A j \in 1 .. S : Aligned(sector, next)[j] =
        IF j <= S - first THEN sector[first + j] ELSE next[j - (S - first)]
  <2> SUFFICES ASSUME NEW j \in 1 .. S
               PROVE  data[j] = IF j <= S - first THEN sector[first + j]
                                ELSE next[j - (S - first)]
    BY <1>6, <1>7
  <2>1. j \in 1 .. (S - first) + S
    BY <1>1, <1>3
  <2>2. j <= S - first => tail[j] = sector[first + j]
    BY <1>1, <1>3, <1>4
  <2> QED BY <1>5, <2>1, <2>2
<1>9. Aligned(sector, next) \in [1 .. S -> Byte]
  <2> DEFINE header == Slice(data, 0, S)
  <2>1. header \in Seq(Byte) /\ Len(header) = S
    BY <1>6
  <2> HIDE DEF header
  <2>2. header \in [1 .. S -> Byte]
    BY <2>1
  <2> QED BY <1>7, <2>2 DEF header
<1> QED BY <1>3, <1>8, <1>9 DEF first

LEMMA HeldAcross ==
  ASSUME NEW d, NEW s \in Int, d[s] \in Sector, d[s + 1] \in Sector, Readable(d, s + 1),
         FvePositions(d[s]) # {}, ParseFve(Aligned(d[s], d[s + 1])).reason = "OK"
  PROVE  LET id == ParseFve(Aligned(d[s], d[s + 1])).id IN
         Len(id) = Fve.size /\ (\E j \in 1 .. Fve.size : id[j] # 0) /\ OnMedium(d, s, id)
<1> DEFINE header == Aligned(d[s], d[s + 1])
           first == Min(FvePositions(d[s]))
           id == ParseFve(header).id
<1>1. /\ first \in FvePositions(d[s]) /\ first \in Nat /\ first <= S
      /\ header \in [1 .. S -> Byte]
      /\ \A j \in 1 .. S : header[j] =
           IF j <= S - first THEN d[s][first + j] ELSE d[s + 1][j - (S - first)]
  BY AlignedIs
<1> HIDE DEF header, first
<1>2. /\ Len(id) = Fve.size /\ \E j \in 1 .. Fve.size : id[j] # 0
      /\ \E k \in Fve.min + Fve.idAt .. S - Fve.size :
           \A j \in 1 .. Fve.size : id[j] = header[k + j]
  BY <1>1, ParseFveFinds DEF header
<1> HIDE DEF id
<1>3. PICK k \in Fve.min + Fve.idAt .. S - Fve.size :
        \A j \in 1 .. Fve.size : id[j] = header[k + j]
  BY <1>2
<1>4. /\ S \in Nat /\ Fve.min \in Nat /\ Fve.idAt \in Nat /\ Fve.size \in Nat
  BY SectorAssumption, FormatAssumption
<1>5. Holds(d, s, first + k, id)
  <2> SUFFICES ASSUME NEW j \in 1 .. Fve.size
               PROVE  LET b == first + k + j - 1 IN
                      IF b < S THEN d[s][b + 1] = id[j]
                      ELSE Readable(d, s + 1) /\ d[s + 1][b - S + 1] = id[j]
    BY <1>2 DEF Holds
  <2>1. /\ k + j \in 1 .. S /\ (first + k + j - 1) + 1 = first + (k + j)
        /\ (first + k + j - 1) - S + 1 = (k + j) - (S - first)
        /\ (first + k + j - 1 < S) <=> (k + j <= S - first)
    <3>1. k \in Nat /\ k + Fve.size <= S /\ j \in Nat /\ 1 <= j /\ j <= Fve.size
      BY <1>4
    <3>2. k + j \in Nat /\ 1 <= k + j /\ k + j <= S
      BY <1>4, <3>1
    <3>3. first \in Nat /\ S \in Nat
      BY <1>1, <1>4
    <3> QED BY <3>1, <3>2, <3>3
  <2>2. id[j] = IF k + j <= S - first THEN d[s][first + (k + j)]
                ELSE d[s + 1][(k + j) - (S - first)]
    BY <1>1, <1>3, <2>1
  <2> QED BY <2>1, <2>2
<1>6. OnMedium(d, s, id)
  BY <1>1, <1>5 DEF OnMedium
<1> QED BY <1>2, <1>6 DEF id, header

Whole(id) == Len(id) = Fve.size /\ \E j \in 1 .. Fve.size : id[j] # 0

Placed(id, d, s) ==
  s \in offset .. offset + Window - 1 /\ Readable(d, s) /\ OnMedium(d, s, id)

LEMMA SearchOnTheMedium ==
  ASSUME IInv, FveIsOnTheMedium, Scan \/ Find \/ Splice \/ FveFails
  PROVE  FveIsOnTheMedium'
<1> USE DEF FveIsOnTheMedium
<1>1. /\ offset \in Nat /\ Window \in Nat /\ at \in Int /\ offset <= at
      /\ disk \in Medium /\ old \in Medium
  BY SizeAssumption DEF IInv, TypeOK
<1>2. \A d \in Medium : \A s : Readable(d, s) => d[s] \in Sector /\ s \in Int
  BY SizeAssumption DEF Medium, Readable
<1>3. ASSUME NEW outcome, Finish("fve", outcome), UNCHANGED <<disk, dev, offset, old, changes>>,
             changes <= 1 /\ outcome.reason = "OK" =>
               /\ Whole(outcome.id)
               /\ \E d \in {old, disk}, s \in Int : Placed(outcome.id, d, s)
      PROVE  FveIsOnTheMedium'
  <2>1. out'.fve = outcome
    BY <1>3 DEF Finish, IInv, TypeOK, Reader
  <2>2. \A id, d, s : OnMedium(d, s, id) <=> OnMedium(d, s, id)'
    OBVIOUS
  <2> QED BY <1>3, <2>1, <2>2 DEF Whole, Placed
<1>4. CASE Scan
  BY <1>4 DEF Scan
<1>5. CASE Find
  <2>1. at < offset + Window /\ Readable(disk, at) /\ disk[at] \in Sector
    BY <1>1, <1>2, <1>5 DEF Find, Unreadable
  <2>2. CASE 0 \in FvePositions(disk[at])
    <3> DEFINE outcome == ParseFve(disk[at])
    <3>1. outcome.reason = "OK" => Whole(outcome.id) /\ Placed(outcome.id, disk, at)
      BY <1>1, <2>1, <2>2, HeldWhole DEF Whole, Placed
    <3>2. Finish("fve", outcome) /\ UNCHANGED <<disk, dev, offset, old, changes>>
      BY <1>5, <2>2 DEF Find
    <3> HIDE DEF outcome
    <3> QED BY <1>1, <1>3, <3>1, <3>2
  <2>3. CASE 0 \notin FvePositions(disk[at])
    BY <1>5, <2>3 DEF Find
  <2> QED BY <2>2, <2>3
<1>6. CASE Splice
  <2> DEFINE first == at - 1
             outcome == ParseFve(Aligned(found, disk[at]))
  <2>1. /\ first \in offset .. offset + Window - 1 /\ first + 1 = at /\ first \in Int
        /\ found \in Sector /\ FvePositions(found) # {}
        /\ changes <= 1 => \/ /\ Same(disk, old, at)
                              /\ first \in DOMAIN old /\ old[first] = found
                           \/ first \in DOMAIN disk /\ disk[first] = found
    BY <1>1, <1>6, SizeAssumption DEF IInv, TypeOK, Halfway, Splice
  <2>2. Readable(disk, at) /\ disk[at] \in Sector
    BY <1>1, <1>2, <1>6 DEF Splice, Unreadable
  <2>3. ASSUME NEW d, first \in DOMAIN d, d[first] = found, Readable(d, at), d[at] = disk[at],
               outcome.reason = "OK"
        PROVE  Whole(outcome.id) /\ Placed(outcome.id, d, first)
    <3>1. /\ d[first] \in Sector /\ d[first + 1] \in Sector /\ Readable(d, first + 1)
          /\ FvePositions(d[first]) # {}
          /\ outcome = ParseFve(Aligned(d[first], d[first + 1]))
      BY <2>1, <2>2, <2>3
    <3>2. Readable(d, first)
      BY <2>1, <2>3, SectorAssumption DEF Readable
    <3> HIDE DEF first
    <3> QED BY <2>1, <2>3, <3>1, <3>2, HeldAcross DEF Whole, Placed
  <2>4. Same(disk, old, at) => Readable(old, at) /\ old[at] = disk[at]
    BY <1>1, <2>2 DEF Same, Readable, IInv, TypeOK
  <2>5. changes <= 1 /\ outcome.reason = "OK" =>
          /\ Whole(outcome.id)
          /\ \E d \in {old, disk}, s \in Int : Placed(outcome.id, d, s)
    <3> HIDE DEF first, outcome
    <3> QED BY <2>1, <2>2, <2>3, <2>4
  <2>6. Finish("fve", outcome) /\ UNCHANGED <<disk, dev, offset, old, changes>>
    BY <1>6 DEF Splice
  <2> HIDE DEF outcome
  <2> QED BY <1>3, <2>5, <2>6
<1>7. CASE FveFails
  <2>1. \A reason : Fails(reason).reason = reason
    BY DEF Fails
  <2>2. dev # "there" => OpenFails.reason # "OK"
    BY OpenReasons DEF IInv, TypeOK
  <2>3. PICK outcome : /\ Finish("fve", outcome) /\ outcome.reason # "OK"
                       /\ UNCHANGED <<disk, dev, offset, old, changes>>
    BY <1>7, <2>1, <2>2 DEF FveFails
  <2> QED BY <1>3, <2>3
<1> QED BY <1>4, <1>5, <1>6, <1>7

LEMMA OthersOnTheMedium ==
  ASSUME IInv, FveIsOnTheMedium, ReadNtfs \/ ReadLuks \/ ReadExt4 \/ ReadSwap \/ Write \/ Unplug
  PROVE  FveIsOnTheMedium'
<1> USE DEF FveIsOnTheMedium
<1>1. CASE Write
  <2>1. changes' <= 1 => changes <= 1 /\ disk = old
    BY <1>1 DEF IInv, TypeOK, Write
  <2> QED BY <1>1, <2>1 DEF Write
<1>2. CASE Unplug
  BY <1>2 DEF Unplug
<1>3. ASSUME NEW r \in Reader \ {"fve"}, NEW outcome, Finish(r, outcome),
             UNCHANGED <<disk, dev, offset, old, changes>>
      PROVE  FveIsOnTheMedium'
  <2>1. out'.fve = out.fve
    BY <1>3 DEF Finish, IInv, TypeOK, Reader
  <2> QED BY <1>3, <2>1
<1>4. CASE ReadNtfs \/ ReadLuks \/ ReadExt4 \/ ReadSwap
  <2>1. \E r \in Reader \ {"fve"} : \E outcome :
          Finish(r, outcome) /\ UNCHANGED <<disk, dev, offset, old, changes>>
    BY <1>4 DEF ReadNtfs, ReadLuks, ReadExt4, ReadSwap, ReadOnce, Reader
  <2> QED BY <1>3, <2>1
<1> QED BY <1>1, <1>2, <1>4

-----------------------------------------------------------------------------
(* Theorems.                                                               *)

\* Every reader ends with an identifier or one of the reason codes, and the
\* search for an FVE header never leaves its window.
THEOREM TypeCorrect == Spec => []TypeOK
<1>1. IInv => TypeOK
  BY DEF IInv
<1> QED BY <1>1, InvariantHolds, PTL

\* What the search for an FVE header returns is what the device held when the
\* call began or what it holds now, if no more than one sector changed.
THEOREM SearchIsOldOrNew == Spec => []FveIsOldOrNew
<1>1. IInv => FveIsOldOrNew
  BY DEF IInv
<1> QED BY <1>1, InvariantHolds, PTL

\* An identifier that is reported absent is: no failed read, unknown version or
\* damaged header looks like its absence.
THEOREM AbsenceHolds == Spec => []AbsenceHasACause
<1>1. Init => AbsenceHasACause
  <2> SUFFICES ASSUME Init, NEW r \in Reader \ {"swap"} PROVE ~ Absent(r, out[r])
    BY DEF AbsenceHasACause
  <2>1. out[r].reason = ""
    BY InitPending
  <2> QED BY <2>1 DEF Absent, Reader
<1>2. IInv /\ AbsenceHasACause /\ [Next]_vars => AbsenceHasACause'
  <2> SUFFICES ASSUME IInv, AbsenceHasACause, [Next]_vars PROVE AbsenceHasACause'
    OBVIOUS
  <2>1. CASE Done \/ UNCHANGED vars
    BY <2>1, AbsenceStays DEF Done, vars
  <2> QED BY <2>1, ReadersAbsence, SearchAbsence, WorldAbsence DEF Next
<1> QED BY <1>1, <1>2, InvariantHolds, PTL DEF Spec

\* An FVE identifier is read whole from behind a signature of the window, also
\* where its header runs into the next sector.
THEOREM IdentifierIsOnTheMedium == Spec => []FveIsOnTheMedium
<1>1. Init => FveIsOnTheMedium
  BY InitPending DEF FveIsOnTheMedium, Reader
<1>2. IInv /\ FveIsOnTheMedium /\ [Next]_vars => FveIsOnTheMedium'
  <2> SUFFICES ASSUME IInv, FveIsOnTheMedium, [Next]_vars PROVE FveIsOnTheMedium'
    OBVIOUS
  <2>1. CASE Done \/ UNCHANGED vars
    BY <2>1 DEF Done, vars, FveIsOnTheMedium
  <2> QED BY <2>1, SearchOnTheMedium, OthersOnTheMedium DEF Next
<1> QED BY <1>1, <1>2, InvariantHolds, PTL DEF Spec

=============================================================================
