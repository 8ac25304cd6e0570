----------------------------- MODULE RawSectors -----------------------------
(***************************************************************************)
(* Reading identifiers from the sectors of a device while it is in use     *)
(* (source/crypto/raw/__init__.py): get_volume_identifiers_raw and the     *)
(* readers it calls, of which _raw_observations_windows and                *)
(* _raw_observations_linux in source/volume_verifier.py call some.         *)
(*                                                                         *)
(* The formats are constants, with the offsets the code has for them.  A   *)
(* multi-byte number of a header is one byte here; an identifier is its    *)
(* bytes, whatever text they are printed as.                               *)
(***************************************************************************)
EXTENDS Integers, Sequences, FiniteSetsExt

CONSTANTS
  S,          \* bytes of a sector (512)
  Byte,       \* numbers, 0 among them
  Sector,     \* the sectors a medium may hold: sequences of S bytes
  Bad,        \* a sector that cannot be read
  Size,       \* sizes of media, in sectors
  Offset,     \* the partition offsets a caller may give
  Window,     \* max_search_sectors (64)
  Ntfs,       \* signature sig at sigAt, identifier of size bytes at idAt
  Fve,        \* signature sig, offset of the metadata at field, at least min,
              \* in the metadata an identifier of size bytes at idAt
  Luks,       \* signature sig, version at field, version -> idAt, size, of a
              \* header of length bytes
  Ext4,       \* signature sig at sigAt, identifier of size bytes at idAt, of a
              \* superblock of length bytes at start
  SwapSig,    \* SWAP_SIGNATURES
  MaxChanges  \* bound: sectors written while one call reads

ASSUME SectorAssumption ==
  /\ S \in Nat \ {0} /\ Byte \subseteq Nat
  /\ Sector \subseteq [1 .. S -> Byte] /\ Bad \notin Sector
ASSUME SizeAssumption == Size \subseteq Nat /\ Offset \subseteq Nat /\ Window \in Nat
ASSUME FormatAssumption ==
  /\ {Fve.sig, Luks.sig, Ext4.sig} \subseteq Seq(Byte)
  /\ Fve.field \in 0 .. S - 1 /\ {Fve.min, Fve.idAt, Fve.size} \subseteq Nat
  /\ {Luks.length, Ext4.start, Ext4.length, Ext4.sigAt} \subseteq Nat
  /\ Len(Luks.sig) <= Luks.length /\ Ext4.sigAt + Len(Ext4.sig) <= Ext4.length

VARIABLES
  disk,     \* sector number -> what it holds
  dev,      \* "there", or why it cannot be opened
  offset,   \* the caller's partition_offset
  reader,   \* the reader that runs: "ntfs", "fve", ..., "done"
  at,       \* find_fve_header: the sector it is to read
  found,    \* find_fve_header: the sector with a signature that is not at its start
  out,      \* reader -> its outcome
  old,      \* history: the medium the call began with
  changes   \* history: how many sectors were written since

vars == <<disk, dev, offset, reader, at, found, out, old, changes>>

Reader == {"ntfs", "fve", "luks", "ext4", "swap"}
Pending == [reason |-> "", id |-> <<>>]
Found(id) == [reason |-> "OK", id |-> id]
Fails(reason) == [reason |-> reason, id |-> <<>>]

-----------------------------------------------------------------------------
(* Bytes.                                                                  *)

\* data[from:to] in Python, which ends where data ends.
Slice(data, from, to) == SubSeq(data, from + 1, Min({to, Len(data)}))

Positions(sig, data) ==
  {i \in 0 .. Len(data) - Len(sig) : Slice(data, i, i + Len(sig)) = sig}

Readable(d, s) == s \in DOMAIN d /\ d[s] # Bad

\* read_at: length bytes from byte p, which may not all be there.
AllThere(d, p, length) == \A b \in p .. p + length - 1 : Readable(d, b \div S)
Bytes(d, p, length) ==
  [j \in 1 .. length |-> d[(p + j - 1) \div S][((p + j - 1) % S) + 1]]

-----------------------------------------------------------------------------
(* Headers.                                                                *)

\* parse_ntfs_vbr and parse_ext4_superblock, of headers that are as long as
\* they should be.
Parse(format, data) ==
  IF Slice(data, format.sigAt, format.sigAt + Len(format.sig)) # format.sig
    THEN Fails("UNSUPPORTED_FS")
    ELSE Found(Slice(data, format.idAt, format.idAt + format.size))

\* Mutant: the header's end is not looked at.
ParseFveUnbounded(header) ==
  LET metadata == Max({header[Fve.field + 1], Fve.min})
      id == Slice(header, metadata + Fve.idAt, metadata + Fve.idAt + Fve.size)
  IN  IF id = [j \in 1 .. Fve.size |-> 0] THEN Fails("INVALID_SIGNATURE") ELSE Found(id)

\* parse_fve_volume_id.
ParseFve(header) ==
  LET metadata == Max({header[Fve.field + 1], Fve.min})
      id == Slice(header, metadata + Fve.idAt, metadata + Fve.idAt + Fve.size)
  IN  IF Len(header) < metadata + Fve.idAt + Fve.size THEN Fails("STORE_CORRUPTED")
      ELSE IF id = [j \in 1 .. Fve.size |-> 0] THEN Fails("INVALID_SIGNATURE")
      ELSE Found(id)

\* Mutant: an unknown version is reported as no LUKS device.
ParseLuksOneReason(header) ==
  LET version == header[Luks.field + 1] IN
  IF Slice(header, 0, Len(Luks.sig)) # Luks.sig \/ version \notin DOMAIN Luks.idAt
    THEN Fails("INVALID_SIGNATURE")
    ELSE Found(Slice(header, Luks.idAt[version], Luks.idAt[version] + Luks.size))

\* parse_luks_header.
ParseLuks(header) ==
  LET version == header[Luks.field + 1] IN
  IF Slice(header, 0, Len(Luks.sig)) # Luks.sig THEN Fails("INVALID_SIGNATURE")
  ELSE IF version \notin DOMAIN Luks.idAt THEN Fails("UNSUPPORTED_FS")
  ELSE Found(Slice(header, Luks.idAt[version], Luks.idAt[version] + Luks.size))

\* The signatures find_fve_header sees: those within one sector.
FvePositions(sector) == Positions(Fve.sig, sector)

\* A header that is not at the start of its sector goes on in the next.
Aligned(sector, next) ==
  LET first == Min(FvePositions(sector)) IN
  Slice(Slice(sector, first, Len(sector)) \o next, 0, S)

-----------------------------------------------------------------------------
(* One call.                                                               *)

After == [ntfs |-> "fve", fve |-> "luks", luks |-> "ext4", ext4 |-> "swap", swap |-> "done"]

Finish(r, outcome) ==
  /\ out' = [out EXCEPT ![r] = outcome]
  /\ reader' = After[r] /\ at' = offset /\ found' = <<>>

\* open_raw_device: "device not found" has the reason code of a header that
\* is not found.
OpenFails ==
  CASE dev = "denied" -> Fails("INSUFFICIENT_PRIVILEGES")
    [] dev = "gone" -> Fails("VOLUME_QUERY_FAILED")
    [] dev = "failing" -> Fails("READ_FAILED")

Medium == UNION {[0 .. n - 1 -> Sector \cup {Bad}] : n \in Size}

Init ==
  /\ disk \in Medium /\ old = disk /\ changes = 0
  /\ dev \in {"there", "denied", "gone", "failing"}
  /\ offset \in Offset /\ at = offset
  /\ reader = "ntfs" /\ found = <<>>
  /\ out = [r \in Reader |-> Pending]

\* A reader that opens the device and reads once.
ReadOnce(r, readable, parsed) ==
  /\ reader = r
  /\ Finish(r, IF dev # "there" THEN OpenFails
               ELSE IF readable THEN parsed ELSE Fails("READ_FAILED"))
  /\ UNCHANGED <<disk, dev, offset, old, changes>>

\* partition_offset counts sectors for NTFS and FVE, and bytes for ext4 and
\* swap; LUKS is looked for at the start of the device.
ReadNtfs == ReadOnce("ntfs", Readable(disk, offset), Parse(Ntfs, disk[offset]))
ReadLuks ==
  ReadOnce("luks", AllThere(disk, 0, Luks.length), ParseLuks(Bytes(disk, 0, Luks.length)))
ReadExt4 ==
  LET start == offset + Ext4.start IN
  ReadOnce("ext4", AllThere(disk, start, Ext4.length),
           Parse(Ext4, Bytes(disk, start, Ext4.length)))

\* is_swap_partition: what cannot be read is no swap.
ReadSwap ==
  /\ reader = "swap"
  /\ Finish("swap",
       IF /\ dev = "there" /\ AllThere(disk, offset, Ext4.length)
          /\ \E sig \in SwapSig : Positions(sig, Bytes(disk, offset, Ext4.length)) # {}
       THEN Found(<<>>) ELSE Fails("UNSUPPORTED_FS"))
  /\ UNCHANGED <<disk, dev, offset, old, changes>>

\* The file is open from the first sector on; a device that is gone by then
\* cannot be read.
Unreadable == dev # "there" \/ ~ Readable(disk, at)

\* Mutant: a sector more than the window has.
ScanFurther ==
  /\ reader = "fve" /\ at <= offset + Window /\ ~ Unreadable
  /\ FvePositions(disk[at]) = {}
  /\ at' = at + 1
  /\ UNCHANGED <<disk, dev, offset, reader, found, out, old, changes>>

\* Mutant: what cannot be read is passed over.
ScanOn ==
  /\ reader = "fve" /\ at < offset + Window /\ (at = offset => dev = "there")
  /\ ~ Unreadable => FvePositions(disk[at]) = {}
  /\ at' = at + 1
  /\ UNCHANGED <<disk, dev, offset, reader, found, out, old, changes>>

\* find_fve_header, one sector at a time.
Scan ==
  /\ reader = "fve" /\ at < offset + Window /\ ~ Unreadable
  /\ FvePositions(disk[at]) = {}
  /\ at' = at + 1
  /\ UNCHANGED <<disk, dev, offset, reader, found, out, old, changes>>

Find ==
  /\ reader = "fve" /\ at < offset + Window /\ ~ Unreadable
  /\ FvePositions(disk[at]) # {}
  /\ IF 0 \in FvePositions(disk[at])
       THEN Finish("fve", ParseFve(disk[at]))
       ELSE /\ reader' = "splice" /\ found' = disk[at] /\ at' = at + 1
            /\ UNCHANGED out
  /\ UNCHANGED <<disk, dev, offset, old, changes>>

Splice ==
  /\ reader = "splice" /\ ~ Unreadable
  /\ Finish("fve", ParseFve(Aligned(found, disk[at])))
  /\ UNCHANGED <<disk, dev, offset, old, changes>>

FveFails ==
  /\ \/ /\ reader = "fve" /\ at = offset + Window
        /\ Finish("fve", Fails("VOLUME_QUERY_FAILED"))
     \/ /\ reader = "fve" /\ at < offset + Window /\ Unreadable
        /\ Finish("fve", IF at = offset /\ dev # "there" THEN OpenFails ELSE Fails("READ_FAILED"))
     \/ /\ reader = "splice" /\ Unreadable
        /\ Finish("fve", Fails("READ_FAILED"))
  /\ UNCHANGED <<disk, dev, offset, old, changes>>

\* Another program writes a sector, or a sector goes bad.
Write ==
  /\ reader # "done" /\ changes < MaxChanges /\ changes' = changes + 1
  /\ \E s \in DOMAIN disk, c \in Sector \cup {Bad} : disk' = [disk EXCEPT ![s] = c]
  /\ UNCHANGED <<dev, offset, reader, at, found, out, old>>

Unplug ==
  /\ reader # "done" /\ dev = "there" /\ dev' = "gone"
  /\ UNCHANGED <<disk, offset, reader, at, found, out, old, changes>>

Done == reader = "done" /\ UNCHANGED vars

Next ==
  \/ ReadNtfs \/ Scan \/ Find \/ Splice \/ FveFails \/ ReadLuks \/ ReadExt4 \/ ReadSwap
  \/ Write \/ Unplug \/ Done

Spec == Init /\ [][Next]_vars

-----------------------------------------------------------------------------
(* Properties.                                                             *)

Reason == {"OK", "UNSUPPORTED_FS", "STORE_CORRUPTED", "INVALID_SIGNATURE",
           "READ_FAILED", "VOLUME_QUERY_FAILED", "INSUFFICIENT_PRIVILEGES"}

\* Every reader that has run has an identifier or one of the reason codes, and
\* the search keeps to its window.
TypeOK ==
  /\ disk \in Medium /\ old \in Medium /\ DOMAIN disk = DOMAIN old
  /\ dev \in {"there", "denied", "gone", "failing"}
  /\ offset \in Offset /\ at \in offset .. offset + Window
  /\ reader \in Reader \cup {"splice", "done"}
  /\ found \in Sector \cup {<<>>} /\ changes \in Nat
  /\ DOMAIN out = Reader
  /\ \A r \in Reader : out[r] = Pending \/ out[r].reason \in Reason

\* What find_fve_header and parse_fve_volume_id say of a medium d that does
\* not change: the first sector of the window that stops the search decides.
Stops(d, s) == ~ Readable(d, s) \/ FvePositions(d[s]) # {}
FveAt(d, s) ==
  IF ~ Readable(d, s) THEN Fails("READ_FAILED")
  ELSE IF 0 \in FvePositions(d[s]) THEN ParseFve(d[s])
  ELSE IF Readable(d, s + 1) THEN ParseFve(Aligned(d[s], d[s + 1]))
  ELSE Fails("READ_FAILED")
FveOf(d) ==
  LET stops == {s \in offset .. offset + Window - 1 : Stops(d, s)} IN
  IF stops = {} THEN Fails("VOLUME_QUERY_FAILED") ELSE FveAt(d, Min(stops))

\* The search reads sector by sector from a device in use.  With one sector
\* written meanwhile it still returns what the medium held before or holds
\* now, never a mixture of the two; with two it may.
FveIsOldOrNew ==
  changes <= 1 /\ out.fve # Pending =>
    \/ out.fve \in {FveOf(old), FveOf(disk)}
    \/ dev # "there" /\ out.fve.reason \in {"READ_FAILED", OpenFails.reason}

\* That d holds nothing reader r would recognise, where all of it can be read.
Lacks(r, d) ==
  CASE r = "ntfs" ->
         Readable(d, offset) /\ Ntfs.sigAt \notin Positions(Ntfs.sig, d[offset])
    [] r = "fve" -> \A s \in offset .. offset + Window - 1 : ~ Stops(d, s)
    [] r = "luks" ->
         /\ AllThere(d, 0, Luks.length)
         /\ Bytes(d, 0, Len(Luks.sig)) # Luks.sig
    [] r = "ext4" ->
         /\ AllThere(d, offset + Ext4.start, Ext4.length)
         /\ Bytes(d, offset + Ext4.start + Ext4.sigAt, Len(Ext4.sig)) # Ext4.sig

\* What _raw_observations_windows and _raw_observations_linux take for honest
\* absence of an identifier: the reason is all they look at, since "not found"
\* is in the detail of each of its VOLUME_QUERY_FAILED errors.
Absent(r, o) ==
  \/ r \in {"ntfs", "ext4"} /\ o.reason = "UNSUPPORTED_FS"
  \/ r = "fve" /\ o.reason = "VOLUME_QUERY_FAILED"
  \/ r = "luks" /\ o.reason = "INVALID_SIGNATURE"

\* An identifier that is there is never reported as absent because of a read
\* that failed, a version that is not known or a header that is damaged; but
\* the FVE header of a device that is gone is.
AbsenceHasACause ==
  changes <= 1 =>
    \A r \in Reader \ {"swap"} :
      Absent(r, out[r]) => \/ \E d \in {old, disk} : Lacks(r, d)
                           \/ r = "fve" /\ dev = "gone"

\* Where the bytes id are on d, from byte i of sector s on.
Holds(d, s, i, id) ==
  \A j \in 1 .. Len(id) : LET b == i + j - 1 IN
    IF b < S THEN d[s][b + 1] = id[j]
    ELSE Readable(d, s + 1) /\ d[s + 1][b - S + 1] = id[j]

OnMedium(d, s, id) ==
  \E i \in FvePositions(d[s]), j \in Fve.min + Fve.idAt .. S - Fve.size : Holds(d, s, i + j, id)

\* An FVE identifier is a whole one, is not all zeros, and is on the medium
\* behind a signature and within a sector's length from it, also where the
\* header runs into the next sector.
FveIsOnTheMedium ==
  changes <= 1 /\ out.fve.reason = "OK" =>
    /\ Len(out.fve.id) = Fve.size /\ \E j \in 1 .. Fve.size : out.fve.id[j] # 0
    /\ \E d \in {old, disk}, s \in offset .. offset + Window - 1 :
         Readable(d, s) /\ OnMedium(d, s, out.fve.id)

=============================================================================
