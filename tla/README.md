# Volume Verifier: specifications and proofs

`volume_verifier.py` binds the *identity* of a disk volume to a fingerprint
kept in a protected file, the identity store. `--register` observes the volume
and writes its identity down; without it, the program observes the volume again
and answers `PASS`, `DENY` or `ERROR`. This directory holds TLA+ modules of that
program, configurations that TLC checks, and theorems that TLAPS proves.

Line numbers refer to `source/volume_verifier.py` (V) and
`source/crypto/raw/__init__.py` (R).

## The system

| Component | State | Operations | What is hard |
|---|---|---|---|
| Identity store file (V 805-1014, 1068-1090) | the file `<store>`, its `<store>.tmp` | `_load_store`, `_load_store_for_register`, `_migrate_legacy_entries`, `_save_store` | several processes, no lock, one name for every temporary file, the end of a process between two file operations, a v1 store read twice; fields that are missing, of another type, of another version |
| Registration and verification (V 1017-1154) | none of its own: entry, observations and verdict of one call | `register_volume`, `verify_volume`, `_corroborate`, fingerprints | five to ten queries, any of which fails; the volume changes between two of them |
| API evidence (V 189-535) | none | `Get-Volume`, `manage-bde`, `findmnt`, `lsblk`, `cryptsetup` | what is absence, what is failure |
| Raw evidence (V 545-645, R 574-602) | none | sector reads per filesystem | privileges, missing devices, the mapper instead of its medium |
| Sector parsers (R 36-393) | none: where the search is | NTFS, FVE, LUKS, ext4, swap | a device in use; signatures and identifiers at the end of what was read; absence, failure and unknown versions by reason codes |
| Shamir sharing (R 395-540) | none: the holders' shares | GF(256), split, reconstruct; no caller in the program | too few shares, twice the same, a wrong one; what one share tells |
| DPAPI binding (V 738-803) | none | protect, unprotect | available on Windows only, one user on one machine |
| Command line (V 1161-1236) | none | options, exit code | exit codes differ from README's table |

The command line calls `register_volume` or `verify_volume`. Both call the
platform's source for the API channel, with `--raw` the raw channel, and the
store. Invocations share nothing but the store file and the volume. There are no
threads and no callbacks inside a process: what interleaves is *processes* around
the file, and *the machine* (mounts, encryption, another medium) around the
queries of one invocation. The specifications follow this division.

What makes each component correct:

* store: the file under its name is always a whole store; a registration
  changes one entry; protection is never lost; an answer is that of one store;
  an invocation ends;
* registration and verification: `PASS` means the registered volume, and the
  registered volume is not denied; `RAW` is earned; what is registered is true of
  the volume; a conflict has a cause; nothing passes across platforms; an
  exception of the comparison hides no mismatch;
* the store's fields: what opens is what was written, whatever an accident did;
  what a registration writes opens again; migration invents no identity and
  loses none; every refusal has a reason code;
* evidence: a failure is never taken for absence, the two channels name one
  volume by one id; what the sector search returns is what the medium held
  before or holds now;
* sharing: enough shares give the key, one tells nothing of it, a wrong one
  never gives it.

## The modules

| Module | Content |
|---|---|
| `StoreFormat` | the store file as a value: what it can hold, what sealing and opening make of it, migration |
| `IdentityRegistry` | the abstract specification: what the store promises |
| `IdentityStore` | the file operations of several processes; refines `IdentityRegistry` |
| `StoreWrapper` | inside the file: its fields, the order in which they are examined, v1 entries, accidents; agrees with `StoreFormat` |
| `VolumeVerifier` | the queries, comparisons and verdicts of an invocation |
| `RawSectors` | the sector readers on a device in use |
| `GaloisField`, `Shamir` | arithmetic on bytes; splitting a key and putting it together |
| `MC...` | small instances of the module of that name |
| `...Proofs` | the theorems of the module of that name |
| `PolynomialProofs` | sums, products, polynomials and interpolation over the field; `ShamirProofs` rests on it |
| `ConcatLemmas` | concatenation of sequences cancels; two proofs rest on it |

### The store: `StoreFormat`, `IdentityStore`

A *content* is a tagged record: `Empty` (truncated), `Torn` (the bytes of no one
store), a v1 store, or a store sealed with a DPAPI context or a passphrase.
`LoadReason` gives the reason code with which `_load_store` refuses a content,
`Seal` is `_store_wrapper_bytes`, `Migrate` is `_migrate_legacy_entries`.
An entry is opaque; `Migrated` says which v1 entries reproduce their fingerprint.

`path` and `tmp` are the two names in the directory, pointing at inodes; `disk`
is what an inode holds; `handle` is the inode a process has open. Two names and
inodes rather than two contents, because a process writes the inode it opened,
even when another process has renamed it since. `pc` is the file operation that
comes next:

| Action | Code |
|---|---|
| `Load` | `is_file()` and `read_bytes()` in `_load_store` |
| `VerifyAnswers` | the rest of `verify_volume` |
| `RegisterJudges` | `_load_store_for_register` up to the migration |
| `Reread`, `Rejudge` | its second read, and what it refuses then |
| `SealRefused` | `_dpapi_protect` outside Windows |
| `OpenTmp`, `WriteTmp` | `open(tmp, "wb")`; `write` and `close` |
| `Replace`, `ReplaceRaises` | `os.replace`, and its failure |
| `EvidenceFails` | a channel raises before the load, before the save or after it |
| `Die` | the process is killed, or an unhandled `OSError` |

`is_file()` and the read of the file are one step; `os.replace` never leaves the
name without a file, so nothing happens between the two that one step does not
show.

`Serialized` is the operator's discipline of not overlapping two registrations.
The code has no lock, so this is an assumption about its use; verifications may
overlap with everything. `RenameOpenFiles` distinguishes POSIX from Windows,
where `os.replace` fails on an open file.

### What the store promises: `IdentityRegistry`

The registry changes in one step, `Register`, on the registry *as it is*, not as
the process once saw it. A verification answers from the registry as it was at
one moment of its run (`Look`, then `Verify`). A process that fails or dies
changes nothing. `IdentityStore` implements it with `store <- Live, seen <- view`:
the content under the store's name, and what a process has read.

### Inside the file: `StoreWrapper`

One file, the fields of which are values of a type, or constants that stand for
what else JSON may hold there: `Absent`, `NotString`, `NotBase64`, `NotNumeral`,
`NotNumber`, `NotJson`, `NotDict`. `LoadReason` examines them in the order of
`_load_store`; `"RAISED"` is any exception but a `VerifierError`.

| Definition | Code |
|---|---|
| `Init` | no store, a v1 store, or one another version of the program has written |
| `Register` | `register_volume`, from `LoadStoreForRegister` to `StoreWrapperBytes` |
| `ValidEntry` | `_validate_entry` |
| `Migrates`, `MigrateEntry`, `MigrateLegacyEntries` | `_migrate_legacy_entries`, keys that differ by case included |
| `WrapperChanges`, `LegacyChanges` | an accident to one field |
| `Delete` | the user deletes the file |

`truth`, `owner` and `harm` are history: what the last writer put in, who it was,
and how many fields have changed since. A tag is what was authenticated and a
blob what was encrypted, so an accident makes neither: HMAC, PBKDF2 and DPAPI are
perfect here. `AgreesWithStoreFormat` says that `StoreFormat`, on which
`IdentityStore` rests, gives every file that no accident has changed the reason
these fields give it.

### An invocation: `VolumeVerifier`

A volume is four ids: `uid`, the filesystem the system names (none while it is
not mounted); `enc`, the encrypted volume the system knows of; `hdr`, the one
whose FVE or LUKS header is on the medium; `fs`, the filesystem whose boot
sector or superblock is where the raw channel looks. The API channel sees the
first two, the raw channel the last two, and they need not agree.

`pc` follows the order of the queries: `begin`, then `load` and `uid`, `enc`
(`verify_volume` loads first, `register_volume` observes first), `compare`, then
with `--raw` `serial`, `partition`, `fve` on Windows and `resolve`, `luks`,
`ext4` on Linux, then `judge` (`_corroborate`) or `commit`. Each query fails,
answers, or does what the code takes for absence. A query may also raise what
no handler classifies (`SystemRaises`, `Raised`): an `OSError` of the file or of
a command that is denied, or what `_load_store` raises for changed parameters of
the key, as `StoreWrapper` has it; `"RAISED"` is an invocation that ends so.
`VolumeChanges` puts another volume in place between any two. `StoreMoves` takes the store to another machine
between two invocations: an HMAC store is portable.

Ids are *sequences*, because `_fingerprint_standard` hashes two of them
concatenated without a separator. SHA-256 is taken to be collision-free, so a
fingerprint is what is hashed. `FormatUuid` is what `format_uuid` makes of an
id: it swaps the bytes of the first three fields, while Linux prints them in the
order in which the medium stores them, so the raw channel may call a volume by
another id than the API does.

Two history variables qualify the properties: `steady` (the volume has not
changed since the invocation began) and `candid` (no failure was taken for
absence). The store is one variable here, which changes at one moment: that is
what `IdentityStore` shows of the file.

### The sector readers: `RawSectors`

`disk` is what each sector holds, `Bad` where it cannot be read. One call runs
the five readers in the order of `get_volume_identifiers_raw`. Four of them open
the device and read once (`ReadNtfs`, `ReadLuks`, `ReadExt4`, `ReadSwap`);
`find_fve_header` reads sector by sector (`Scan`, `Find`), and once more where
the signature is not at the start of its sector (`Splice`), so `at` and `found`
are its place and the sector it keeps. Between any two steps a sector is written
or goes bad (`Write`), or the device goes away (`Unplug`): an open device that
is gone cannot be read, one that is opened then is not found.

The layouts are constants, with the code's names for the offsets: whether
these are the formats' real offsets is not a question about this program's steps.
A number of several bytes is one byte, and an identifier is its bytes.

`verify_volume` calls three of the readers and tells absence from failure by the
reason code; `Absent` is what it takes for absence.

### Sharing a key: `GaloisField`, `Shamir`

`Multiply` is the loop of `_gf256_mul`, `Inv` the search of `_gf256_inv`, on
numbers; `FieldAssumption` says that they make a field, and TLC checks it of the
256 bytes with the code's polynomial. `Split` is `shamir_split_48digit` with any
random bytes; `Bring` and `Alter` are the holders, who bring shares in any order,
twice, damaged, cut short, with another holder's number, or as text that is no
hex; `Join` is `shamir_reconstruct_48digit`. `Reconstruct` divides as the code
does: where a `Denominator` is 0, `_gf256_inv` raises, and the shares with one
`x` that `Distinct` refuses are the ones that would get there.

## What is checked

| Run | Shows |
|---|---|
| `SerializedStore` | while registrations do not overlap, on POSIX: `StoreIntact`, `ViewIsCurrent`, `NothingForgotten`, `ProtectionOnlyStrengthens`, and that the file implements the registry (`RegistrySpec`) |
| `OverlappingStore` | even when they overlap, on Windows: every invocation ends (`InvocationEnds`) |
| `Wrapper` | `OnlyWrittenIdentitiesOpen`, `NeverLockedOut`, `OnlyKdfRaises`, `AgreesWithStoreFormat`, and of every step `RegistrationInventsNothing` and `RegistrationForgetsNothing` |
| `RawSectors` | `FveIsOldOrNew`, `AbsenceHasACause`, `FveIsOnTheMedium` |
| `Shamir` | `EnoughSharesGiveTheKey`, `OneShareHidesTheKey`, `OneWrongShareNeverGivesTheKey`, `NeverDividesByZero` |
| `Verifier` | `PassMeansRegisteredVolume`, `NoCrossPlatformPass`, `RawIsEarned`, `WindowsChannelsAgree`, `LinuxChannelsAgree`, `RegistrationIsTruthful`, `ConflictIsReal`, `DenialIsReal`, `RaiseHidesAMatch` |

These runs hold. Some of their properties name the exception the code makes,
which a reader should know of:

* A v2 store that has lost its `format_version` is a v1 store without entries to
  `_load_store_for_register`: the next registration replaces it, without a
  passphrase too (`RegistrationForgetsNothing`).
* A v1 entry whose `fingerprint` is missing is migrated unchecked
  (`RegistrationInventsNothing`, from two changed fields on).
* A `kdf` field of the wrong type raises `AttributeError`, `TypeError` or an
  unclassified `ValueError` (`OnlyKdfRaises`): the README's "every failure
  produces an explicit reason code" does not hold of it.
* A physical drive that cannot be opened because it is gone counts as one without
  an FVE header: "device not found" contains "not found", which is what V 609
  looks for (`AbsenceHasACause`). The comment at V 540-542 promises an error.
* On Windows a registered FVE GUID is compared with nothing (V 669-688), although
  the README says that raw ids are recorded for raw-to-raw continuity.
  `WindowsChannelsAgree` speaks of the system, the medium and the NTFS serial.
* With *two* sectors written during one search, the FVE identifier may be made of
  two moments (`FveIsOldOrNew` holds for one).
* What a registration or a verdict says of the volume is stated of a volume that
  does not change meanwhile (`steady`) and, where a document is contradicted
  anyway, of an invocation that took no failure for absence (`candid`).
* A wrong share that comes out as digits is not noticed, and a smaller `k` than
  the split's gives another key (`OneWrongShareNeverGivesTheKey` says only that
  it is not the key).

The following check what a document of the repository says against the code, and
TLC finds a behaviour that contradicts it:

| Run | The document | The code |
|---|---|---|
| `OverlapTears` | README: writes are atomic (temp file + rename) | two registrations write one `<store>.tmp`; the store ends truncated or torn |
| `OverlapDowngrades`: `NoSilentDowngrade` | portable-store research: no silent downgrade | two registrations of one user load a DPAPI store; one makes a passphrase store of it, the other a DPAPI store again |
| `LinuxSilentWeak`: `WeakMeansUnencrypted` | a failed query is an error, never a silent WEAK fallback | a failed `cryptsetup` is a volume that is not encrypted |
| `LinuxRaises`: `VerifyNeverRaises` | `verify_volume` never raises for operational problems | registered plain with `--raw`, encrypted later, verified with `--raw`: `UnboundLocalError` |
| `StrayHeader`: `PassMeansNoDisagreement` | a LUKS UUID present on disk but not per API is a conflict | where the system announces no LUKS, the raw LUKS UUID is compared with nothing |
| `LinuxByteOrder`: `SameVolumeNoConflict` | the raw UUID matches `lsblk` and `cryptsetup` verbatim | it does only for UUIDs that the byte swap leaves alone |

`LinuxByteOrder` and the raw reads of LUKS on Linux rest on how libuuid,
`lsblk` and `cryptsetup` print a UUID, which the code does not contain.

### Bounds

* Store: two processes (a Windows user, and one without DPAPI), two keys, two
  entries of which one does not survive migration, two passphrases. Two
  processes are enough for every pair of steps that interferes, two keys for the
  entry of another volume, two passphrases for a wrong one. Two inodes suffice
  when registrations do not overlap (the store and the temporary file), three
  when they do: the store, a named and an unlinked temporary file. The keys,
  passphrases and inodes of `SerializedStore` are symmetric; it checks no
  liveness. `OverlappingStore` has one key and one entry, which liveness does
  not depend on. `OverlapDowngrades` has two processes of one Windows user who
  has a DPAPI store already (`UserSpec`), one key and one entry: what is lost
  there is the protection.
* Verifier: two filesystems, of which the id of one extends the other's, and two
  encrypted volumes per platform, chosen so that concatenated ids *could* be
  confused; seven or eight volumes per platform, plain, encrypted, encrypted
  anew, with a leftover header, another filesystem, not ext4; one id that
  `FormatUuid` changes and others it does not. `OneEntry` keeps one
  identity in the store at a time: an invocation looks at one. The volume changes
  once in an invocation at most; more changes show nothing to a property about
  steady volumes. In `LinuxRaises` nothing happens to the volume but between
  invocations, no failure is taken for absence (`Undisturbed`), and there are two
  volumes, a plain one and the same encrypted, so that what it shows is no other
  sequence.
* Wrapper: two keys, one of which a v1 store may spell in two ways; two ids, of
  which one extends the other, so that fingerprints of different identities
  meet; three entries no version of this program accepts; two passphrases, one
  user and a process without DPAPI; accidents to two fields, the number from
  which `RegistrationInventsNothing` has its exception. The passphrases are symmetric.
* RawSectors: sectors of eight bytes, media of one and three sectors, a window of
  two, one sector written during a call. The nine sector contents have a
  signature in place, displaced, in two halves, an identifier that just fits,
  one that runs over the end, one of zeros, and headers of two formats at once.
  A window of two has every case of the search: clear sectors, the last one, and
  the sector behind it that a displaced header needs.
* Shamir: the code's field, keys of two digits in place of 48 (every byte is
  shared on its own), thresholds of two and three of three shares, up to three
  brought, two random bytes; among the calls, thresholds and numbers of shares
  that are refused.

### Fairness

`IdentityStore` assumes weak fairness of each process's own steps: no step waits
for another process, and every command the program runs has a timeout. Nothing is
assumed of users, of failures or of crashes. The other modules state safety only:
their steps are those of one process, each loop of which is bounded by its input.

## What is proved

For every set of processes, keys, entries, passphrases, contexts and inodes:

* `TypeCorrect`: the types (`TypeOK`) of `IdentityStore`, overlapping registrations included.
* If `Serialized`: `AtomicWrites`, `CurrentView`, `KeepsEntries`,
  `KeepsProtection`, and `ImplementsRegistry`, that each step of the program is a
  step of the registry or a stutter. `DowngradeNeedsOverlap`: what the run
  `OverlapDowngrades` finds takes two registrations that overlap.

`StoreIntact` is not inductive: it says nothing of the file that `Replace` will
put under the name. `SerialInv` adds that at most one process registers
(`OneRegisters`), that it knows the store as it is and may use it (`KnowsStore`),
that who judges has read (`HasRead`), and that `<store>.tmp` is its own, empty
while open, then exactly what it means to write (`OwnsTmp`). The refinement
follows: `Replace` is `Register` because the view it sealed is the store.

For every set of ids, volumes, platforms, and every `FormatUuid`:

* `VerifierTypeCorrect`: each stored strength and fingerprint is that of the ids
  stored with it.
* `PassIdentifies`, `PlatformsApart`, `RawEarned`, `WindowsCorroborates`,
  `LinuxCorroborates`, `TruthfulRegistration`, `RealConflict`, `RealDenial`, `RaiseHides`: the
  properties of the run `Verifier`.
* How far the code is from the documents that other runs refute:
  `WeakIsSwallowedFailure` (a failed query taken for absence is the only way to a
  WEAK identity of an encrypted volume), `RaiseHides` (where the exception of
  `_corroborate` leaves `verify_volume`, the volume is the registered one, now
  encrypted, and verified on Linux with `--raw`: the exception is in place of a
  PASS or a conflict, never of a mismatch of fingerprints),
  `ConflictIsByteOrder` (a volume whose channels agree conflicts with itself only
  where `format_uuid` changes an id on its medium), and `LinuxCorroborates` again:
  a header the system does not announce is all that a PASS with `--raw` overlooks
  on Linux.
* `FingerprintIdentifies`, with `ConcatCancels`: the concatenation needs no
  separator, since the encryption ids of one platform have one length
  (`EncLengthAssumption`: a GUID in braces on Windows, a UUID on
  Linux).

`SafeInv` carries what an invocation knows at each place. `AtHome`: an entry is
made where its argument leads to a volume, a drive letter on Windows and a path
on Linux, hence nothing passes elsewhere. `ApiHolds`: what was observed is the
volume's unless it changed or a failure was taken for absence, and a verification
that went on to the raw channel has compared successfully. `RawHolds`: the same
of the raw ids, and of which device was read. `Concluded`: the properties
themselves, and what a registration or an exception leaves behind.

For every set of keys, ids, entries, passphrases and contexts, and any number of
accidents, `StoreWrapperProofs` proves all seven properties of the run `Wrapper`
(`OnlyWrittenOpens`, `NobodyLockedOut`, `OnlyTheKdfRaises`, `FormatsAgree`,
`NothingInvented`, `NothingForgotten`). The invariant follows the history: the tag and
the blob of a file are those `StoreWrapperBytes` made or none (`WrapperInv`), so a
file that opens has the payload that was sealed, every entry of which is
consistent; of a v1 entry one field at most has changed while `harm` is one
(`LegacyInv`), and then its fingerprint no longer fits.

For every layout, medium, window and number of changes, `RawSectorsProofs` proves
the properties of the run `RawSectors`. The invariant says what the search knows
half-way: the sectors it has passed were clear in the medium it began with, and
the rest is still the same, or they are clear in the medium as it is now
(`Searched`); the same of the sector it keeps (`Halfway`).

`ShamirProofs` proves the properties of the run `Shamir` in every field, for every
threshold from two on, key length, number of shares made and number of shares
brought. `NoDivisionByZero` rests on `DenominatorsAreNotZero`: a product of
differences of several places is not 0. Beyond what TLC can enumerate, it proves
that fewer shares than the threshold tell nothing. They fit every digit
(`FewerSharesTellNothing`), and the random bytes that fit one digit correspond
one to one to those that fit another (`FewerSharesFavourNothing`), of one share
too (`OneShareTellsNothing`): adding a polynomial that is zero at the shares and
the difference of the digits at 0 takes the ones to the others. The invariant
says that each digit of the key has a polynomial, whose first coefficient it is,
on which the shares lie (`Points`).

`PolynomialProofs` has what this rests on. A polynomial with as many roots as
coefficients is zero (`AllRoots`, by dividing by one root after the other), so as
many points determine it (`SamePolynomial`); what `Interpolate` computes is the
value at 0 of a polynomial through its points (`Interpolant`), hence the
secret (`EnoughPoints`), and not the secret as soon as one point is wrong
(`OneWrongPoint`); and through fewer points there is a polynomial with any value
at 0 (`TooFewPoints`). The sums and products of the code are loops over
sequences; what they compute is proved by induction over their length, on
the *set* of lengths for which it holds (`SetInduction`), which takes no operator
as parameter.

Assumptions: the names that stand for "nothing" are no values; ids are
sequences; `FormatUuid` maps ids of a kind to ids of that kind; the volumes are
made of ids; the lengths above; of `StoreWrapper`, that values of another type are
no values of the type; of `RawSectors`, that signatures lie within their headers;
of `GaloisField`, the field laws. TLC evaluates them in the passing runs.

Model-checked only: `InvocationEnds`, since it rests on fairness, and the
behaviours that contradict a document. The field laws of the code's 256 bytes are
an assumption of the proofs, which TLC evaluates.

## What is not modelled

* JSON and base64 as text: a field holds a value, or what the parser refuses. A
  wrapper with a key twice, or JSON nested too deeply to parse.
* `manage-bde` printing `Volume ID:` with nothing after it: the empty id reads
  as an id, and the answer is `FINGERPRINT_MISMATCH` where a missing line gives
  `BITLOCKER_METADATA_UNAVAILABLE`.
* The text of raw identifiers, `format_guid` and `_canonical_guid`;
  `format_uuid` is the constant `FormatUuid` of `VolumeVerifier`.
* `map_error` and `wrap_raw_error` (R 541-571), which nothing calls.
* Where partitions end: no reader knows, and the FVE search may go on into the
  next one.
* Shares with a number no split gives: 0, which interpolates at the key itself,
  and more than 255, for which `_gf256_inv` may raise "no inverse".
* The disk serial and timestamps, which enter no verdict.
* DPAPI and PBKDF2 themselves: ctypes and hashlib.
* Exit codes and messages. README's table gives `BITLOCKER_QUERY_FAILED` and
  `INSUFFICIENT_PRIVILEGES` as `DENY` and `LUKS_METADATA_UNAVAILABLE` as `ERROR`;
  the code answers `ERROR`, `ERROR` and `DENY`.
* Power failures: the code does not flush the file before it renames it, and
  what the disk then holds is the filesystem's affair.
* Build scripts and experiments (`evidence/`): no state of the program.

## Plan

Written: the store with its registry, the verifier, the wrapper's fields, the
sector readers and the shares for every threshold, each with its proofs. To come,
in this order:

1. `StoreAndVerifier`: two verifiers over the file, so that what an invocation
   concludes is stated of the store it read, overlapping registrations included,
   and a proof that the composition keeps `PassMeansRegisteredVolume`.
2. `VolumeVerifier`'s raw steps as the outcomes of `RawSectors`, with the medium
   of one as the device of the other.
3. Exit codes and messages as functions of the verdict, against README's table.
