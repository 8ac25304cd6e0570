---------------------------- MODULE IdentityStore ----------------------------
(***************************************************************************)
(* The life of the identity-store file under the processes that share it.  *)
(* An invocation reads the store once (_load_store; a second time when it  *)
(* migrates a v1 store) and, to register, rewrites it as a whole through   *)
(* <store>.tmp and os.replace (_save_store).  There is no lock.            *)
(*                                                                         *)
(* A step is one access to the file system, or the local work between two. *)
(* Evidence is opaque: an invocation carries the entry it observes.        *)
(***************************************************************************)
EXTENDS StoreFormat, FiniteSets

CONSTANTS
  Proc,             \* invocations of the program that share one store path
  CtxOf,            \* the DPAPI context each of them runs in, or NoCtx
  Inode,            \* files of the store's directory, named or only open
  NoInode,          \* no file under a name; no open file
  Serialized,       \* the operator never overlaps two registrations
  RenameOpenFiles   \* POSIX renames a file somebody has open, Windows not

ASSUME StoreCtxOfAssumption == CtxOf \in [Proc -> Ctx \cup {NoCtx}]
ASSUME InodeAssumption == NoInode \notin Inode
ASSUME BooleanAssumption ==
  Serialized \in BOOLEAN /\ RenameOpenFiles \in BOOLEAN

VARIABLES
  path,     \* the inode named <store>
  tmp,      \* the inode named <store>.tmp, the same name for every process
  disk,     \* inode -> content
  pc,       \* where each process is
  cmd,      \* what it was asked to do
  view,     \* the store as it read it
  handle,   \* the inode it has open for writing
  verdict   \* what it has answered, NoAnswer while it runs

vars == <<path, tmp, disk, pc, cmd, view, handle, verdict>>

\* The store as a reader would find it now.
Live == IF path = NoInode THEN Missing ELSE disk[path]

Registry == INSTANCE IdentityRegistry WITH store <- Live, seen <- view

-----------------------------------------------------------------------------
Command ==
  [op : {"register", "verify"}, key : Key, entry : Entry,
   pass : Passphrase \cup {NoPass}]
NoCommand == [op |-> "none"]

Places ==
  {"idle", "load", "judge", "reread", "rejudge", "save", "write", "replace"}

Asked(p, op) == pc[p] # "idle" /\ cmd[p].op = op

\* Mutant: the saved map holds nothing but the new entry.
MineAlone(p) ==
  Seal([NoEntries EXCEPT ![cmd[p].key] = cmd[p].entry], cmd[p].pass, CtxOf[p])

\* What p writes: the entries it read, with its own.
Mine(p) ==
  Seal([Inherited(view[p]) EXCEPT ![cmd[p].key] = cmd[p].entry],
       cmd[p].pass, CtxOf[p])

Init ==
  /\ disk \in [Inode -> {Empty} \cup (Contents \ Broken)]
  /\ path \in Inode \cup {NoInode}
  /\ \A i \in Inode : disk[i] = Empty <=> i # path
  /\ tmp = NoInode
  /\ pc = [p \in Proc |-> "idle"]
  /\ cmd = [p \in Proc |-> NoCommand]
  /\ view = [p \in Proc |-> Registry!Unseen]
  /\ handle = [p \in Proc |-> NoInode]
  /\ verdict = [p \in Proc |-> Registry!NoAnswer]

-----------------------------------------------------------------------------
(* An invocation.                                                          *)

\* The invocation of p ends with answer a; its files are closed.
Answered(p, a) ==
  /\ pc' = [pc EXCEPT ![p] = "idle"]
  /\ cmd' = [cmd EXCEPT ![p] = NoCommand]
  /\ view' = [view EXCEPT ![p] = Registry!Unseen]
  /\ handle' = [handle EXCEPT ![p] = NoInode]
  /\ verdict' = [verdict EXCEPT ![p] = a]

Goto(p, place) ==
  /\ pc' = [pc EXCEPT ![p] = place]
  /\ UNCHANGED <<cmd, verdict>>

UnchangedFiles == UNCHANGED <<path, tmp, disk>>

Start(p, c) ==
  /\ pc[p] = "idle"
  /\ Serialized /\ c.op = "register" => \A q \in Proc : ~ Asked(q, "register")
  /\ pc' = [pc EXCEPT ![p] = "load"]
  /\ cmd' = [cmd EXCEPT ![p] = c]
  /\ verdict' = [verdict EXCEPT ![p] = Registry!NoAnswer]
  /\ UnchangedFiles /\ UNCHANGED <<view, handle>>

\* Mutant: a leftover <store>.tmp is taken for a newer store.
LoadLeftover(p) ==
  /\ pc[p] = "load"
  /\ view' = [view EXCEPT ![p] = IF tmp = NoInode THEN Live ELSE disk[tmp]]
  /\ Goto(p, "judge")
  /\ UnchangedFiles /\ UNCHANGED handle

\* _load_store reads the file, or finds none.
Load(p) ==
  /\ pc[p] = "load"
  /\ view' = [view EXCEPT ![p] = Live]
  /\ Goto(p, "judge")
  /\ UnchangedFiles /\ UNCHANGED handle

\* A source or raw channel raises: before the load or before the save of a
\* registration, after the entry is found in a verification.
EvidenceFails(p) ==
  /\ \/ Asked(p, "register") /\ pc[p] \in {"load", "save"}
     \/ /\ Asked(p, "verify") /\ pc[p] = "judge"
        /\ Opens(view[p], cmd[p].pass, CtxOf[p])
        /\ view[p].entries[cmd[p].key] # NoEntry
  /\ Answered(p, Registry!NoEvidence)
  /\ UnchangedFiles

\* Mutant: the entry is looked up in the file once more.
VerifyLooksAgain(p) ==
  /\ Asked(p, "verify") /\ pc[p] = "judge"
  /\ Answered(p, IF Opens(view[p], cmd[p].pass, CtxOf[p])
                   THEN Registry!Compared(Live.entries[cmd[p].key], cmd[p].entry)
                   ELSE Registry!VerifyAnswer(view[p], cmd[p].key, cmd[p].entry,
                                              cmd[p].pass, CtxOf[p]))
  /\ UnchangedFiles

VerifyAnswers(p) ==
  /\ Asked(p, "verify") /\ pc[p] = "judge"
  /\ Answered(p, Registry!VerifyAnswer(view[p], cmd[p].key, cmd[p].entry,
                                       cmd[p].pass, CtxOf[p]))
  /\ UnchangedFiles

-----------------------------------------------------------------------------
(* register_volume, from the loaded store to the replaced one.             *)

\* Mutant: a store that does not open is started anew.
RegisterForgives(p) ==
  /\ Asked(p, "register") /\ pc[p] = "judge"
  /\ Goto(p, IF view[p].kind = "v1" THEN "reread" ELSE "save")
  /\ UnchangedFiles /\ UNCHANGED <<view, handle>>

RegisterJudges(p) ==
  /\ Asked(p, "register") /\ pc[p] = "judge"
  /\ \/ /\ view[p] = Missing \/ Opens(view[p], cmd[p].pass, CtxOf[p])
        /\ Goto(p, "save")
        /\ UNCHANGED <<view, handle>>
     \/ /\ view[p].kind = "v1"
        /\ Goto(p, "reread")
        /\ UNCHANGED <<view, handle>>
     \/ /\ ~ Registry!Usable(view[p], cmd[p].pass, CtxOf[p])
        /\ Answered(p, Registry!Refusal(
                         LoadReason(view[p], cmd[p].pass, CtxOf[p])))
  /\ UnchangedFiles

\* _load_store_for_register reads a v1 store again to migrate it.
Reread(p) ==
  /\ pc[p] = "reread"
  /\ view' = [view EXCEPT ![p] = Live]
  /\ Goto(p, "rejudge")
  /\ UnchangedFiles /\ UNCHANGED handle

\* By now another process may have migrated the store.
Rejudge(p) ==
  /\ pc[p] = "rejudge"
  /\ \/ view[p].kind = "v1" /\ Goto(p, "save") /\ UNCHANGED <<view, handle>>
     \/ /\ view[p] \in Broken
        /\ Answered(p, Registry!Refusal("STORE_CORRUPTED"))
     \/ /\ view[p] \notin Broken /\ view[p].kind # "v1"
        /\ Answered(p, Registry!Refusal("STORE_SCHEMA_MISMATCH"))
  /\ UnchangedFiles

\* Mutant: a refused protection is tried again.
SealRetried(p) ==
  /\ pc[p] = "save"
  /\ ~ CanSeal(cmd[p].pass, CtxOf[p])
  /\ Goto(p, "load")
  /\ UnchangedFiles /\ UNCHANGED <<view, handle>>

\* _save_store fails before it touches a file.
SealRefused(p) ==
  /\ pc[p] = "save"
  /\ ~ CanSeal(cmd[p].pass, CtxOf[p])
  /\ Answered(p, Registry!Refusal("STORE_PROTECTION_UNAVAILABLE"))
  /\ UnchangedFiles

\* Mutant: the store is written in place.
OpenInPlace(p) ==
  /\ pc[p] = "save"
  /\ CanSeal(cmd[p].pass, CtxOf[p])
  /\ \E i \in Inode :
       /\ path # NoInode => i = path
       /\ \A q \in Proc : handle[q] # i
       /\ tmp' = i
       /\ disk' = [disk EXCEPT ![i] = Empty]
       /\ handle' = [handle EXCEPT ![p] = i]
  /\ Goto(p, "write")
  /\ UNCHANGED <<path, view>>

\* open("wb"): truncates <store>.tmp when there is one, whoever made it.
OpenTmp(p) ==
  /\ pc[p] = "save"
  /\ CanSeal(cmd[p].pass, CtxOf[p])
  /\ \E i \in Inode :
       /\ tmp # NoInode => i = tmp
       /\ tmp = NoInode => i # path /\ \A q \in Proc : handle[q] # i
       /\ tmp' = i
       /\ disk' = [disk EXCEPT ![i] = Empty]
       /\ handle' = [handle EXCEPT ![p] = i]
  /\ Goto(p, "write")
  /\ UNCHANGED <<path, view>>

\* Mutant: the file stays open for os.replace.
WriteUnclosed(p) ==
  /\ pc[p] = "write"
  /\ disk' = [disk EXCEPT ![handle[p]] = Mine(p)]
  /\ Goto(p, "replace")
  /\ UNCHANGED <<path, tmp, view, handle>>

\* write and close.  Over another writer's bytes, what stays of them may
\* follow p's own.
WriteTmp(p) ==
  /\ pc[p] = "write"
  /\ \E c \in {Mine(p), Torn} :
       /\ disk[handle[p]] = Empty => c = Mine(p)
       /\ disk' = [disk EXCEPT ![handle[p]] = c]
  /\ handle' = [handle EXCEPT ![p] = NoInode]
  /\ Goto(p, "replace")
  /\ UNCHANGED <<path, tmp, view>>

\* Somebody has a file open that os.replace would move or remove.
InTheWay == ~ RenameOpenFiles /\ \E q \in Proc : handle[q] \in {tmp, path} \ {NoInode}

\* os.replace; the file it replaces has no name any more.
Replace(p) ==
  /\ pc[p] = "replace"
  /\ tmp # NoInode /\ ~ InTheWay
  /\ path' = tmp
  /\ tmp' = NoInode
  /\ disk' = [i \in Inode |-> IF i = path THEN Empty ELSE disk[i]]
  /\ Answered(p, Registry!Registered)

ReplaceRaises(p) ==
  /\ pc[p] = "replace"
  /\ tmp = NoInode \/ InTheWay
  /\ Answered(p, Registry!Aborted)
  /\ UnchangedFiles

\* Any other OSError, or the end of the process: a write may be half done.
Die(p) ==
  /\ pc[p] # "idle"
  /\ Answered(p, Registry!Aborted)
  /\ \/ UNCHANGED disk
     \/ pc[p] = "write" /\ disk' = [disk EXCEPT ![handle[p]] = Torn]
  /\ UNCHANGED <<path, tmp>>

-----------------------------------------------------------------------------
Step(p) ==
  \/ Load(p) \/ VerifyAnswers(p) \/ RegisterJudges(p) \/ Reread(p) \/ Rejudge(p)
  \/ SealRefused(p) \/ OpenTmp(p) \/ WriteTmp(p)
  \/ Replace(p) \/ ReplaceRaises(p)

Next ==
  \E p \in Proc :
    \/ \E c \in Command : Start(p, c)
    \/ Step(p)
    \/ EvidenceFails(p)
    \/ Die(p)

\* The program's own steps are taken: no step waits for another process, and
\* every command it runs has a timeout.  Nothing says that a user starts one,
\* or that evidence or the machine fails.
Spec == Init /\ [][Next]_vars /\ \A p \in Proc : WF_vars(Step(p))

-----------------------------------------------------------------------------
(* Properties.                                                             *)

\* Every variable keeps its shape: names point at inodes, inodes hold
\* contents, and a process holds a file open only while it writes.
TypeOK ==
  /\ path \in Inode \cup {NoInode}
  /\ tmp \in Inode \cup {NoInode}
  /\ disk \in [Inode -> Contents]
  /\ pc \in [Proc -> Places]
  /\ cmd \in [Proc -> Command \cup {NoCommand}]
  /\ view \in [Proc -> Contents \cup {Missing, Registry!Unseen}]
  /\ handle \in [Proc -> Inode \cup {NoInode}]
  /\ verdict \in [Proc -> Registry!Answers]
  /\ \A p \in Proc : handle[p] # NoInode <=> pc[p] = "write"

\* "Writes are atomic (temp file + rename) to avoid corruption from
\* interrupted writes" (README): at no moment, through no crash, is the store
\* under its name a truncated or a torn file.
StoreIntact == Live \notin Broken

\* What a registering process read is still the store when it replaces it: no
\* other process's registration fits between the load and the save.
ViewIsCurrent ==
  \A p \in Proc :
    pc[p] \in {"save", "write", "replace"} => view[p] = Live

\* A replaced store keeps every identity the old one held for other keys;
\* only a v1 entry that does not reproduce its fingerprint may go.
NothingForgotten ==
  [][\A k \in Key :
       Inherited(Live)[k] # NoEntry => Inherited(Live)'[k] # NoEntry]_vars

\* "Each store keeps its protection type explicit (no silent downgrade ...)"
\* (evidence/portable-store/RESEARCH.md): a store protected by a passphrase
\* stays protected by this passphrase, and a DPAPI store stays its user's
\* until somebody gives it a passphrase.
ProtectionOnlyStrengthens ==
  [][/\ Live \in HmacStores /\ Live' \in HmacStores \cup DpapiStores =>
          Live'.kind = Live.kind /\ Live'.by = Live.by
     /\ Live \in DpapiStores /\ Live' \in DpapiStores => Live'.by = Live.by]_vars

\* The same document's promise by itself, for the runs without the
\* operator's discipline: a passphrase store never becomes a DPAPI store.
NoSilentDowngrade == [][(Live \in HmacStores) => (Live' \notin DpapiStores)]_vars

\* The store file under all its processes is the registry: a registration
\* that is reported done has changed just its own entry of the store as it
\* is, an answer is that of one store the process really saw, and a failed or
\* killed invocation changed nothing.
RegistrySpec == Registry!Spec

\* Whatever it finds on the disk, an invocation comes to an end.
InvocationEnds == \A p \in Proc : pc[p] # "idle" ~> pc[p] = "idle"

=============================================================================
