------------------------- MODULE IdentityStoreProofs -------------------------
(***************************************************************************)
(* What IdentityStore guarantees for every set of processes, keys,         *)
(* entries, passphrases and contexts: its type, and, when registrations do *)
(* not overlap, that the store is never broken and that the file           *)
(* implements IdentityRegistry.                                            *)
(***************************************************************************)
EXTENDS IdentityStore, TLAPS

-----------------------------------------------------------------------------
(* Contents.                                                               *)

\* The entries of whatever a process can have read are a map of entries, and
\* so is what a registration inherits from them.
LEMMA InheritedType ==
  ASSUME NEW c \in Contents \cup {Missing, Registry!Unseen}
  PROVE  Inherited(c) \in Entries
<1>1. c.entries \in Entries
  BY DEF Contents, Broken, Legacy, V1, DpapiStores, HmacStores, Entries,
         NoEntries, Empty, Torn, Missing, Registry!Unseen, Registry!NoEntries
<1>2. NoEntries \in Entries
  BY DEF NoEntries, Entries
<1>3. Migrate(c.entries) \in Entries
  BY <1>1, MigratedAssumption, NoEntryAssumption DEF Migrate, Entries
<1> QED
  BY <1>1, <1>2, <1>3 DEF Inherited

\* A sealed map of entries is a readable store.
LEMMA SealType ==
  ASSUME NEW m \in Entries, NEW pass \in Passphrase \cup {NoPass},
         NEW ctx \in Ctx \cup {NoCtx}, CanSeal(pass, ctx)
  PROVE  Seal(m, pass, ctx) \in (DpapiStores \cup HmacStores)
  BY DEF Seal, CanSeal, DpapiStores, HmacStores

\* The kinds of content tell them apart.
LEMMA ContentKinds ==
  /\ \A c \in DpapiStores : c.kind = "DPAPI_USER" /\ c \in Contents
  /\ \A c \in HmacStores : c.kind = "HMAC_PASSPHRASE" /\ c \in Contents
  /\ \A c \in Legacy : c.kind = "v1" /\ c \in Contents
  /\ Empty.kind = "empty" /\ Torn.kind = "torn"
  /\ Missing.kind = "missing" /\ Registry!Unseen.kind = "unseen"
  /\ Broken \subseteq Contents
<1>1. \A c \in DpapiStores : c.kind = "DPAPI_USER" /\ c \in Contents
  BY DEF Contents, DpapiStores
<1>2. \A c \in HmacStores : c.kind = "HMAC_PASSPHRASE" /\ c \in Contents
  BY DEF Contents, HmacStores
<1>3. \A c \in Legacy : c.kind = "v1" /\ c \in Contents
  BY DEF Contents, Legacy, V1
<1> QED
  BY <1>1, <1>2, <1>3 DEF Contents, Empty, Torn, Missing, Registry!Unseen

\* What nothing but a content can be.
LEMMA NotContents ==
  /\ Missing \notin Contents
  /\ Registry!Unseen \notin Contents \cup {Missing}
  /\ \A c \in DpapiStores \cup HmacStores : c \notin Broken
<1>1. \A c \in Contents : c.kind # "missing" /\ c.kind # "unseen"
  BY ContentKinds DEF Contents, Broken
<1>2. Registry!Unseen # Missing
  BY DEF Registry!Unseen, Missing
<1> QED
  BY <1>1, <1>2, ContentKinds DEF Broken

-----------------------------------------------------------------------------
(* Type correctness.                                                       *)

\* TypeOK alone is not inductive: what WriteTmp writes is a content because
\* the process has passed the CanSeal test on its way there.
TypeInv ==
  /\ TypeOK
  /\ \A p \in Proc : pc[p] # "idle" => cmd[p] \in Command
  /\ \A p \in Proc :
       pc[p] \in {"write", "replace"} => CanSeal(cmd[p].pass, CtxOf[p])

\* Every answer a step of p can give is one of the registry's answers.
LEMMA AnswersType ==
  ASSUME NEW s, NEW k, NEW e, NEW pass, NEW ctx
  PROVE  /\ Registry!VerifyAnswer(s, k, e, pass, ctx) \in Registry!Answers
         /\ ~ Registry!Opens(s, pass, ctx) =>
              Registry!Refusal(Registry!LoadReason(s, pass, ctx)) \in Registry!Answers
         /\ {Registry!NoAnswer, Registry!NoEvidence, Registry!Registered,
             Registry!Aborted} \subseteq Registry!Answers
         /\ \A r \in {"STORE_CORRUPTED", "STORE_SCHEMA_MISMATCH",
                      "STORE_PROTECTION_UNAVAILABLE"} :
              Registry!Refusal(r) \in Registry!Answers
<1>1. ~ Registry!Opens(s, pass, ctx) =>
        Registry!LoadReason(s, pass, ctx) \in Registry!LoadRefusals
  BY DEF Registry!Opens, Registry!LoadReason, Registry!LoadRefusals
<1>2. \A r \in Registry!LoadRefusals : Registry!Refusal(r) \in Registry!Answers
  BY DEF Registry!Answers
<1>3. \A r, o : Registry!Compared(r, o) \in Registry!Answers
  BY DEF Registry!Compared, Registry!Answers
<1>4. Registry!VerifyAnswer(s, k, e, pass, ctx) \in Registry!Answers
  <2>1. Registry!Answer("DENY", "STORE_MISSING") \in Registry!Answers
    BY DEF Registry!Answers
  <2> QED
    BY <1>1, <1>2, <1>3, <2>1 DEF Registry!VerifyAnswer
<1> QED
  BY <1>1, <1>2, <1>4 DEF Registry!Answers, Registry!LoadRefusals

\* What p writes is a readable store.
LEMMA MineType ==
  ASSUME TypeInv, NEW p \in Proc, pc[p] = "write"
  PROVE  Mine(p) \in DpapiStores \cup HmacStores
<1>1. cmd[p] \in Command /\ CanSeal(cmd[p].pass, CtxOf[p])
  BY DEF TypeInv
<1>2. /\ cmd[p].key \in Key /\ cmd[p].entry \in Entry
      /\ cmd[p].pass \in Passphrase \cup {NoPass}
  BY <1>1 DEF Command
<1>3. Inherited(view[p]) \in Entries
  BY InheritedType DEF TypeInv, TypeOK
<1>4. [Inherited(view[p]) EXCEPT ![cmd[p].key] = cmd[p].entry] \in Entries
  BY <1>2, <1>3 DEF Entries
<1>5. CtxOf[p] \in Ctx \cup {NoCtx}
  BY StoreCtxOfAssumption
<1> QED
  BY <1>1, <1>2, <1>4, <1>5, SealType DEF Mine

\* Ending an invocation keeps the type, whatever happens to the files.
LEMMA AnsweredType ==
  ASSUME TypeInv, NEW p \in Proc, NEW a \in Registry!Answers, Answered(p, a),
         path' \in Inode \cup {NoInode}, tmp' \in Inode \cup {NoInode},
         disk' \in [Inode -> Contents]
  PROVE  TypeInv'
  BY InodeAssumption DEF TypeInv, TypeOK, Answered, Places

\* What a reader finds under the store's name is a content, or no file.
LEMMA LiveType ==
  ASSUME TypeOK
  PROVE  Live \in Contents \cup {Missing}
  BY DEF TypeOK, Live

\* Opening a store means the same in both modules.
LEMMA SameFormat ==
  /\ \A pass, ctx : Registry!CanSeal(pass, ctx) = CanSeal(pass, ctx)
  /\ \A c, pass, ctx : Registry!LoadReason(c, pass, ctx) = LoadReason(c, pass, ctx)
  /\ \A c, pass, ctx : Registry!Opens(c, pass, ctx) = Opens(c, pass, ctx)
  /\ \A c : Registry!Inherited(c) = Inherited(c)
  /\ \A m, pass, ctx : Registry!Seal(m, pass, ctx) = Seal(m, pass, ctx)
  /\ Registry!Missing = Missing
  /\ Registry!Contents = Contents /\ Registry!Broken = Broken
  BY DEF Registry!CanSeal, CanSeal, Registry!LoadReason, LoadReason,
         Registry!Opens, Opens, Registry!Inherited, Inherited, Registry!Migrate,
         Migrate, Registry!NoEntries, NoEntries, Registry!Seal, Seal,
         Registry!Missing, Missing, Registry!Contents, Contents,
         Registry!Broken, Broken, Registry!Legacy, Legacy, Registry!V1, V1,
         Registry!DpapiStores, DpapiStores, Registry!HmacStores, HmacStores,
         Registry!Entries, Entries, Registry!Empty, Empty, Registry!Torn, Torn

\* Every state a program can be started in is well typed.
LEMMA TypeInit == Init => TypeInv
<1> SUFFICES ASSUME Init PROVE TypeInv
  OBVIOUS
<1>1. disk \in [Inode -> Contents]
  BY ContentKinds DEF Init, Broken
<1>2. Registry!NoAnswer \in Registry!Answers
  BY AnswersType
<1> QED
  BY <1>1, <1>2 DEF Init, TypeInv, TypeOK, Places

\* No access to the files and no answer leads out of the types.
LEMMA TypeStep == TypeInv /\ [Next]_vars => TypeInv'
<1> SUFFICES ASSUME TypeInv, [Next]_vars PROVE TypeInv'
  OBVIOUS
<1> USE DEF TypeInv, TypeOK
<1>1. /\ path \in Inode \cup {NoInode} /\ tmp \in Inode \cup {NoInode}
      /\ disk \in [Inode -> Contents]
  OBVIOUS
<1>2. Live \in Contents \cup {Missing}
  BY LiveType
<1>3. Empty \in Contents /\ Torn \in Contents
  BY ContentKinds DEF Broken
<1>4. CASE UNCHANGED vars
  BY <1>4 DEF vars
<1>5. ASSUME NEW p \in Proc, NEW c \in Command, Start(p, c) PROVE TypeInv'
  BY <1>5, AnswersType DEF Start, UnchangedFiles, Places
<1>6. ASSUME NEW p \in Proc, Load(p) PROVE TypeInv'
  BY <1>6, <1>2 DEF Load, Goto, UnchangedFiles, Places
<1>7. ASSUME NEW p \in Proc, VerifyAnswers(p) PROVE TypeInv'
  BY <1>7, AnswersType, AnsweredType DEF VerifyAnswers, UnchangedFiles
<1>8. ASSUME NEW p \in Proc, RegisterJudges(p) PROVE TypeInv'
  <2>1. ASSUME NEW place \in {"save", "reread"}, pc[p] = "judge",
               Goto(p, place), UNCHANGED <<view, handle>>, UnchangedFiles
        PROVE  TypeInv'
    BY <2>1 DEF Goto, UnchangedFiles, Places
  <2>2. CASE ~ Registry!Usable(view[p], cmd[p].pass, CtxOf[p]) /\
             Answered(p, Registry!Refusal(LoadReason(view[p], cmd[p].pass, CtxOf[p])))
    <3>1. Registry!Refusal(LoadReason(view[p], cmd[p].pass, CtxOf[p]))
            \in Registry!Answers
      BY <2>2, AnswersType, SameFormat DEF Registry!Usable
    <3> QED
      BY <1>8, <2>2, <3>1, AnsweredType DEF RegisterJudges, UnchangedFiles
  <2> QED
    BY <1>8, <2>1, <2>2 DEF RegisterJudges
<1>9. ASSUME NEW p \in Proc, Reread(p) PROVE TypeInv'
  BY <1>9, <1>2 DEF Reread, Goto, UnchangedFiles, Places
<1>10. ASSUME NEW p \in Proc, Rejudge(p) PROVE TypeInv'
  <2>1. CASE view[p].kind = "v1" /\ Goto(p, "save") /\ UNCHANGED <<view, handle>>
    BY <1>10, <2>1 DEF Rejudge, Goto, UnchangedFiles, Places
  <2>2. CASE \E r \in {"STORE_CORRUPTED", "STORE_SCHEMA_MISMATCH"} :
               Answered(p, Registry!Refusal(r))
    BY <1>10, <2>2, AnswersType, AnsweredType DEF Rejudge, UnchangedFiles
  <2> QED
    BY <1>10, <2>1, <2>2 DEF Rejudge
<1>11. ASSUME NEW p \in Proc, SealRefused(p) PROVE TypeInv'
  BY <1>11, AnswersType, AnsweredType DEF SealRefused, UnchangedFiles
<1>12. ASSUME NEW p \in Proc, OpenTmp(p) PROVE TypeInv'
  BY <1>12, <1>3, InodeAssumption DEF OpenTmp, Goto, Places
<1>13. ASSUME NEW p \in Proc, WriteTmp(p) PROVE TypeInv'
  <2>1. Mine(p) \in Contents
    BY <1>13, MineType, ContentKinds DEF WriteTmp
  <2> QED
    BY <1>13, <1>3, <2>1 DEF WriteTmp, Goto, Places
<1>14. ASSUME NEW p \in Proc, Replace(p) PROVE TypeInv'
  <2>1. disk' \in [Inode -> Contents]
    BY <1>14, <1>3 DEF Replace
  <2> QED
    BY <1>14, <2>1, AnswersType, AnsweredType DEF Replace
<1>15. ASSUME NEW p \in Proc, ReplaceRaises(p) PROVE TypeInv'
  BY <1>15, AnswersType, AnsweredType DEF ReplaceRaises, UnchangedFiles
<1>16. ASSUME NEW p \in Proc, EvidenceFails(p) PROVE TypeInv'
  BY <1>16, AnswersType, AnsweredType DEF EvidenceFails, UnchangedFiles
<1>17. ASSUME NEW p \in Proc, Die(p) PROVE TypeInv'
  <2>1. disk' \in [Inode -> Contents]
    BY <1>17, <1>3 DEF Die
  <2> QED
    BY <1>17, <2>1, AnswersType, AnsweredType DEF Die
<1> QED
  BY <1>4, <1>5, <1>6, <1>7, <1>8, <1>9, <1>10, <1>11, <1>12, <1>13, <1>14,
     <1>15, <1>16, <1>17 DEF Next, Step

\* Whatever processes do to each other's files, names point at files, files
\* hold contents and answers are the program's.
THEOREM TypeCorrect == Spec => []TypeOK
<1>1. TypeInv => TypeOK
  BY DEF TypeInv
<1> QED
  BY <1>1, TypeInit, TypeStep, PTL DEF Spec

-----------------------------------------------------------------------------
(* Registrations one at a time.                                            *)

Registering(p) == Asked(p, "register")

\* At most one process registers, and only it comes past the judgement.
OneRegisters ==
  /\ \A p, q \in Proc : Registering(p) /\ Registering(q) => p = q
  /\ \A p \in Proc :
       pc[p] \in {"reread", "rejudge", "save", "write", "replace"} => Registering(p)

\* The registering process knows the store as it is, and may use it.
KnowsStore ==
  \A p \in Proc :
    /\ Registering(p) /\ pc[p] # "load" => view[p] = Live
    /\ pc[p] \in {"reread", "rejudge"} => view[p].kind = "v1"
    /\ pc[p] \in {"save", "write", "replace"} =>
         Registry!Usable(view[p], cmd[p].pass, CtxOf[p])

\* A process that has judged has read.
HasRead ==
  \A p \in Proc :
    pc[p] \notin {"idle", "load"} => view[p] \in Contents \cup {Missing}

\* <store>.tmp is a file of its own, and the registering process's: empty
\* while it is open, then exactly what it writes.
OwnsTmp ==
  /\ tmp # NoInode => tmp # path
  /\ \A p \in Proc :
       /\ pc[p] = "write" => tmp # NoInode /\ handle[p] = tmp /\ disk[tmp] = Empty
       /\ pc[p] = "replace" => tmp # NoInode /\ disk[tmp] = Mine(p)

\* StoreIntact by itself says nothing of the file that will become the store.
SerialInv ==
  /\ TypeInv
  /\ OneRegisters
  /\ KnowsStore
  /\ HasRead
  /\ OwnsTmp
  /\ StoreIntact

\* Before the first invocation nobody registers and the store is whole.
LEMMA SerialInit == Init => SerialInv
<1> SUFFICES ASSUME Init PROVE SerialInv
  OBVIOUS
<1>1. TypeInv
  BY TypeInit
<1>2. StoreIntact
  BY <1>1, NotContents, ContentKinds
     DEF Init, StoreIntact, Live, Broken, TypeInv, TypeOK
<1> QED
  BY <1>1, <1>2
     DEF Init, SerialInv, OneRegisters, KnowsStore, HasRead, OwnsTmp, Registering,
         Asked

\* A process that ends without touching the files disturbs nobody.
LEMMA SerialAnswered ==
  ASSUME SerialInv, TypeInv', NEW p \in Proc, NEW a, Answered(p, a),
         UnchangedFiles
  PROVE  SerialInv'
<1> USE DEF SerialInv, TypeInv, TypeOK
<1>1. /\ \A q \in Proc \ {p} :
           /\ pc'[q] = pc[q] /\ cmd'[q] = cmd[q] /\ view'[q] = view[q]
           /\ handle'[q] = handle[q]
      /\ pc'[p] = "idle"
  BY DEF Answered
<1>2. Live' = Live
  BY DEF Live, UnchangedFiles
<1>3. \A q \in Proc \ {p} : Mine(q)' = Mine(q)
  BY <1>1 DEF Mine
<1>4. OneRegisters'
  BY <1>1 DEF OneRegisters, Registering, Asked
<1>5. KnowsStore'
  BY <1>1, <1>2 DEF KnowsStore, Registering, Asked, Registry!Usable,
     Registry!Opens, Registry!LoadReason
<1>6. HasRead'
  BY <1>1 DEF HasRead
<1>7. OwnsTmp'
  BY <1>1, <1>3 DEF OwnsTmp, UnchangedFiles
<1> QED
  BY <1>2, <1>4, <1>5, <1>6, <1>7 DEF StoreIntact

\* One registration at a time keeps the store whole and its own view current.
LEMMA SerialStep ==
  ASSUME Serialized, SerialInv, TypeInv', [Next]_vars
  PROVE  SerialInv'
<1> USE DEF SerialInv, TypeInv, TypeOK
<1>1. CASE UNCHANGED vars
  BY <1>1 DEF vars, OneRegisters, KnowsStore, HasRead, OwnsTmp, StoreIntact,
     Registering, Asked, Live, Mine, Registry!Usable
<1>2. ASSUME NEW p \in Proc, NEW c \in Command, Start(p, c) PROVE SerialInv'
  <2> USE DEF Start, UnchangedFiles
  <2>1. Live' = Live /\ \A q \in Proc : pc[q] # "idle" => Mine(q)' = Mine(q)
    BY <1>2 DEF Live, Mine
  <2>2. OneRegisters'
    BY <1>2 DEF OneRegisters, Registering, Asked
  <2>3. KnowsStore' /\ HasRead'
    BY <1>2, <2>1 DEF KnowsStore, HasRead, Registering, Asked, Registry!Usable
  <2>4. OwnsTmp'
    BY <1>2, <2>1 DEF OwnsTmp
  <2> QED
    BY <2>1, <2>2, <2>3, <2>4 DEF StoreIntact
<1>3. ASSUME NEW p \in Proc, Load(p) PROVE SerialInv'
  <2> USE DEF Load, Goto, UnchangedFiles
  <2>1. Live' = Live /\ \A q \in Proc : q # p => Mine(q)' = Mine(q)
    BY <1>3 DEF Live, Mine
  <2>2. OneRegisters'
    BY <1>3 DEF OneRegisters, Registering, Asked
  <2>3. KnowsStore' /\ HasRead'
    BY <1>3, <2>1, LiveType DEF KnowsStore, HasRead, Registering, Asked, Registry!Usable
  <2>4. OwnsTmp'
    BY <1>3, <2>1 DEF OwnsTmp
  <2> QED
    BY <2>1, <2>2, <2>3, <2>4 DEF StoreIntact
<1>4. ASSUME NEW p \in Proc, VerifyAnswers(p) PROVE SerialInv'
  BY <1>4, SerialAnswered DEF VerifyAnswers
<1>5. ASSUME NEW p \in Proc, NEW place \in {"reread", "save"},
             pc[p] \in {"judge", "rejudge"}, Registering(p),
             place = "reread" => view[p].kind = "v1",
             place = "save" => Registry!Usable(view[p], cmd[p].pass, CtxOf[p]),
             Goto(p, place), UNCHANGED <<view, handle>>, UnchangedFiles
      PROVE  SerialInv'
  <2> USE DEF Goto, UnchangedFiles
  <2>1. Live' = Live /\ \A q \in Proc : Mine(q)' = Mine(q)
    BY <1>5 DEF Live, Mine
  <2>2. OneRegisters'
    BY <1>5 DEF OneRegisters, Registering, Asked
  <2>3. KnowsStore' /\ HasRead'
    BY <1>5, <2>1 DEF KnowsStore, HasRead, Registering, Asked, Registry!Usable
  <2>4. OwnsTmp'
    BY <1>5, <2>1 DEF OwnsTmp
  <2> QED
    BY <2>1, <2>2, <2>3, <2>4 DEF StoreIntact
<1>6. ASSUME NEW p \in Proc, RegisterJudges(p) PROVE SerialInv'
  <2>1. CASE \E a : Answered(p, a)
    BY <1>6, <2>1, SerialAnswered DEF RegisterJudges
  <2>2. CASE view[p].kind = "v1" /\ Goto(p, "reread") /\ UNCHANGED <<view, handle>>
    BY <1>5, <1>6, <2>2 DEF RegisterJudges, Registering
  <2>3. CASE /\ view[p] = Missing \/ Opens(view[p], cmd[p].pass, CtxOf[p])
             /\ Goto(p, "save") /\ UNCHANGED <<view, handle>>
    <3>1. Registry!Usable(view[p], cmd[p].pass, CtxOf[p])
      BY <2>3, SameFormat DEF Registry!Usable
    <3> QED
      BY <1>5, <1>6, <2>3, <3>1 DEF RegisterJudges, Registering
  <2> QED
    BY <1>6, <2>1, <2>2, <2>3 DEF RegisterJudges
<1>7. ASSUME NEW p \in Proc, Reread(p) PROVE SerialInv'
  <2> USE DEF Reread, Goto, UnchangedFiles
  <2>1. /\ Live' = Live /\ \A q \in Proc : q # p => Mine(q)' = Mine(q)
        /\ Registering(p) /\ view[p] = Live
    BY <1>7 DEF Live, Mine, OneRegisters, KnowsStore
  <2>2. OneRegisters'
    BY <1>7 DEF OneRegisters, Registering, Asked
  <2>3. KnowsStore' /\ HasRead'
    BY <1>7, <2>1, LiveType DEF KnowsStore, HasRead, Registering, Asked, Registry!Usable
  <2>4. OwnsTmp'
    BY <1>7, <2>1 DEF OwnsTmp
  <2> QED
    BY <2>1, <2>2, <2>3, <2>4 DEF StoreIntact
<1>8. ASSUME NEW p \in Proc, Rejudge(p) PROVE SerialInv'
  <2>1. Registering(p) /\ view[p].kind = "v1"
    BY <1>8 DEF Rejudge, OneRegisters, KnowsStore
  <2>2. CASE \E a : Answered(p, a)
    BY <1>8, <2>2, SerialAnswered DEF Rejudge
  <2>3. CASE Goto(p, "save") /\ UNCHANGED <<view, handle>>
    BY <1>5, <1>8, <2>1, <2>3 DEF Rejudge, Registry!Usable
  <2> QED
    BY <1>8, <2>2, <2>3 DEF Rejudge
<1>9. ASSUME NEW p \in Proc, SealRefused(p) PROVE SerialInv'
  BY <1>9, SerialAnswered DEF SealRefused
<1>10. ASSUME NEW p \in Proc, EvidenceFails(p) PROVE SerialInv'
  BY <1>10, SerialAnswered DEF EvidenceFails
<1>11. ASSUME NEW p \in Proc, ReplaceRaises(p) PROVE SerialInv'
  BY <1>11, SerialAnswered DEF ReplaceRaises
<1>12. ASSUME NEW p \in Proc, OpenTmp(p) PROVE SerialInv'
  <2> USE DEF OpenTmp, Goto
  <2>1. Registering(p) /\ tmp' # NoInode /\ tmp' # path
    BY <1>12, InodeAssumption DEF OneRegisters, OwnsTmp
  <2>2. Live' = Live /\ \A q \in Proc : Mine(q)' = Mine(q)
    BY <1>12, <2>1 DEF Live, Mine
  <2>3. OneRegisters'
    BY <1>12 DEF OneRegisters, Registering, Asked
  <2>4. \A q \in Proc \ {p} : pc[q] \notin {"write", "replace"}
    BY <2>1 DEF OneRegisters
  <2>5. KnowsStore' /\ HasRead'
    BY <1>12, <2>1, <2>2 DEF KnowsStore, HasRead, Registering, Asked, Registry!Usable
  <2>6. OwnsTmp'
    BY <1>12, <2>1, <2>4, InodeAssumption DEF OwnsTmp
  <2> QED
    BY <2>2, <2>3, <2>5, <2>6 DEF StoreIntact
<1>13. ASSUME NEW p \in Proc, WriteTmp(p) PROVE SerialInv'
  <2> USE DEF WriteTmp, Goto
  <2>1. /\ Registering(p) /\ handle[p] = tmp /\ tmp # NoInode /\ tmp # path
        /\ disk' = [disk EXCEPT ![tmp] = Mine(p)]
    BY <1>13 DEF OneRegisters, OwnsTmp
  <2>2. Live' = Live /\ \A q \in Proc : Mine(q)' = Mine(q)
    BY <1>13, <2>1 DEF Live, Mine
  <2>3. OneRegisters'
    BY <1>13 DEF OneRegisters, Registering, Asked
  <2>4. \A q \in Proc \ {p} : pc[q] \notin {"write", "replace"}
    BY <2>1 DEF OneRegisters
  <2>5. KnowsStore' /\ HasRead'
    BY <1>13, <2>1, <2>2 DEF KnowsStore, HasRead, Registering, Asked, Registry!Usable
  <2>6. OwnsTmp'
    BY <1>13, <2>1, <2>2, <2>4 DEF OwnsTmp
  <2> QED
    BY <2>2, <2>3, <2>5, <2>6 DEF StoreIntact
<1>14. ASSUME NEW p \in Proc, Replace(p) PROVE SerialInv'
  <2> USE DEF Replace, Answered
  <2>1. /\ Registering(p) /\ tmp # path /\ disk[tmp] = Mine(p)
        /\ \A q \in Proc \ {p} : ~ Registering(q)
    BY <1>14 DEF OneRegisters, OwnsTmp
  <2>2. Live' = Mine(p)
    BY <1>14, <2>1 DEF Live
  <2>3. Mine(p) \in DpapiStores \cup HmacStores
    <3>1. /\ cmd[p] \in Command /\ CanSeal(cmd[p].pass, CtxOf[p])
          /\ CtxOf[p] \in Ctx \cup {NoCtx}
      BY <1>14, StoreCtxOfAssumption
    <3>2. [Inherited(view[p]) EXCEPT ![cmd[p].key] = cmd[p].entry] \in Entries
      BY <3>1, InheritedType DEF Command, Entries
    <3> QED
      BY <3>1, <3>2, SealType DEF Mine, Command
  <2>4. OneRegisters'
    BY <1>14 DEF OneRegisters, Registering, Asked
  <2>5. KnowsStore' /\ HasRead'
    BY <1>14, <2>1 DEF OneRegisters, KnowsStore, HasRead, Registering, Asked
  <2>6. OwnsTmp'
    BY <1>14, <2>1, <2>4 DEF OneRegisters, OwnsTmp, Registering, Asked
  <2> QED
    BY <2>2, <2>3, <2>4, <2>5, <2>6, NotContents DEF StoreIntact
<1>15. ASSUME NEW p \in Proc, Die(p) PROVE SerialInv'
  <2>1. CASE UNCHANGED disk
    BY <1>15, <2>1, SerialAnswered DEF Die, UnchangedFiles
  <2>2. CASE pc[p] = "write" /\ disk' = [disk EXCEPT ![handle[p]] = Torn]
    <3> USE DEF Die, Answered
    <3>1. /\ Registering(p) /\ handle[p] = tmp /\ tmp # path
          /\ \A q \in Proc \ {p} : ~ Registering(q)
      BY <2>2 DEF OneRegisters, OwnsTmp
    <3>2. Live' = Live
      BY <1>15, <2>2, <3>1 DEF Live
    <3>3. OneRegisters'
      BY <1>15 DEF OneRegisters, Registering, Asked
    <3>4. KnowsStore' /\ HasRead'
      BY <1>15, <3>1 DEF OneRegisters, KnowsStore, HasRead, Registering, Asked
    <3>5. OwnsTmp'
      BY <1>15, <3>1, <3>3 DEF OneRegisters, OwnsTmp, Registering, Asked
    <3> QED
      BY <3>2, <3>3, <3>4, <3>5 DEF StoreIntact
  <2> QED
    BY <1>15, <2>1, <2>2 DEF Die
<1> QED
  BY <1>1, <1>2, <1>3, <1>4, <1>6, <1>7, <1>8, <1>9, <1>10, <1>11, <1>12,
     <1>13, <1>14, <1>15 DEF Next, Step

\* As long as the operator does not overlap two registrations, all this holds.
LEMMA SerialInvariant == Spec => (Serialized => []SerialInv)
<1> SUFFICES ASSUME Serialized PROVE Spec => []SerialInv
  OBVIOUS
<1>1. TypeInv /\ SerialInv /\ [Next]_vars => SerialInv'
  BY TypeStep, SerialStep
<1>2. SerialInv => TypeInv
  BY DEF SerialInv
<1> QED
  BY <1>1, <1>2, SerialInit, PTL DEF Spec

\* While registrations do not overlap, through crashes at any step, the store
\* under its name is never a truncated or a torn file (README: "Writes are
\* atomic").
THEOREM AtomicWrites == Spec => (Serialized => []StoreIntact)
<1>1. SerialInv => StoreIntact
  BY DEF SerialInv
<1> QED
  BY <1>1, SerialInvariant, PTL

\* While registrations do not overlap, what register_volume read in
\* _load_store_for_register is still the store when _save_store replaces it.
THEOREM CurrentView == Spec => (Serialized => []ViewIsCurrent)
<1>1. SerialInv => ViewIsCurrent
  BY DEF SerialInv, OneRegisters, KnowsStore, ViewIsCurrent
<1> QED
  BY <1>1, SerialInvariant, PTL

-----------------------------------------------------------------------------
(* The file implements the registry.                                       *)

\* What a step does to the store: nothing, or os.replace puts a registration
\* on top of the store as it is.
LEMMA LiveStep ==
  ASSUME Serialized, SerialInv, [Next]_vars
  PROVE  \/ Live' = Live
         \/ \E p \in Proc :
              /\ Replace(p)
              /\ cmd[p] \in Command
              /\ Registry!Usable(Live, cmd[p].pass, CtxOf[p])
              /\ CanSeal(cmd[p].pass, CtxOf[p])
              /\ Inherited(Live) \in Entries
              /\ Live' = Seal([Inherited(Live) EXCEPT ![cmd[p].key] = cmd[p].entry],
                              cmd[p].pass, CtxOf[p])
<1> USE DEF SerialInv, TypeInv, TypeOK
<1>1. CASE UNCHANGED vars
  BY <1>1 DEF vars, Live
<1>2. CASE UnchangedFiles
  BY <1>2 DEF UnchangedFiles, Live
<1>3. ASSUME NEW p \in Proc, OpenTmp(p) PROVE Live' = Live
  BY <1>3 DEF OpenTmp, OwnsTmp, Live
<1>4. ASSUME NEW p \in Proc, WriteTmp(p) PROVE Live' = Live
  BY <1>4 DEF WriteTmp, OwnsTmp, Live
<1>5. ASSUME NEW p \in Proc, Die(p) PROVE Live' = Live
  BY <1>5 DEF Die, OwnsTmp, Live
<1>6. ASSUME NEW p \in Proc, Replace(p)
      PROVE  /\ cmd[p] \in Command
             /\ Registry!Usable(Live, cmd[p].pass, CtxOf[p])
             /\ CanSeal(cmd[p].pass, CtxOf[p])
             /\ Inherited(Live) \in Entries
             /\ Live' = Seal([Inherited(Live) EXCEPT ![cmd[p].key] = cmd[p].entry],
                             cmd[p].pass, CtxOf[p])
  <2> USE DEF Replace
  <2>1. view[p] = Live /\ Registry!Usable(Live, cmd[p].pass, CtxOf[p])
    BY <1>6 DEF OneRegisters, KnowsStore
  <2>2. Live' = Mine(p)
    BY <1>6 DEF OwnsTmp, Live
  <2>3. Inherited(Live) \in Entries
    BY LiveType, InheritedType
  <2> QED
    BY <1>6, <2>1, <2>2, <2>3 DEF Mine
<1> QED
  BY <1>1, <1>2, <1>3, <1>4, <1>5, <1>6
     DEF Next, Step, Start, Load, VerifyAnswers, RegisterJudges, Reread, Rejudge,
         SealRefused, ReplaceRaises, EvidenceFails

\* A store on a disk nobody has touched yet is a registry.
LEMMA RegistryInit == Init => Registry!Init
<1> SUFFICES ASSUME Init PROVE Registry!Init
  OBVIOUS
<1>1. Live \in {Missing} \cup (Contents \ Broken)
  BY TypeInit, SerialInit, LiveType DEF SerialInv, StoreIntact, TypeInv
<1> QED
  BY <1>1, SameFormat DEF Init, Registry!Init

\* Each file access of the program is one operation of the registry, or none:
\* os.replace is where a registration takes effect.
LEMMA RegistryStep ==
  ASSUME Serialized, SerialInv, [Next]_vars
  PROVE  [Registry!Next]_Registry!registryVars
<1> USE DEF SerialInv, TypeInv, TypeOK
<1>1. ASSUME NEW p \in Proc, NEW a, Answered(p, a)
      PROVE  Registry!Answered(p, a)
  BY <1>1 DEF Answered, Registry!Answered
<1>2. ASSUME UnchangedFiles PROVE Live' = Live
  BY <1>2 DEF UnchangedFiles, Live
<1>3. ASSUME NEW p \in Proc, pc[p] # "idle"
      PROVE  /\ cmd[p].key \in Key /\ cmd[p].entry \in Entry
             /\ cmd[p].pass \in Passphrase \cup {NoPass}
  BY <1>3 DEF Command
<1>4. CASE UNCHANGED <<Live, view, verdict>>
  BY <1>4 DEF Registry!registryVars
<1>5. ASSUME NEW p \in Proc, NEW c \in Command, Start(p, c)
      PROVE  Registry!Ask(p)
  BY <1>2, <1>5 DEF Start, Registry!Ask
<1>6. ASSUME NEW p \in Proc, Load(p) \/ Reread(p)
      PROVE  Registry!Look(p)
  BY <1>2, <1>6 DEF Load, Reread, Goto, Registry!Look
<1>7. ASSUME NEW p \in Proc, VerifyAnswers(p)
      PROVE  Registry!Verify(p, cmd[p].key, cmd[p].entry, cmd[p].pass)
  BY <1>1, <1>2, <1>7, NotContents DEF VerifyAnswers, HasRead, Registry!Verify
<1>8. ASSUME NEW p \in Proc, Answered(p, Registry!Aborted) \/ Answered(p, Registry!NoEvidence),
             Live' = Live
      PROVE  Registry!Fail(p)
  BY <1>1, <1>8 DEF Registry!Fail
<1>9. ASSUME NEW p \in Proc, RegisterJudges(p)
      PROVE  \/ UNCHANGED <<Live, view, verdict>>
             \/ Registry!RefuseRegister(p, cmd[p].pass)
  <2>1. CASE \E place : Goto(p, place) /\ UNCHANGED <<view, handle>>
    BY <1>2, <1>9, <2>1 DEF RegisterJudges, Goto
  <2>2. CASE /\ ~ Registry!Usable(view[p], cmd[p].pass, CtxOf[p])
             /\ Answered(p, Registry!Refusal(
                              LoadReason(view[p], cmd[p].pass, CtxOf[p])))
    BY <1>1, <1>2, <1>9, <2>2, NotContents, SameFormat
       DEF RegisterJudges, HasRead, Registry!RefuseRegister
  <2> QED
    BY <1>9, <2>1, <2>2 DEF RegisterJudges
<1>10. ASSUME NEW p \in Proc, Rejudge(p)
       PROVE  UNCHANGED <<Live, view, verdict>>
  <2>1. view[p].kind = "v1" /\ view[p] = Live
    BY <1>10 DEF Rejudge, OneRegisters, KnowsStore
  <2>2. view[p] \notin Broken
    BY <2>1, ContentKinds DEF Broken
  <2> QED
    BY <1>2, <1>10, <2>1, <2>2 DEF Rejudge, Goto
<1>11. ASSUME NEW p \in Proc, SealRefused(p)
       PROVE  Registry!RefuseRegister(p, cmd[p].pass)
  BY <1>1, <1>2, <1>11, NotContents, SameFormat
     DEF SealRefused, HasRead, Registry!RefuseRegister
<1>12. ASSUME NEW p \in Proc, OpenTmp(p) \/ WriteTmp(p)
       PROVE  UNCHANGED <<Live, view, verdict>>
  BY <1>12 DEF OpenTmp, WriteTmp, Goto, OwnsTmp, Live
<1>13. ASSUME NEW p \in Proc, Die(p)
       PROVE  Registry!Fail(p)
  <2>1. Live' = Live
    BY <1>13 DEF Die, OwnsTmp, Live
  <2> QED
    BY <1>8, <1>13, <2>1 DEF Die
<1>14. ASSUME NEW p \in Proc, Replace(p)
       PROVE  Registry!Register(p, cmd[p].key, cmd[p].entry, cmd[p].pass)
  <2>1. view[p] = Live /\ Registry!Usable(Live, cmd[p].pass, CtxOf[p])
    BY <1>14 DEF Replace, OneRegisters, KnowsStore
  <2>2. Live' = Mine(p)
    BY <1>14 DEF Replace, OwnsTmp, Live
  <2>3. CanSeal(cmd[p].pass, CtxOf[p])
    BY <1>14 DEF Replace
  <2> QED
    BY <1>1, <1>14, <2>1, <2>2, <2>3, SameFormat
       DEF Replace, Mine, Registry!Register
<1>15. ASSUME NEW p \in Proc, ReplaceRaises(p) \/ EvidenceFails(p)
       PROVE  Registry!Fail(p)
  BY <1>2, <1>8, <1>15 DEF ReplaceRaises, EvidenceFails
<1>16. CASE UNCHANGED vars
  BY <1>4, <1>16 DEF vars, Live
<1>17. ASSUME NEW p \in Proc, Step(p) \/ EvidenceFails(p) \/ Die(p)
       PROVE  [Registry!Next]_Registry!registryVars
  <2>1. pc[p] # "idle"
    BY <1>17 DEF Step, Load, VerifyAnswers, RegisterJudges, Reread, Rejudge,
       SealRefused, OpenTmp, WriteTmp, Replace, ReplaceRaises, EvidenceFails,
       Die, Asked
  <2>2. \/ Registry!Look(p) \/ Registry!Fail(p)
        \/ Registry!Verify(p, cmd[p].key, cmd[p].entry, cmd[p].pass)
        \/ Registry!RefuseRegister(p, cmd[p].pass)
        \/ Registry!Register(p, cmd[p].key, cmd[p].entry, cmd[p].pass)
        \/ UNCHANGED <<Live, view, verdict>>
    BY <1>6, <1>7, <1>9, <1>10, <1>11, <1>12, <1>13, <1>14, <1>15, <1>17 DEF Step
  <2> QED
    BY <1>3, <1>4, <2>1, <2>2 DEF Registry!Next
<1> QED
  BY <1>5, <1>16, <1>17 DEF Next, Registry!Next

\* While registrations do not overlap, the store file is the registry: each
\* registration that is reported done put just its entry on top of the store
\* as it was at that instant, each answer is that of one store the process
\* read whole, and nothing else ever changes the store.
THEOREM ImplementsRegistry == Spec => (Serialized => RegistrySpec)
<1> SUFFICES ASSUME Serialized PROVE Spec => RegistrySpec
  OBVIOUS
<1>1. Spec => []SerialInv
  BY SerialInvariant
<1>2. SerialInv /\ [Next]_vars => [Registry!Next]_Registry!registryVars
  BY RegistryStep
<1> QED
  BY <1>1, <1>2, RegistryInit, PTL DEF Spec, RegistrySpec, Registry!Spec

\* While registrations do not overlap, no step of any process, crashes
\* included, loses the identity registered under another key.
THEOREM KeepsEntries == Spec => (Serialized => NothingForgotten)
<1> SUFFICES ASSUME Serialized PROVE Spec => NothingForgotten
  OBVIOUS
<1> DEFINE Kept == \A k \in Key : Inherited(Live)[k] # NoEntry
                                    => Inherited(Live)'[k] # NoEntry
<1>1. Spec => []SerialInv
  BY SerialInvariant
<1>2. ASSUME SerialInv, [Next]_vars PROVE [Kept]_vars
  <2>1. CASE Live' = Live
    BY <2>1 DEF Inherited
  <2>2. ASSUME NEW p \in Proc, cmd[p] \in Command, Inherited(Live) \in Entries,
               Live' = Seal([Inherited(Live) EXCEPT ![cmd[p].key] = cmd[p].entry],
                            cmd[p].pass, CtxOf[p])
        PROVE  Kept
    <3>1. Inherited(Live)' = [Inherited(Live) EXCEPT ![cmd[p].key] = cmd[p].entry]
      BY <2>2 DEF Seal, Inherited
    <3> QED
      BY <2>2, <3>1, NoEntryAssumption DEF Command, Entries
  <2> QED
    BY <1>2, <2>1, <2>2, LiveStep
<1> HIDE DEF Kept
<1>3. SerialInv /\ [Next]_vars => [Kept]_vars
  BY <1>2
<1> QED
  BY <1>1, <1>3, PTL DEF Spec, NothingForgotten, Kept

\* While registrations do not overlap, a passphrase store keeps its passphrase
\* and a DPAPI store its user, whoever registers with whatever passphrase.
THEOREM KeepsProtection == Spec => (Serialized => ProtectionOnlyStrengthens)
<1> SUFFICES ASSUME Serialized PROVE Spec => ProtectionOnlyStrengthens
  OBVIOUS
<1> DEFINE Kept ==
      /\ Live \in HmacStores /\ Live' \in HmacStores \cup DpapiStores =>
           Live'.kind = Live.kind /\ Live'.by = Live.by
      /\ Live \in DpapiStores /\ Live' \in DpapiStores => Live'.by = Live.by
<1>1. Spec => []SerialInv
  BY SerialInvariant
<1>2. ASSUME SerialInv, [Next]_vars PROVE Kept
  <2>1. CASE Live' = Live
    BY <2>1
  <2>2. ASSUME NEW p \in Proc, cmd[p] \in Command,
               Registry!Usable(Live, cmd[p].pass, CtxOf[p]),
               Live' = Seal([Inherited(Live) EXCEPT ![cmd[p].key] = cmd[p].entry],
                            cmd[p].pass, CtxOf[p])
        PROVE  Kept
    <3>1. CASE Live \in HmacStores
      <4>1. Live.kind = "HMAC_PASSPHRASE" /\ Live.kind # Missing.kind
        BY <3>1, ContentKinds
      <4>2. Opens(Live, cmd[p].pass, CtxOf[p])
        BY <2>2, <4>1, SameFormat DEF Registry!Usable
      <4>3. cmd[p].pass # NoPass /\ Live.by = cmd[p].pass
        BY <4>1, <4>2 DEF Opens, LoadReason
      <4> QED
        BY <2>2, <3>1, <4>1, <4>3, ContentKinds DEF Seal
    <3>2. CASE Live \in DpapiStores
      <4>1. Live.kind = "DPAPI_USER" /\ Live.kind # Missing.kind
        BY <3>2, ContentKinds
      <4>2. Opens(Live, cmd[p].pass, CtxOf[p])
        BY <2>2, <4>1, SameFormat DEF Registry!Usable
      <4>3. Live.by = CtxOf[p]
        BY <4>1, <4>2 DEF Opens, LoadReason
      <4> QED
        BY <2>2, <3>2, <4>1, <4>3, ContentKinds DEF Seal
    <3> QED
      BY <3>1, <3>2
  <2> QED
    BY <1>2, <2>1, <2>2, LiveStep
<1> HIDE DEF Kept
<1>3. SerialInv /\ [Next]_vars => [Kept]_vars
  BY <1>2
<1> QED
  BY <1>1, <1>3, PTL DEF Spec, ProtectionOnlyStrengthens, Kept

\* A passphrase store becomes a DPAPI store only where two registrations
\* overlap, on POSIX and on Windows.
THEOREM DowngradeNeedsOverlap == Spec => (Serialized => NoSilentDowngrade)
<1> DEFINE Kept ==
      /\ Live \in HmacStores /\ Live' \in HmacStores \cup DpapiStores =>
           Live'.kind = Live.kind /\ Live'.by = Live.by
      /\ Live \in DpapiStores /\ Live' \in DpapiStores => Live'.by = Live.by
<1> DEFINE NotDowngraded == (Live \in HmacStores) => (Live' \notin DpapiStores)
<1>1. Kept => NotDowngraded
  BY DEF HmacStores, DpapiStores
<1>2. [Kept]_vars => [NotDowngraded]_vars
  BY <1>1
<1> HIDE DEF Kept, NotDowngraded
<1>3. ProtectionOnlyStrengthens => NoSilentDowngrade
  BY <1>2, PTL DEF ProtectionOnlyStrengthens, NoSilentDowngrade, Kept, NotDowngraded
<1> QED
  BY <1>3, KeepsProtection

=============================================================================
