-------------------------- MODULE IdentityRegistry --------------------------
(***************************************************************************)
(* What the identity store promises its users: a registry that every       *)
(* --register changes at one instant, on which every verification answers  *)
(* as of one instant of its own run, and which a failed or killed          *)
(* invocation leaves alone.                                                *)
(*                                                                         *)
(* The program reaches this through several separate file operations;      *)
(* IdentityStore.tla shows when it does.                                   *)
(***************************************************************************)
EXTENDS StoreFormat

CONSTANTS
  Proc,   \* invocations of the program that share one store path
  CtxOf   \* the DPAPI context each of them runs in

VARIABLES
  store,    \* the registry: Missing, or a sealed (or v1) map of entries
  seen,     \* the registry as each process read it, Unseen before it has
  verdict   \* what each process has answered, NoAnswer while it runs

registryVars == <<store, seen, verdict>>

-----------------------------------------------------------------------------
(* Answers.  "REGISTERED" stands for register_volume's normal return;      *)
(* "ABORTED" for an exception that no handler classifies and for a process *)
(* that ended without answering.                                           *)

Answer(outcome, reason) == [outcome |-> outcome, reason |-> reason]
NoAnswer == Answer("NONE", "NONE")
Registered == Answer("REGISTERED", "NONE")
Aborted == Answer("ABORTED", "NONE")

Refusal(reason) == Answer("ERROR", reason)

\* One reason stands for all those of the evidence channels (*_QUERY_FAILED,
\* *_INSUFFICIENT_PRIVILEGES, RAW_READ_FAILED).
NoEvidence == Refusal("VOLUME_QUERY_FAILED")

LoadRefusals ==
  {"STORE_CORRUPTED", "STORE_SCHEMA_MISMATCH", "STORE_PASSPHRASE_REQUIRED",
   "STORE_MAC_MISMATCH"}

Answers ==
  {NoAnswer, Registered, Aborted, NoEvidence}
  \cup {Refusal(r) : r \in LoadRefusals \cup {"STORE_PROTECTION_UNAVAILABLE"}}
  \cup {Answer("DENY", r) :
          r \in {"STORE_MISSING", "NOT_REGISTERED", "FINGERPRINT_MISMATCH"}}
  \cup {Answer("PASS", "MATCHED_REGISTERED_IDENTITY")}

\* verify_volume: the registered identity against the observed one.
Compared(registered, observed) ==
  CASE registered = NoEntry -> Answer("DENY", "NOT_REGISTERED")
    [] registered = observed -> Answer("PASS", "MATCHED_REGISTERED_IDENTITY")
    [] OTHER -> Answer("DENY", "FINGERPRINT_MISMATCH")

\* What verify_volume answers about key k, observed as e, given store s.
VerifyAnswer(s, k, e, pass, ctx) ==
  CASE s = Missing -> Answer("DENY", "STORE_MISSING")
    [] s # Missing /\ Opens(s, pass, ctx) -> Compared(s.entries[k], e)
    [] OTHER -> Refusal(LoadReason(s, pass, ctx))

\* register_volume starts from no file, from a store it can open, or from a
\* v1 store it migrates.
Usable(s, pass, ctx) ==
  s = Missing \/ s.kind = "v1" \/ Opens(s, pass, ctx)

-----------------------------------------------------------------------------
Unseen == [kind |-> "unseen", by |-> NoPass, entries |-> NoEntries]

Init ==
  /\ store \in {Missing} \cup (Contents \ Broken)
  /\ seen = [p \in Proc |-> Unseen]
  /\ verdict = [p \in Proc |-> NoAnswer]

\* The invocation of p ends with answer a.
Answered(p, a) ==
  /\ verdict' = [verdict EXCEPT ![p] = a]
  /\ seen' = [seen EXCEPT ![p] = Unseen]

\* p is asked something new.
Ask(p) ==
  /\ verdict' = [verdict EXCEPT ![p] = NoAnswer]
  /\ UNCHANGED <<store, seen>>

Look(p) ==
  /\ seen' = [seen EXCEPT ![p] = store]
  /\ UNCHANGED <<store, verdict>>

\* A registration takes effect on the registry as it is, not as p saw it.
Register(p, k, e, pass) ==
  /\ Usable(store, pass, CtxOf[p])
  /\ CanSeal(pass, CtxOf[p])
  /\ store' = Seal([Inherited(store) EXCEPT ![k] = e], pass, CtxOf[p])
  /\ Answered(p, Registered)

RefuseRegister(p, pass) ==
  /\ seen[p] # Unseen
  /\ \/ /\ ~ Usable(seen[p], pass, CtxOf[p])
        /\ Answered(p, Refusal(LoadReason(seen[p], pass, CtxOf[p])))
     \/ /\ ~ CanSeal(pass, CtxOf[p])
        /\ Answered(p, Refusal("STORE_PROTECTION_UNAVAILABLE"))
  /\ UNCHANGED store

Verify(p, k, e, pass) ==
  /\ seen[p] # Unseen
  /\ Answered(p, VerifyAnswer(seen[p], k, e, pass, CtxOf[p]))
  /\ UNCHANGED store

\* No evidence, an unclassified exception or the end of the process.
Fail(p) ==
  /\ Answered(p, Aborted) \/ Answered(p, NoEvidence)
  /\ UNCHANGED store

Next ==
  \E p \in Proc :
    \/ Ask(p)
    \/ Look(p)
    \/ Fail(p)
    \/ \E pass \in Passphrase \cup {NoPass} :
         \/ RefuseRegister(p, pass)
         \/ \E k \in Key, e \in Entry :
              Register(p, k, e, pass) \/ Verify(p, k, e, pass)

Spec == Init /\ [][Next]_registryVars

=============================================================================
