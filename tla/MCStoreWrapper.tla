--------------------------- MODULE MCStoreWrapper ---------------------------
(* Small instances of StoreWrapper for TLC: two keys, one of which a v1     *)
(* store may hold in two letter cases, and two ids of which one extends the *)
(* other, so that fingerprints of different identities may meet.            *)
EXTENDS StoreWrapper, TLC

CONSTANTS user, secret, typo, salt1

a == <<1>>
b == <<1, 1>>

MCObserved ==
  {[uid |-> a, bid |-> NoId], [uid |-> a, bid |-> b], [uid |-> b, bid |-> NoId]}

\* A bitlocker_id of another type, an unknown strength, no hex digest.
MCStrange ==
  {[MakeEntry([uid |-> a, bid |-> NoId]) EXCEPT !.bid = NotString],
   [MakeEntry([uid |-> a, bid |-> NoId]) EXCEPT !.strength = "other"],
   [MakeEntry([uid |-> a, bid |-> NoId]) EXCEPT !.fp = NotString]}

MCId == {a, b}
MCUpper == [j \in {"c:", "C:", "D:"} |-> IF j = "D:" THEN "D:" ELSE "C:"]

\* Either passphrase may be the one of the store.
Renamings == Permutations({secret, typo})

=============================================================================
