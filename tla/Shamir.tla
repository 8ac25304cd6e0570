------------------------------- MODULE Shamir -------------------------------
(***************************************************************************)
(* A recovery key of decimal digits that is split into shares              *)
(* (shamir_split_48digit), whose holders bring some of them, in any order, *)
(* twice, or damaged, to put it together again                             *)
(* (shamir_reconstruct_48digit).                                           *)
(*                                                                         *)
(* A share's text is its bytes: hex digits say neither more nor less.      *)
(***************************************************************************)
EXTENDS GaloisField, Sequences

CONSTANTS
  Digit,      \* the bytes of '0' to '9'
  KeyLength,  \* 48
  Text,       \* what callers give as a key: sequences of bytes
  N, K,       \* the n and k they give to split it
  Given,      \* the k they give to reconstruct it
  Random,     \* os.urandom(1)[0]: bytes
  Damage,     \* bound: what becomes of a damaged byte
  NotHex,     \* a share that is no hex text
  MaxHeld     \* bound: shares brought to reconstruct the key

ASSUME DigitAssumption == Digit \subseteq Byte /\ Random \subseteq Byte /\ Damage \subseteq Byte
ASSUME CallerAssumption ==
  /\ Text \subseteq Seq(Byte) /\ KeyLength \in Nat
  /\ N \subseteq Nat /\ K \subseteq Int /\ Given \subseteq Int /\ MaxHeld \in Nat

ASSUME HexAssumption == NotHex \notin Seq(Byte)

VARIABLES
  key,     \* the key that was split
  k,       \* the threshold it was split with
  shares,  \* what shamir_split_48digit returns
  held,    \* what shamir_reconstruct_48digit gets
  asked,   \* and the threshold it is given
  result   \* of the last call

vars == <<key, k, shares, held, asked, result>>

-----------------------------------------------------------------------------
(* Polynomials.                                                            *)

\* The loops that add or multiply, from the first term on.
XorAll(terms) ==
  LET upTo[j \in 0 .. Len(terms)] == IF j = 0 THEN 0 ELSE Xor[upTo[j - 1]][terms[j]]
  IN  upTo[Len(terms)]
MulAll(factors) ==
  LET upTo[j \in 0 .. Len(factors)] == IF j = 0 THEN 1 ELSE Mul[upTo[j - 1]][factors[j]]
  IN  upTo[Len(factors)]

Power(x, j) == MulAll([i \in 1 .. j |-> x])

\* Mutant: the highest coefficient is left out.
EvaluateLow(row, x) ==
  XorAll([j \in 1 .. Len(row) - 1 |-> Mul[row[j]][Power(x, j - 1)]])

\* sum(coeff[j] * x^j).
Evaluate(row, x) == XorAll([j \in 1 .. Len(row) |-> Mul[row[j]][Power(x, j - 1)]])

\* The den of L_j(0); the factor of j itself is skipped.
Denominator(xs, j) == MulAll([m \in 1 .. Len(xs) |-> IF m = j THEN 1 ELSE Xor[xs[j]][xs[m]]])

\* Mutant: the share's own x instead of the others'.
WeightOwn(xs, j) ==
  Div(MulAll([m \in 1 .. Len(xs) |-> IF m = j THEN 1 ELSE xs[j]]), Denominator(xs, j))

\* L_j(0).
Weight(xs, j) ==
  Div(MulAll([m \in 1 .. Len(xs) |-> IF m = j THEN 1 ELSE xs[m]]), Denominator(xs, j))

Interpolate(xs, ys) == XorAll([j \in 1 .. Len(xs) |-> Mul[Weight(xs, j)][ys[j]]])

-----------------------------------------------------------------------------
(* Calls.                                                                  *)

Pending == [error |-> "pending", key |-> <<>>]
Ok(bytes) == [error |-> "", key |-> bytes]
Raises(error) == [error |-> error, key |-> <<>>]

IsKey(bytes) == Len(bytes) = KeyLength /\ \A i \in DOMAIN bytes : bytes[i] \in Digit

\* Mutant: no share twice, but two that claim one x.
DistinctShares(given) == \A i, j \in DOMAIN given : given[i] = given[j] => i = j

Distinct(given) == \A i, j \in DOMAIN given : given[i].x = given[j].x => i = j

Xs(given) == [j \in DOMAIN given |-> given[j].x]

\* shamir_reconstruct: it uses every share it gets, not the first of them.
Bytes(given) ==
  [i \in DOMAIN given[1].y |-> Interpolate(Xs(given), [j \in DOMAIN given |-> given[j].y[i]])]

\* Mutant: the first of them.
FirstShares(given, threshold) ==
  LET some == IF threshold \in 1 .. Len(given) THEN SubSeq(given, 1, threshold) ELSE given IN
  IF Len(given) < threshold THEN Raises("ValueError")
  ELSE IF given = <<>> THEN Raises("IndexError")
  ELSE IF \E j \in DOMAIN given : Len(given[j].y) # Len(given[1].y) \/ ~ Distinct(given)
    THEN Raises("ValueError")
  ELSE Ok(Bytes(some))

\* A weight is computed for each share, in each byte: _gf256_inv raises for 0.
Reconstruct(given, threshold) ==
  IF Len(given) < threshold THEN Raises("ValueError")
  ELSE IF given = <<>> THEN Raises("IndexError")
  ELSE IF \E j \in DOMAIN given : Len(given[j].y) # Len(given[1].y) THEN Raises("ValueError")
  ELSE IF ~ Distinct(given) THEN Raises("ValueError")
  ELSE IF given[1].y # <<>> /\ \E j \in DOMAIN given : Denominator(Xs(given), j) = 0
    THEN Raises("ZeroDivisionError")
  ELSE Ok(Bytes(given))

\* Mutant: whatever bytes come out are returned.
ReconstructKeyUnchecked(given, threshold) ==
  IF \E j \in DOMAIN given : given[j].y = NotHex THEN Raises("ValueError")
  ELSE Reconstruct(given, threshold)

\* shamir_reconstruct_48digit.
ReconstructKey(given, threshold) ==
  IF \E j \in DOMAIN given : given[j].y = NotHex THEN Raises("ValueError")
  ELSE LET bytes == Reconstruct(given, threshold) IN
       IF bytes.error = "" /\ ~ IsKey(bytes.key) THEN Raises("ValueError") ELSE bytes

-----------------------------------------------------------------------------
(* Actions.                                                                *)

Init ==
  /\ key = <<>> /\ k = 0 /\ shares = <<>> /\ held = <<>> /\ asked = 0 /\ result = Pending

\* coeffs[i]: a byte of the key, then random ones.
Row(threshold, byte, random) ==
  [j \in 1 .. threshold |-> IF j = 1 THEN byte ELSE random[j]]

\* shamir_split_48digit: the key, then n and k, are looked at; an empty secret,
\* which shamir_split refuses, is no key.
Split ==
  /\ result = Pending /\ shares = <<>>
  /\ \E text \in Text, n \in N, threshold \in K :
       IF ~ IsKey(text) \/ threshold > n \/ n > 2 ^ W - 1 \/ threshold < 2
         THEN result' = Raises("ValueError") /\ UNCHANGED <<key, k, shares>>
         ELSE /\ key' = text /\ k' = threshold /\ UNCHANGED result
              /\ \E random \in [1 .. KeyLength -> [2 .. threshold -> Random]] :
                   shares' = [x \in 1 .. n |->
                     [x |-> x,
                      y |-> [i \in 1 .. KeyLength |->
                               Evaluate(Row(threshold, text[i], random[i]), x)]]]
  /\ UNCHANGED <<held, asked>>

\* A holder brings a share.
Bring ==
  /\ result = Pending /\ Len(held) < MaxHeld
  /\ \E i \in DOMAIN shares : held' = Append(held, shares[i])
  /\ UNCHANGED <<key, k, shares, asked, result>>

Genuine(j) == \E i \in DOMAIN shares : held[j] = shares[i]

\* One share has another byte, or its last one is missing, or it is of another x,
\* or no hex.
Alter ==
  /\ result = Pending
  /\ \E j \in DOMAIN held : (\A m \in DOMAIN held : Genuine(m)) /\
       \/ \E i \in 1 .. KeyLength, b \in Damage : held' = [held EXCEPT ![j].y[i] = b]
       \/ held' = [held EXCEPT ![j].y = SubSeq(@, 1, KeyLength - 1)]
       \/ \E x \in DOMAIN shares : held' = [held EXCEPT ![j].x = x]
       \/ held' = [held EXCEPT ![j].y = NotHex]
  /\ UNCHANGED <<key, k, shares, asked, result>>

\* The key is put together, or not.
Join ==
  /\ result = Pending /\ shares # <<>>
  /\ \E threshold \in Given :
       asked' = threshold /\ result' = ReconstructKey(held, threshold)
  /\ UNCHANGED <<key, k, shares, held>>

Done == result # Pending /\ UNCHANGED vars

Next == Split \/ Bring \/ Alter \/ Join \/ Done

Spec == Init /\ [][Next]_vars

-----------------------------------------------------------------------------
(* Properties.                                                             *)

\* A share has an x other than 0, the x of the key itself.
Share == [x : Byte \ {0}, y : Seq(Byte) \cup {NotHex}]

\* What is returned is a key, whatever shares it was made of.
TypeOK ==
  /\ key \in Seq(Digit) /\ shares \in Seq(Share) /\ held \in Seq(Share)
  /\ Len(held) <= MaxHeld /\ asked \in Int
  /\ result.error \in {"pending", "", "ValueError", "IndexError", "ZeroDivisionError"}
  /\ IF result.error = "" THEN IsKey(result.key) ELSE result.key = <<>>

Joined == result # Pending /\ shares # <<>>

\* Any k shares or more, in any order, give the key back.
EnoughSharesGiveTheKey ==
  /\ Joined /\ k <= Len(held) /\ asked <= Len(held)
  /\ Distinct(held) /\ \A j \in DOMAIN held : Genuine(j)
  => result = Ok(key)

\* One share fits every digit, at every byte: for each there are coefficients
\* that make the same share of it.
OneShareHidesTheKey ==
  held = <<>> /\ ~ Joined =>
    \A s \in DOMAIN shares, i \in 1 .. KeyLength, digit \in Digit :
      \E random \in [2 .. k -> Byte] :
        Evaluate(Row(k, digit, random), shares[s].x) = shares[s].y[i]

\* Shares of which one is not what shamir_split_48digit returned never give the
\* key: they are refused, or give another one.
OneWrongShareNeverGivesTheKey ==
  /\ Joined /\ k <= Len(held)
  /\ \E j \in DOMAIN held : ~ Genuine(j) /\ \A m \in DOMAIN held \ {j} : Genuine(m)
  => result # Ok(key)

\* Whatever shares are brought, in any order, twice or altered, and whatever x they
\* claim: the weights of those that are not refused divide by no zero.
NeverDividesByZero == result.error # "ZeroDivisionError"

=============================================================================
