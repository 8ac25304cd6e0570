---------------------------- MODULE ShamirProofs ----------------------------
(* Proofs about Shamir for every threshold, number of shares, key length and *)
(* field.                                                                    *)
EXTENDS PolynomialProofs, FiniteSets, FiniteSetTheorems

-----------------------------------------------------------------------------
(* The shares of a split, and those that are brought.                      *)

KeyBytes == [1 .. KeyLength -> Byte]

\* The share of x has, at each digit of the key, the value at x of a polynomial
\* whose first coefficient is the digit.
Points(rows) ==
  /\ \A d \in 1 .. KeyLength : rows[d] \in Coefficients(k) /\ rows[d][1] = key[d]
  /\ \A i \in DOMAIN shares :
       /\ i \in Byte \ {0}
       /\ shares[i] \in [x : Byte \ {0}, y : KeyBytes] /\ shares[i].x = i
       /\ \A d \in 1 .. KeyLength : shares[i].y[d] = Evaluate(rows[d], i)

SplitInv ==
  /\ key \in Seq(Digit) /\ shares \in Seq(Share)
  /\ shares # <<>> =>
       /\ k \in Nat /\ 2 <= k /\ key \in KeyBytes
       /\ \E rows \in [1 .. KeyLength -> Coefficients(k)] : Points(rows)

HeldInv ==
  /\ held \in Seq(Share) /\ Len(held) <= MaxHeld
  /\ \A j \in DOMAIN held : held[j].x \in DOMAIN shares
  /\ shares = <<>> => held = <<>>

ResultInv ==
  /\ asked \in Int
  /\ result # Pending =>
       result = IF shares = <<>> THEN Raises("ValueError") ELSE ReconstructKey(held, asked)

IInv == SplitInv /\ HeldInv /\ ResultInv

LEMMA Lengths == \A y \in KeyBytes : y \in Seq(Byte) /\ Len(y) = KeyLength /\ y # NotHex
BY CallerAssumption, HexAssumption DEF KeyBytes

LEMMA SameBytes ==
  ASSUME NEW p \in KeyBytes, NEW q \in KeyBytes, \A i \in 1 .. KeyLength : p[i] = q[i]
  PROVE  p = q
<1>1. p = [i \in 1 .. KeyLength |-> p[i]] /\ q = [i \in 1 .. KeyLength |-> q[i]]
  BY DEF KeyBytes
<1>2. [i \in 1 .. KeyLength |-> p[i]] = [i \in 1 .. KeyLength |-> q[i]]
  OBVIOUS
<1> QED BY <1>1, <1>2, Zenon

LEMMA Elements == ASSUME NEW S, NEW s \in Seq(S), NEW i \in DOMAIN s PROVE s[i] \in S
OBVIOUS

LEMMA InitHolds == Init => IInv
<1> SUFFICES ASSUME Init PROVE IInv
  OBVIOUS
<1>1. key = <<>> /\ shares = <<>> /\ held = <<>> /\ asked = 0 /\ result = Pending
  BY DEF Init
<1>2. SplitInv
  BY <1>1 DEF SplitInv
<1>3. HeldInv
  BY <1>1, CallerAssumption DEF HeldInv
<1>4. ResultInv
  BY <1>1 DEF ResultInv
<1> QED BY <1>2, <1>3, <1>4 DEF IInv

LEMMA SplitMakesPoints ==
  ASSUME NEW text \in Text, NEW n \in N, NEW threshold \in K,
         IsKey(text), threshold <= n, n <= 2 ^ W - 1, 2 <= threshold,
         NEW random \in [1 .. KeyLength -> [2 .. threshold -> Random]],
         key' = text, k' = threshold,
         shares' = [x \in 1 .. n |->
                     [x |-> x,
                      y |-> [i \in 1 .. KeyLength |->
                               Evaluate(Row(threshold, text[i], random[i]), x)]]]
  PROVE  SplitInv' /\ shares' # <<>>
<1> DEFINE rows == [i \in 1 .. KeyLength |-> Row(threshold, text[i], random[i])]
           share(x) == [x |-> x, y |-> [i \in 1 .. KeyLength |-> Evaluate(rows[i], x)]]
<1>1. threshold \in Nat /\ n \in Nat /\ 2 <= n
  BY CallerAssumption
<1>2. text \in KeyBytes /\ text \in Seq(Digit)
  <2>1. text \in Seq(Byte) /\ Len(text) = KeyLength
    BY CallerAssumption DEF IsKey
  <2> QED BY <2>1, DigitAssumption DEF IsKey, KeyBytes
<1>3. \A d \in 1 .. KeyLength : rows[d] \in Coefficients(threshold) /\ rows[d][1] = text[d]
  <2> SUFFICES ASSUME NEW d \in 1 .. KeyLength
               PROVE  rows[d] \in Coefficients(threshold) /\ rows[d][1] = text[d]
    OBVIOUS
  <2>1. text[d] \in Byte /\ random[d] \in [2 .. threshold -> Byte]
    BY <1>2, DigitAssumption DEF KeyBytes
  <2> QED BY <1>1, <2>1 DEF Row, Coefficients
<1>4. rows \in [1 .. KeyLength -> Coefficients(threshold)]
  BY <1>3
<1>5. \A x \in 1 .. n : x \in Byte \ {0}
  BY <1>1, WidthAssumption DEF Byte
<1>6. shares' = [x \in 1 .. n |-> share(x)]
  OBVIOUS
<1> HIDE DEF rows
<1>7. \A x \in 1 .. n :
        /\ share(x) \in [x : Byte \ {0}, y : KeyBytes] /\ share(x).x = x
        /\ \A d \in 1 .. KeyLength : share(x).y[d] = Evaluate(rows[d], x)
  <2> SUFFICES ASSUME NEW x \in 1 .. n
               PROVE  /\ share(x) \in [x : Byte \ {0}, y : KeyBytes] /\ share(x).x = x
                      /\ \A d \in 1 .. KeyLength : share(x).y[d] = Evaluate(rows[d], x)
    OBVIOUS
  <2>1. \A d \in 1 .. KeyLength : Evaluate(rows[d], x) \in Byte
    BY <1>1, <1>3, <1>5, EvaluateSum
  <2> QED BY <1>5, <2>1 DEF KeyBytes
<1> HIDE DEF share
<1>8. DOMAIN shares' = 1 .. n /\ \A x \in 1 .. n : shares'[x] = share(x)
  BY <1>6
<1>9. /\ \A d \in 1 .. KeyLength : rows[d] \in Coefficients(k') /\ rows[d][1] = key'[d]
      /\ \A i \in DOMAIN shares' :
           /\ i \in Byte \ {0}
           /\ shares'[i] \in [x : Byte \ {0}, y : KeyBytes] /\ shares'[i].x = i
           /\ \A d \in 1 .. KeyLength : shares'[i].y[d] = Evaluate(rows[d], i)
  BY <1>3, <1>5, <1>7, <1>8
<1>10. shares' \in Seq(Share)
  <2>1. \A x \in 1 .. n : share(x) \in Share
    BY <1>7, Lengths DEF Share
  <2>2. shares' \in [1 .. n -> Share]
    BY <1>6, <2>1
  <2> QED BY <1>1, <2>2
<1>11. shares' # <<>>
  <2>1. 1 \in DOMAIN shares'
    BY <1>1, <1>8
  <2> QED BY <2>1
<1>12. \E r \in [1 .. KeyLength -> Coefficients(k')] :
         /\ \A d \in 1 .. KeyLength : r[d] \in Coefficients(k') /\ r[d][1] = key'[d]
         /\ \A i \in DOMAIN shares' :
              /\ i \in Byte \ {0}
              /\ shares'[i] \in [x : Byte \ {0}, y : KeyBytes] /\ shares'[i].x = i
              /\ \A d \in 1 .. KeyLength : shares'[i].y[d] = Evaluate(r[d], i)
  BY <1>4, <1>9
<1>13. \E r \in [1 .. KeyLength -> Coefficients(k')] : Points(r)'
  BY <1>12 DEF Points
<1> QED BY <1>1, <1>2, <1>10, <1>11, <1>13, Zenon DEF SplitInv, KeyBytes, Share

LEMMA BringKeepsHeld ==
  ASSUME SplitInv, HeldInv, Bring
  PROVE  HeldInv'
<1> PICK i \in DOMAIN shares : held' = Append(held, shares[i])
  BY DEF Bring
<1>1. shares # <<>> /\ shares' = shares /\ Len(held) < MaxHeld
  BY DEF Bring
<1>2. shares[i] \in Share /\ shares[i].x \in DOMAIN shares
  BY <1>1 DEF SplitInv, Points
<1>3. held' \in Seq(Share) /\ Len(held') = Len(held) + 1
  BY <1>2 DEF HeldInv
<1>4. \A j \in DOMAIN held' : held'[j].x \in DOMAIN shares
  <2> SUFFICES ASSUME NEW j \in DOMAIN held' PROVE held'[j].x \in DOMAIN shares
    OBVIOUS
  <2>1. CASE j \in DOMAIN held
    BY <2>1, <1>2 DEF HeldInv
  <2>2. CASE j = Len(held) + 1
    BY <2>2, <1>2 DEF HeldInv
  <2>3. j \in DOMAIN held \/ j = Len(held) + 1
    BY <1>3 DEF HeldInv
  <2> QED BY <2>1, <2>2, <2>3
<1>5. Len(held') <= MaxHeld
  BY <1>1, <1>3, CallerAssumption DEF HeldInv
<1> QED BY <1>1, <1>3, <1>4, <1>5 DEF HeldInv

LEMMA OneShareAltered ==
  ASSUME HeldInv, NEW j \in DOMAIN held, NEW r, r \in Share, r.x \in DOMAIN shares,
         held' = [held EXCEPT ![j] = r], shares' = shares
  PROVE  HeldInv'
<1>1. held' \in Seq(Share) /\ Len(held') = Len(held) /\ DOMAIN held' = DOMAIN held
  BY DEF HeldInv
<1>2. \A m \in DOMAIN held : held'[m] = IF m = j THEN r ELSE held[m]
  BY DEF HeldInv
<1>3. \A m \in DOMAIN held : held'[m].x \in DOMAIN shares
  BY <1>2 DEF HeldInv
<1>4. shares # <<>>
  BY DEF HeldInv
<1> QED BY <1>1, <1>3, <1>4 DEF HeldInv

LEMMA AlterKeepsHeld ==
  ASSUME SplitInv, HeldInv, Alter
  PROVE  HeldInv'
<1> PICK j \in DOMAIN held : (\A m \in DOMAIN held : Genuine(m)) /\
       \/ \E i \in 1 .. KeyLength, b \in Damage : held' = [held EXCEPT ![j].y[i] = b]
       \/ held' = [held EXCEPT ![j].y = SubSeq(@, 1, KeyLength - 1)]
       \/ \E x \in DOMAIN shares : held' = [held EXCEPT ![j].x = x]
       \/ held' = [held EXCEPT ![j].y = NotHex]
  BY DEF Alter
<1>1. shares # <<>> /\ shares' = shares
  BY DEF Alter, HeldInv
<1>2. /\ held[j] \in [x : Byte \ {0}, y : KeyBytes] /\ held[j].x \in DOMAIN shares
      /\ \A x \in DOMAIN shares : x \in Byte \ {0}
  BY <1>1 DEF SplitInv, Points, Genuine
<1>3. held[j].x \in Byte \ {0} /\ held[j].y \in KeyBytes /\ held[j].y \in Seq(Byte)
  BY <1>2, Lengths
<1>4. CASE \E i \in 1 .. KeyLength, b \in Damage : held' = [held EXCEPT ![j].y[i] = b]
  <2> PICK i \in 1 .. KeyLength, b \in Damage : held' = [held EXCEPT ![j].y[i] = b]
    BY <1>4
  <2> DEFINE r == [held[j] EXCEPT !.y = [held[j].y EXCEPT ![i] = b]]
  <2>1. held' = [held EXCEPT ![j] = r]
    OBVIOUS
  <2>2. [held[j].y EXCEPT ![i] = b] \in KeyBytes
    BY <1>3, DigitAssumption DEF KeyBytes
  <2>3. r \in Share /\ r.x \in DOMAIN shares
    BY <1>2, <1>3, <2>2, Lengths DEF Share
  <2> HIDE DEF r
  <2> QED BY <1>1, <2>1, <2>3, OneShareAltered
<1>5. CASE held' = [held EXCEPT ![j].y = SubSeq(@, 1, KeyLength - 1)]
  <2> DEFINE r == [held[j] EXCEPT !.y = SubSeq(held[j].y, 1, KeyLength - 1)]
  <2>1. held' = [held EXCEPT ![j] = r]
    BY <1>5
  <2>2. SubSeq(held[j].y, 1, KeyLength - 1) \in Seq(Byte)
    BY <1>3, Lengths, CallerAssumption
  <2>3. r \in Share /\ r.x \in DOMAIN shares
    BY <1>2, <1>3, <2>2 DEF Share
  <2> HIDE DEF r
  <2> QED BY <1>1, <2>1, <2>3, OneShareAltered
<1>6. CASE \E x \in DOMAIN shares : held' = [held EXCEPT ![j].x = x]
  <2> PICK x \in DOMAIN shares : held' = [held EXCEPT ![j].x = x]
    BY <1>6
  <2> DEFINE r == [held[j] EXCEPT !.x = x]
  <2>1. held' = [held EXCEPT ![j] = r]
    OBVIOUS
  <2>2. r \in Share /\ r.x \in DOMAIN shares
    BY <1>2, <1>3 DEF Share
  <2> HIDE DEF r
  <2> QED BY <1>1, <2>1, <2>2, OneShareAltered
<1>7. CASE held' = [held EXCEPT ![j].y = NotHex]
  <2> DEFINE r == [held[j] EXCEPT !.y = NotHex]
  <2>1. held' = [held EXCEPT ![j] = r]
    BY <1>7
  <2>2. r \in Share /\ r.x \in DOMAIN shares
    BY <1>2, <1>3 DEF Share
  <2> HIDE DEF r
  <2> QED BY <1>1, <2>1, <2>2, OneShareAltered
<1> QED BY <1>4, <1>5, <1>6, <1>7

\* The invariant is kept by every step.
LEMMA NextKeeps ==
  ASSUME IInv, [Next]_vars
  PROVE  IInv'
<1> USE DEF IInv
<1>1. CASE Split
  <2>1. result = Pending /\ shares = <<>> /\ held = <<>> /\ held' = held /\ asked' = asked
    BY <1>1 DEF Split, HeldInv
  <2> PICK text \in Text, n \in N, threshold \in K :
        IF ~ IsKey(text) \/ threshold > n \/ n > 2 ^ W - 1 \/ threshold < 2
         THEN result' = Raises("ValueError") /\ UNCHANGED <<key, k, shares>>
         ELSE /\ key' = text /\ k' = threshold /\ UNCHANGED result
              /\ \E random \in [1 .. KeyLength -> [2 .. threshold -> Random]] :
                   shares' = [x \in 1 .. n |->
                     [x |-> x,
                      y |-> [i \in 1 .. KeyLength |->
                               Evaluate(Row(threshold, text[i], random[i]), x)]]]
    BY <1>1 DEF Split
  <2>2. HeldInv'
    BY <2>1, CallerAssumption DEF HeldInv
  <2>3. CASE ~ IsKey(text) \/ threshold > n \/ n > 2 ^ W - 1 \/ threshold < 2
    <3>1. SplitInv'
      BY <2>1, <2>3 DEF SplitInv
    <3>2. ResultInv'
      BY <2>1, <2>3 DEF ResultInv
    <3> QED BY <2>2, <3>1, <3>2
  <2>4. CASE ~ (~ IsKey(text) \/ threshold > n \/ n > 2 ^ W - 1 \/ threshold < 2)
    <3> PICK random \in [1 .. KeyLength -> [2 .. threshold -> Random]] :
          shares' = [x \in 1 .. n |->
                     [x |-> x,
                      y |-> [i \in 1 .. KeyLength |->
                               Evaluate(Row(threshold, text[i], random[i]), x)]]]
      BY <2>4
    <3>1. n \in Int /\ threshold \in Int /\ 2 ^ W - 1 \in Int
      BY CallerAssumption, WidthAssumption
    <3>2. IsKey(text) /\ threshold <= n /\ n <= 2 ^ W - 1 /\ 2 <= threshold
      BY <2>4, <3>1
    <3>3. key' = text /\ k' = threshold
      BY <2>4
    <3>4. SplitInv'
      BY <3>2, <3>3, SplitMakesPoints
    <3>5. ResultInv'
      BY <2>1, <2>4 DEF ResultInv
    <3> QED BY <2>2, <3>4, <3>5
  <2> QED BY <2>3, <2>4
<1>2. CASE Bring
  <2>1. UNCHANGED <<key, k, shares, asked, result>> /\ result = Pending
    BY <1>2 DEF Bring
  <2>2. SplitInv'
    BY <2>1 DEF SplitInv, Points
  <2>3. ResultInv'
    BY <2>1 DEF ResultInv
  <2> QED BY <1>2, <2>2, <2>3, BringKeepsHeld
<1>3. CASE Alter
  <2>1. UNCHANGED <<key, k, shares, asked, result>> /\ result = Pending
    BY <1>3 DEF Alter
  <2>2. SplitInv'
    BY <2>1 DEF SplitInv, Points
  <2>3. ResultInv'
    BY <2>1 DEF ResultInv
  <2> QED BY <1>3, <2>2, <2>3, AlterKeepsHeld
<1>4. CASE Join
  <2>1. UNCHANGED <<key, k, shares, held>> /\ shares # <<>>
    BY <1>4 DEF Join
  <2>2. SplitInv'
    BY <2>1 DEF SplitInv, Points
  <2>3. HeldInv'
    BY <2>1 DEF HeldInv
  <2>4. asked' \in Int /\ result' = ReconstructKey(held, asked')
    BY <1>4, CallerAssumption DEF Join
  <2>5. ReconstructKey(held, asked)' = ReconstructKey(held, asked')
    BY <2>1 DEF ReconstructKey, Reconstruct, Bytes, Distinct, IsKey, Xs
  <2>6. ResultInv'
    BY <2>1, <2>4, <2>5 DEF ResultInv
  <2> QED BY <2>2, <2>3, <2>6
<1>5. CASE UNCHANGED vars
  <2>1. UNCHANGED <<key, k, shares, held, asked, result>>
    BY <1>5 DEF vars
  <2> QED BY <2>1 DEF SplitInv, Points, HeldInv, ResultInv
<1> QED BY <1>1, <1>2, <1>3, <1>4, <1>5 DEF Next, Done

-----------------------------------------------------------------------------
(* What shares that are brought give.                                      *)

LEMMA Forms ==
  /\ \A bytes : Ok(bytes).error = "" /\ Ok(bytes).key = bytes
  /\ \A error : Raises(error).error = error /\ Raises(error).key = <<>>
  /\ Pending.error = "pending" /\ Pending.key = <<>>
BY DEF Ok, Raises, Pending

LEMMA OkSame == ASSUME NEW p, NEW q, Ok(p) = Ok(q) PROVE p = q
<1> DEFINE a == Ok(p)
           b == Ok(q)
<1>1. a.key = p /\ b.key = q /\ a = b
  BY DEF Ok
<1> HIDE DEF a, b
<1> QED BY <1>1

\* What shamir_reconstruct does not refuse: shares of one length and several x.
LEMMA NoErrorMeans ==
  ASSUME NEW given, NEW threshold, ReconstructKey(given, threshold).error = ""
  PROVE  /\ \A j \in DOMAIN given : given[j].y # NotHex /\ Len(given[j].y) = Len(given[1].y)
         /\ Distinct(given) /\ ReconstructKey(given, threshold) = Ok(Bytes(given))
         /\ IsKey(Bytes(given))
BY DEF ReconstructKey, Reconstruct, Raises, Ok

\* The differences of several x are not 0, nor is their product, since bytes are a
\* field: _gf256_inv finds an inverse of what shamir_reconstruct divides by.
LEMMA DenominatorsAreNotZero ==
  ASSUME NEW given \in Seq(Share), Distinct(given), NEW j \in DOMAIN given
  PROVE  Denominator(Xs(given), j) \in Byte \ {0}
<1> DEFINE n == Len(given)
           xs == Xs(given)
<1>1. n \in Nat /\ DOMAIN given = 1 .. n /\ j \in 1 .. n
  OBVIOUS
<1>2. /\ xs \in [1 .. n -> Byte] /\ OneToOne(xs, n) /\ Len(xs) = n
      /\ \A m \in 1 .. n : xs[m] = given[m].x
  <2>1. \A m \in 1 .. n : given[m].x \in Byte
    <3>1. \A m \in 1 .. n : given[m] \in Share
      BY <1>1, Elements
    <3> QED BY <3>1 DEF Share
  <2>2. xs = [m \in 1 .. n |-> given[m].x]
    BY <1>1 DEF Xs
  <2> HIDE DEF n, xs
  <2>3. xs \in [1 .. n -> Byte] /\ Len(xs) = n /\ \A m \in 1 .. n : xs[m] = given[m].x
    BY <1>1, <2>1, <2>2
  <2>4. OneToOne(xs, n)
    BY <1>1, <2>3 DEF Distinct, OneToOne
  <2> QED BY <2>3, <2>4
<1> HIDE DEF n, xs
<1>3. Product(Factors(xs, n, j, xs[j]), n) \in Byte \ {0}
  BY <1>1, <1>2, NumeratorAtPoints
<1>4. [m \in 1 .. n |-> IF m = j THEN 1 ELSE Xor[xs[j]][xs[m]]]
        = Terms(Factors(xs, n, j, xs[j]), n)
  BY <1>1, <1>2 DEF Terms, Factors
<1>5. Denominator(xs, j) = Product(Factors(xs, n, j, xs[j]), n)
  BY <1>2, <1>4 DEF Denominator, Product
<1> QED BY <1>3, <1>5 DEF xs

LEMMA ErrorsAre ==
  ASSUME NEW given \in Seq(Share), NEW threshold
  PROVE  LET r == ReconstructKey(given, threshold) IN
         /\ r.error \in {"", "ValueError", "IndexError"}
         /\ r.error # "" => r.key = <<>>
<1>1. Distinct(given) => ~ \E j \in DOMAIN given : Denominator(Xs(given), j) = 0
  BY DenominatorsAreNotZero
<1>2. \/ Reconstruct(given, threshold) = Raises("ValueError")
      \/ Reconstruct(given, threshold) = Raises("IndexError")
      \/ Reconstruct(given, threshold) = Ok(Bytes(given))
  BY <1>1, Zenon DEF Reconstruct
<1>3. /\ Reconstruct(given, threshold).error \in {"", "ValueError", "IndexError"}
      /\ Reconstruct(given, threshold).error # "" => Reconstruct(given, threshold).key = <<>>
  <2>1. CASE Reconstruct(given, threshold) = Raises("ValueError")
    BY <2>1, Forms
  <2>2. CASE Reconstruct(given, threshold) = Raises("IndexError")
    BY <2>2, Forms
  <2>3. CASE Reconstruct(given, threshold) = Ok(Bytes(given))
    BY <2>3, Forms
  <2> QED BY <1>2, <2>1, <2>2, <2>3
<1>4. \/ ReconstructKey(given, threshold) = Raises("ValueError")
      \/ ReconstructKey(given, threshold) = Reconstruct(given, threshold)
  BY Zenon DEF ReconstructKey
<1>5. CASE ReconstructKey(given, threshold) = Raises("ValueError")
  BY <1>5, Forms
<1>6. CASE ReconstructKey(given, threshold) = Reconstruct(given, threshold)
  BY <1>3, <1>6
<1> QED BY <1>4, <1>5, <1>6

\* The values at a share's x of the polynomial that a digit of the key is hidden in.
LEMMA DigitPolynomial ==
  ASSUME NEW n \in Nat, NEW t \in Nat, 1 <= t, t <= n, NEW row \in Coefficients(t)
  PROVE  \E p \in Polynomial(n) : p[0] = row[1] /\ \A x \in Byte : p[x] = Evaluate(row, x)
<1> DEFINE p == [x \in Byte |-> Evaluate(row, x)]
<1>1. p \in [Byte -> Byte] /\ \A x \in Byte : p[x] = Evaluate(row, x)
  BY EvaluateSum
<1> HIDE DEF p
<1>2. p \in Polynomial(t)
  BY <1>1 DEF Polynomial
<1>3. p \in Polynomial(n)
  BY <1>2, MoreCoefficients
<1>4. Evaluate(row, 0) = row[1]
  <2> DEFINE l == t - 1
  <2>1. l \in Nat /\ row \in Coefficients(l + 1)
    OBVIOUS
  <2> HIDE DEF l
  <2> QED BY <2>1, FirstCoefficient
<1> QED BY <1>1, <1>3, <1>4, Zero

\* Of at least k shares held, all but one are what shamir_split_48digit returned:
\* so is that one exactly if the key comes out.
LEMMA AllButOne ==
  ASSUME SplitInv, HeldInv, shares # <<>>, k <= Len(held), Distinct(held),
         NEW a \in DOMAIN held, held[a].y \in KeyBytes, \A m \in DOMAIN held \ {a} : Genuine(m)
  PROVE  Bytes(held) = key <=> Genuine(a)
<1> PICK rows \in [1 .. KeyLength -> Coefficients(k)] : Points(rows)
  BY DEF SplitInv
<1> DEFINE n == Len(held)
           x == held[a].x
           xs == [j \in DOMAIN held |-> held[j].x]
           ys(i) == [j \in DOMAIN held |-> held[j].y[i]]
<1>1. n \in Nat /\ DOMAIN held = 1 .. n /\ k \in Nat /\ 2 <= k /\ k <= n /\ key \in KeyBytes
  BY DEF HeldInv, SplitInv
<1>2. \A m \in DOMAIN held : held[m].x \in DOMAIN shares /\ held[m].x \in Byte \ {0}
  BY DEF HeldInv, Points
<1>3. \A m \in DOMAIN held \ {a} : held[m] = shares[held[m].x]
  BY DEF Genuine, Points
<1>4. \A m \in DOMAIN held : held[m].y \in KeyBytes
  BY <1>2, <1>3 DEF Points
<1>5. Bytes(held) = [i \in 1 .. KeyLength |-> Interpolate(xs, ys(i))]
  <2>1. held[1].y \in KeyBytes
    BY <1>1, <1>4
  <2> QED BY <2>1 DEF Bytes, KeyBytes, Xs
<1>6. xs \in [1 .. n -> Byte \ {0}] /\ xs \in [1 .. n -> Byte] /\ OneToOne(xs, n)
  BY <1>1, <1>2 DEF OneToOne, Distinct
<1>7. \A i \in 1 .. KeyLength :
        /\ Interpolate(xs, ys(i)) = key[i] => held[a].y[i] = shares[x].y[i]
        /\ held[a].y[i] = shares[x].y[i] => Interpolate(xs, ys(i)) = key[i]
  <2> SUFFICES ASSUME NEW i \in 1 .. KeyLength
               PROVE  /\ Interpolate(xs, ys(i)) = key[i] => held[a].y[i] = shares[x].y[i]
                      /\ held[a].y[i] = shares[x].y[i] => Interpolate(xs, ys(i)) = key[i]
    OBVIOUS
  <2> DEFINE t == ys(i)
             y == shares[x].y[i]
  <2>1. rows[i] \in Coefficients(k) /\ rows[i][1] = key[i]
    BY DEF Points
  <2> PICK p \in Polynomial(n) :
             p[0] = key[i] /\ \A z \in Byte : p[z] = Evaluate(rows[i], z)
    <3> HIDE DEF n
    <3> QED BY <1>1, <2>1, DigitPolynomial
  <2>2. t \in [1 .. n -> Byte] /\ \A m \in 1 .. n : t[m] = held[m].y[i]
    BY <1>1, <1>4 DEF KeyBytes
  <2>3. \A m \in 1 .. n : shares[xs[m]].y[i] = p[xs[m]]
    BY <1>1, <1>2 DEF Points
  <2>4. y = p[xs[a]] /\ a \in 1 .. n /\ t[a] = held[a].y[i]
    BY <1>1, <2>2, <2>3
  <2>5. \A m \in 1 .. n \ {a} : On(p, xs, t, m)
    BY <1>1, <1>3, <2>2, <2>3 DEF On
  <2> HIDE DEF t, xs, n, y
  <2>6. Interpolate(xs, t) = p[0] => On(p, xs, t, a)
    BY <1>1, <1>6, <2>2, <2>4, <2>5, OneWrongPoint
  <2>7. On(p, xs, t, a) => Interpolate(xs, t) = p[0]
    <3> SUFFICES ASSUME On(p, xs, t, a) PROVE Interpolate(xs, t) = p[0]
      OBVIOUS
    <3>1. \A m \in 1 .. n : On(p, xs, t, m)
      BY <2>5
    <3> QED BY <1>1, <1>6, <2>2, <3>1, EnoughPoints
  <2> QED BY <2>4, <2>6, <2>7 DEF On, t, y
<1> HIDE DEF xs, ys
<1>8. Bytes(held) = key <=> \A i \in 1 .. KeyLength : held[a].y[i] = shares[x].y[i]
  BY <1>1, <1>5, <1>7 DEF KeyBytes
<1>9. held[a] \in [x : Byte \ {0}, y : KeyBytes] /\ shares[x] \in [x : Byte \ {0}, y : KeyBytes]
  <2>1. held[a] \in Share
    <3>1. held \in Seq(Share) /\ a \in DOMAIN held
      BY DEF HeldInv
    <3> QED BY <3>1, Elements, Zenon
  <2> QED BY <1>2, <2>1 DEF Points, Share
<1>10. (\A i \in 1 .. KeyLength : held[a].y[i] = shares[x].y[i]) => held[a] = shares[x]
  <2> SUFFICES ASSUME \A i \in 1 .. KeyLength : held[a].y[i] = shares[x].y[i]
               PROVE  held[a] = shares[x]
    OBVIOUS
  <2>1. held[a].y = shares[x].y
    <3> DEFINE p == held[a].y
               q == shares[x].y
    <3>1. p \in KeyBytes /\ q \in KeyBytes
      BY <1>9
    <3>2. \A i \in 1 .. KeyLength : p[i] = q[i]
      OBVIOUS
    <3> HIDE DEF p, q
    <3>3. p = q
      BY <3>1, <3>2, SameBytes
    <3> QED BY <3>3 DEF p, q
  <2>2. held[a].x = shares[x].x
    BY <1>2 DEF Points
  <2> QED BY <1>9, <2>1, <2>2
<1>11. Genuine(a) => held[a] = shares[x]
  BY DEF Genuine, Points
<1> QED BY <1>2, <1>8, <1>10, <1>11 DEF Genuine

\* Some of the shares are as many as hold the key.
LEMMA EnoughOfThem ==
  ASSUME IInv, Joined, k <= Len(held)
  PROVE  /\ shares # <<>> /\ result = ReconstructKey(held, asked)
         /\ Len(held) \in Nat /\ DOMAIN held = 1 .. Len(held) /\ 2 <= Len(held)
         /\ \A o \in DOMAIN held : Genuine(o) => held[o].y \in KeyBytes
<1>1. shares # <<>> /\ result = ReconstructKey(held, asked)
  BY DEF IInv, ResultInv, Joined
<1>2. k \in Nat /\ 2 <= k
  BY <1>1 DEF IInv, SplitInv
<1>3. Len(held) \in Nat /\ DOMAIN held = 1 .. Len(held)
  BY DEF IInv, HeldInv
<1> PICK rows \in [1 .. KeyLength -> Coefficients(k)] : Points(rows)
  BY <1>1 DEF IInv, SplitInv
<1>4. \A o \in DOMAIN held : Genuine(o) => held[o].y \in KeyBytes
  BY DEF Genuine, Points
<1> QED BY <1>1, <1>2, <1>3, <1>4

LEMMA EnoughFollows == IInv => EnoughSharesGiveTheKey
<1> SUFFICES ASSUME IInv, Joined, k <= Len(held), asked <= Len(held),
                    Distinct(held), \A j \in DOMAIN held : Genuine(j)
             PROVE  result = Ok(key)
  BY DEF EnoughSharesGiveTheKey
<1>1. /\ shares # <<>> /\ result = ReconstructKey(held, asked)
      /\ Len(held) \in Nat /\ DOMAIN held = 1 .. Len(held) /\ 2 <= Len(held)
      /\ \A o \in DOMAIN held : held[o].y \in KeyBytes
  BY EnoughOfThem
<1>2. 1 \in DOMAIN held /\ held[1].y \in KeyBytes
  BY <1>1
<1>3. Bytes(held) = key
  BY <1>1, <1>2, AllButOne DEF IInv
<1>4. IsKey(key)
  BY <1>1, Lengths DEF IInv, SplitInv, IsKey
<1>5. \A j \in DOMAIN held : held[j].y # NotHex /\ Len(held[j].y) = Len(held[1].y)
  BY <1>1, <1>2, Lengths
<1>6. ~ (Len(held) < asked) /\ held # <<>>
  BY <1>1 DEF IInv, ResultInv
<1>7. Reconstruct(held, asked) = Ok(key)
  <2>1. ~ \E j \in DOMAIN held : Denominator(Xs(held), j) = 0
    BY DenominatorsAreNotZero DEF IInv, HeldInv
  <2> QED BY <1>3, <1>5, <1>6, <2>1 DEF Reconstruct
<1>8. ReconstructKey(held, asked) = Ok(key)
  <2> DEFINE bytes == Reconstruct(held, asked)
  <2>1. bytes.error = "" /\ bytes.key = key /\ bytes = Ok(key)
    BY <1>7, Forms
  <2> HIDE DEF bytes
  <2>2. ReconstructKey(held, asked)
          = IF bytes.error = "" /\ ~ IsKey(bytes.key) THEN Raises("ValueError") ELSE bytes
    BY <1>5, Zenon DEF ReconstructKey, bytes
  <2> QED BY <1>4, <2>1, <2>2
<1> QED BY <1>1, <1>8

LEMMA WrongFollows == IInv => OneWrongShareNeverGivesTheKey
<1> SUFFICES ASSUME IInv, Joined, k <= Len(held), NEW j \in DOMAIN held, ~ Genuine(j),
                    \A m \in DOMAIN held \ {j} : Genuine(m), result = Ok(key)
             PROVE  FALSE
  BY DEF OneWrongShareNeverGivesTheKey
<1>1. /\ shares # <<>> /\ result = ReconstructKey(held, asked)
      /\ Len(held) \in Nat /\ DOMAIN held = 1 .. Len(held) /\ 2 <= Len(held)
      /\ \A o \in DOMAIN held : Genuine(o) => held[o].y \in KeyBytes
  BY EnoughOfThem
<1>2. PICK o \in DOMAIN held : o # j
  <2>1. 1 \in DOMAIN held /\ 2 \in DOMAIN held
    BY <1>1
  <2> QED BY <2>1
<1>3. held[o].y \in KeyBytes
  BY <1>1, <1>2
<1>4. /\ \A m \in DOMAIN held : held[m].y # NotHex /\ Len(held[m].y) = Len(held[1].y)
      /\ Distinct(held) /\ result = Ok(Bytes(held))
  <2>1. ReconstructKey(held, asked).error = ""
    BY <1>1, Forms
  <2> QED BY <1>1, <2>1, NoErrorMeans, Zenon
<1>5. held[j].y \in KeyBytes
  <2>1. held[j] \in Share
    BY Elements DEF IInv, HeldInv
  <2>2. held[j].y \in Seq(Byte) /\ Len(held[j].y) = KeyLength
    BY <1>2, <1>3, <1>4, <2>1, Lengths DEF Share
  <2> QED BY <2>2 DEF KeyBytes
<1>6. Bytes(held) = key
  <2>1. Ok(Bytes(held)) = Ok(key)
    BY <1>4
  <2> QED BY <2>1, OkSame, Zenon
<1> QED BY <1>1, <1>4, <1>5, <1>6, AllButOne DEF IInv

\* Through fewer than k places, coefficients of which the first and the values at
\* these places are given.
LEMMA AnyValues ==
  ASSUME IInv, shares # <<>>, NEW some \in SUBSET (DOMAIN shares), Cardinality(some) < k,
         NEW value \in [some -> Byte], NEW first \in Byte
  PROVE  \E row \in Coefficients(k) :
           row[1] = first /\ \A s \in some : Evaluate(row, shares[s].x) = value[s]
<1>1. k \in Nat /\ 2 <= k /\ shares \in Seq(Share)
  BY DEF IInv, SplitInv
<1> PICK rows \in [1 .. KeyLength -> Coefficients(k)] : Points(rows)
  BY DEF IInv, SplitInv
<1> DEFINE m == Cardinality(some)
<1>2. m \in Nat /\ ExistsBijection(1 .. m, some)
  <2>1. Len(shares) \in Nat /\ DOMAIN shares = 1 .. Len(shares)
    BY <1>1
  <2>2. IsFiniteSet(1 .. Len(shares))
    BY <2>1, FS_Interval
  <2>3. IsFiniteSet(some)
    BY <2>1, <2>2, FS_Subset
  <2> QED BY <2>3, FS_CardinalityType
<1> HIDE DEF m
<1> PICK f : f \in Bijection(1 .. m, some)
  BY <1>2 DEF ExistsBijection
<1>3. /\ \A n \in 1 .. m : f[n] \in some
      /\ \A n, l \in 1 .. m : f[n] = f[l] => n = l
      /\ \A s \in some : \E n \in 1 .. m : f[n] = s
  BY DEF Bijection, Injection, Surjection, IsInjective
<1> DEFINE xs == [n \in 1 .. m |-> f[n]]
           ys == [n \in 1 .. m |-> value[f[n]]]
<1>4. \A s \in some : s \in Byte \ {0} /\ shares[s].x = s
  BY DEF Points
<1>5. /\ xs \in [1 .. m -> Byte \ {0}] /\ ys \in [1 .. m -> Byte]
      /\ \A n \in 1 .. m : xs[n] = f[n] /\ ys[n] = value[f[n]]
  BY <1>3, <1>4
<1> HIDE DEF xs, ys
<1>6. OneToOne(xs, m)
  BY <1>3, <1>5 DEF OneToOne
<1> PICK row \in Coefficients(k) :
           row[1] = first /\ \A n \in 1 .. m : Evaluate(row, xs[n]) = ys[n]
  <2>1. m < k
    BY DEF m
  <2>2. Through(k, first, m, xs, ys)
    BY <1>1, <1>2, <1>5, <1>6, <2>1, TooFewPoints
  <2> QED BY <2>2 DEF Through
<1>7. \A s \in some : Evaluate(row, shares[s].x) = value[s]
  BY <1>3, <1>4, <1>5
<1> QED BY <1>7

\* The random bytes with which digit i of the key would be shared as the shares in
\* some say, if it were this digit.
Fitting(some, i, digit) ==
  {random \in [2 .. k -> Byte] :
     \A s \in some : Evaluate(Row(k, digit, random), shares[s].x) = shares[s].y[i]}

FewerSharesHideTheKey ==
  \A some \in SUBSET (DOMAIN shares), i \in 1 .. KeyLength, digit \in Digit :
    Cardinality(some) < k => Fitting(some, i, digit) # {}

LEMMA FewerHide == IInv => FewerSharesHideTheKey
<1> SUFFICES ASSUME IInv, NEW some \in SUBSET (DOMAIN shares), NEW i \in 1 .. KeyLength,
                    NEW digit \in Digit, Cardinality(some) < k
             PROVE  \E random \in [2 .. k -> Byte] :
                      \A s \in some : Evaluate(Row(k, digit, random), shares[s].x) = shares[s].y[i]
  BY DEF FewerSharesHideTheKey, Fitting
<1>1. shares \in Seq(Share) /\ digit \in Byte
  BY DigitAssumption DEF IInv, SplitInv
<1>2. CASE shares = <<>>
  <2>1. some = {}
    BY <1>2
  <2>2. [j \in 2 .. k |-> digit] \in [2 .. k -> Byte]
    BY <1>1
  <2> QED BY <2>1, <2>2
<1>3. CASE shares # <<>>
  <2>1. k \in Nat /\ 2 <= k
    BY <1>3 DEF IInv, SplitInv
  <2> DEFINE value == [s \in some |-> shares[s].y[i]]
  <2>2. value \in [some -> Byte]
    <3> PICK rows \in [1 .. KeyLength -> Coefficients(k)] : Points(rows)
      BY <1>3 DEF IInv, SplitInv
    <3> SUFFICES ASSUME NEW s \in some PROVE shares[s].y[i] \in Byte
      OBVIOUS
    <3>1. shares[s] \in [x : Byte \ {0}, y : KeyBytes]
      BY DEF Points
    <3> QED BY <3>1 DEF KeyBytes
  <2>3. \A s \in some : value[s] = shares[s].y[i]
    OBVIOUS
  <2> HIDE DEF value
  <2> PICK row \in Coefficients(k) :
             row[1] = digit /\ \A s \in some : Evaluate(row, shares[s].x) = value[s]
    BY <1>1, <1>3, <2>2, AnyValues
  <2> DEFINE random == [j \in 2 .. k |-> row[j]]
  <2>4. random \in [2 .. k -> Byte]
    BY <2>1 DEF Coefficients
  <2>5. Row(k, digit, random) = row
    BY <2>1 DEF Row, Coefficients
  <2>6. \A s \in some : Evaluate(row, shares[s].x) = shares[s].y[i]
    BY <2>3
  <2> HIDE DEF random
  <2> QED BY <2>4, <2>5, <2>6
<1> QED BY <1>2, <1>3

\* What fits one digit and what fits another one correspond to each other, so that
\* with random bytes that are drawn evenly the digits remain as likely as before.
FewerSharesFavourNoKey ==
  \A some \in SUBSET (DOMAIN shares), i \in 1 .. KeyLength, d, e \in Digit :
    Cardinality(some) < k => ExistsBijection(Fitting(some, i, d), Fitting(some, i, e))

Masked(random, mask) == [j \in 2 .. k |-> Xor[random[j]][mask[j]]]

\* A mask that is zero at the places of the shares takes what fits d to what fits e.
LEMMA MaskFits ==
  ASSUME IInv, shares # <<>>, NEW some \in SUBSET (DOMAIN shares), NEW i \in 1 .. KeyLength,
         NEW d \in Byte, NEW e \in Byte, NEW mask \in Coefficients(k), mask[1] = Xor[d][e],
         \A s \in some : Evaluate(mask, shares[s].x) = 0,
         NEW random \in Fitting(some, i, d)
  PROVE  Masked(random, mask) \in Fitting(some, i, e)
<1>1. k \in Nat /\ 2 <= k
  BY DEF IInv, SplitInv
<1>2. random \in [2 .. k -> Byte] /\ mask \in [1 .. k -> Byte]
  BY DEF Fitting, Coefficients
<1>3. Masked(random, mask) \in [2 .. k -> Byte]
  <2> SUFFICES ASSUME NEW j \in 2 .. k PROVE Xor[random[j]][mask[j]] \in Byte
    BY DEF Masked
  <2> QED BY <1>1, <1>2, XorBasics
<1> DEFINE u == Row(k, d, random)
           v == Row(k, e, Masked(random, mask))
<1>4. u \in Coefficients(k) /\ v \in Coefficients(k)
  BY <1>1, <1>2, <1>3 DEF Row, Coefficients
<1>5. ASSUME NEW j \in 1 .. k
      PROVE  v[j] = Xor[u[j]][mask[j]]
  <2>1. CASE j = 1
    <3>1. v[1] = e /\ u[1] = d
      BY <1>1 DEF Row
    <3>2. Xor[d][Xor[d][e]] = e
      BY XorCancels
    <3> QED BY <2>1, <3>1, <3>2
  <2>2. CASE j # 1
    BY <2>2 DEF Row, Masked
  <2> QED BY <2>1, <2>2
<1> HIDE DEF u, v
<1>6. ASSUME NEW s \in some
      PROVE  Evaluate(v, shares[s].x) = shares[s].y[i]
  <2> PICK rows \in [1 .. KeyLength -> Coefficients(k)] : Points(rows)
    BY DEF IInv, SplitInv
  <2> DEFINE x == shares[s].x
  <2>1. x \in Byte
    BY DEF Points
  <2>2. Evaluate(u, x) = shares[s].y[i] /\ Evaluate(mask, x) = 0
    BY DEF Fitting, u
  <2> HIDE DEF x
  <2>3. Evaluate(v, x) = Xor[Evaluate(u, x)][Evaluate(mask, x)]
    BY <1>1, <1>4, <1>5, <2>1, EvaluateAdds
  <2>4. Evaluate(u, x) \in Byte
    BY <1>1, <1>4, <2>1, EvaluateSum
  <2> QED BY <2>2, <2>3, <2>4, XorBasics DEF x
<1> QED BY <1>3, <1>6 DEF Fitting, v

LEMMA FewerFavourNone == IInv => FewerSharesFavourNoKey
<1> SUFFICES ASSUME IInv, NEW some \in SUBSET (DOMAIN shares), NEW i \in 1 .. KeyLength,
                    NEW d \in Digit, NEW e \in Digit, Cardinality(some) < k
             PROVE  ExistsBijection(Fitting(some, i, d), Fitting(some, i, e))
  BY DEF FewerSharesFavourNoKey
<1> DEFINE A == Fitting(some, i, d)
           B == Fitting(some, i, e)
<1>1. d \in Byte /\ e \in Byte /\ shares \in Seq(Share)
  BY DigitAssumption DEF IInv, SplitInv
<1>2. ASSUME NEW f \in [A -> B], NEW g \in [B -> A],
             \A a \in A : g[f[a]] = a, \A b \in B : f[g[b]] = b
      PROVE  ExistsBijection(A, B)
  <2> HIDE DEF A, B
  <2>1. f \in Bijection(A, B)
    BY <1>2 DEF Bijection, Injection, Surjection, IsInjective
  <2> QED BY <2>1 DEF ExistsBijection
<1>3. CASE shares = <<>>
  <2>1. some = {}
    BY <1>3
  <2>2. A = B
    BY <2>1 DEF Fitting
  <2> HIDE DEF A, B
  <2>3. [a \in A |-> a] \in [A -> B] /\ [b \in B |-> b] \in [B -> A]
    BY <2>2
  <2> QED BY <1>2, <2>2, <2>3 DEF A, B
<1>4. CASE shares # <<>>
  <2> DEFINE zero == [s \in some |-> 0]
  <2>1. zero \in [some -> Byte] /\ Xor[d][e] \in Byte /\ Xor[e][d] = Xor[d][e]
    BY <1>1, Zero, XorBasics
  <2>2. \A s \in some : zero[s] = 0
    OBVIOUS
  <2> HIDE DEF zero
  <2> PICK mask \in Coefficients(k) :
             mask[1] = Xor[d][e] /\ \A s \in some : Evaluate(mask, shares[s].x) = zero[s]
    BY <1>4, <2>1, AnyValues
  <2> DEFINE f == [a \in A |-> Masked(a, mask)]
             g == [b \in B |-> Masked(b, mask)]
  <2>3. \A s \in some : Evaluate(mask, shares[s].x) = 0
    BY <2>2
  <2>4. \A a \in A : Masked(a, mask) \in B
    BY <1>1, <1>4, <2>3, MaskFits
  <2>5. \A b \in B : Masked(b, mask) \in A
    BY <1>1, <1>4, <2>1, <2>3, MaskFits
  <2>6. ASSUME NEW r \in [2 .. k -> Byte]
        PROVE  Masked(Masked(r, mask), mask) = r
    <3>1. k \in Nat /\ 2 <= k /\ mask \in [1 .. k -> Byte]
      BY <1>4 DEF IInv, SplitInv, Coefficients
    <3>2. \A j \in 2 .. k : Xor[Xor[r[j]][mask[j]]][mask[j]] = r[j]
      BY <3>1, XorCancels
    <3> QED BY <3>2 DEF Masked
  <2>7. A \subseteq [2 .. k -> Byte] /\ B \subseteq [2 .. k -> Byte]
    BY DEF Fitting
  <2> HIDE DEF A, B
  <2>8. f \in [A -> B] /\ g \in [B -> A]
    BY <2>4, <2>5
  <2>9. \A a \in A : g[f[a]] = a
    BY <2>4, <2>6, <2>7
  <2>10. \A b \in B : f[g[b]] = b
    BY <2>5, <2>6, <2>7
  <2> HIDE DEF f, g
  <2> QED BY <1>2, <2>8, <2>9, <2>10 DEF A, B
<1> QED BY <1>3, <1>4

LEMMA HidesFollows == IInv => OneShareHidesTheKey
<1> SUFFICES ASSUME IInv, NEW s \in DOMAIN shares, NEW i \in 1 .. KeyLength, NEW digit \in Digit
             PROVE  \E random \in [2 .. k -> Byte] :
                      Evaluate(Row(k, digit, random), shares[s].x) = shares[s].y[i]
  BY DEF OneShareHidesTheKey
<1>1. k \in Nat /\ 2 <= k
  BY DEF IInv, SplitInv
<1>2. {s} \in SUBSET (DOMAIN shares) /\ Cardinality({s}) = 1
  BY FS_Singleton
<1>3. Cardinality({s}) < k
  BY <1>1, <1>2
<1>4. FewerSharesHideTheKey
  BY FewerHide
<1>5. \E random \in [2 .. k -> Byte] :
        \A z \in {s} : Evaluate(Row(k, digit, random), shares[z].x) = shares[z].y[i]
  BY <1>2, <1>3, <1>4 DEF FewerSharesHideTheKey, Fitting
<1> QED BY <1>5

LEMMA ErrorsFollow == IInv => NeverDividesByZero
<1> SUFFICES ASSUME IInv PROVE result.error # "ZeroDivisionError"
  BY DEF NeverDividesByZero
<1>1. CASE result = Pending
  BY <1>1, Forms
<1>2. CASE result = Raises("ValueError")
  BY <1>2, Forms
<1>3. CASE result = ReconstructKey(held, asked)
  BY <1>3, ErrorsAre DEF IInv, HeldInv
<1> QED BY <1>1, <1>2, <1>3 DEF IInv, ResultInv

LEMMA TypesFollow == IInv => TypeOK
<1> SUFFICES ASSUME IInv PROVE TypeOK
  OBVIOUS
<1>1. /\ result.error \in {"pending", "", "ValueError", "IndexError", "ZeroDivisionError"}
      /\ result.error # "" => result.key = <<>>
  <2>1. CASE result = Pending
    BY <2>1 DEF Pending
  <2>2. CASE result = Raises("ValueError")
    BY <2>2 DEF Raises
  <2>3. CASE result = ReconstructKey(held, asked)
    BY <2>3, ErrorsAre DEF IInv, HeldInv
  <2> QED BY <2>1, <2>2, <2>3 DEF IInv, ResultInv
<1>2. result.error = "" => IsKey(result.key)
  <2> SUFFICES ASSUME result.error = "" PROVE IsKey(result.key)
    OBVIOUS
  <2>1. result = ReconstructKey(held, asked)
    BY Forms DEF IInv, ResultInv
  <2>2. result = Ok(Bytes(held)) /\ IsKey(Bytes(held))
    BY <2>1, NoErrorMeans, Zenon
  <2>3. result.key = Bytes(held)
    BY <2>2, Forms, Zenon
  <2> QED BY <2>2, <2>3
<1>3. /\ key \in Seq(Digit) /\ shares \in Seq(Share) /\ held \in Seq(Share)
      /\ Len(held) <= MaxHeld /\ asked \in Int
  BY DEF IInv, SplitInv, HeldInv, ResultInv
<1> QED BY <1>1, <1>2, <1>3 DEF TypeOK

-----------------------------------------------------------------------------
(* Theorems.                                                               *)

\* The shares of a split are points of polynomials through the bytes of its key,
\* whatever random bytes and whatever field they are made of.
THEOREM InvariantHolds == Spec => []IInv
<1>1. Init => IInv
  BY InitHolds
<1>2. IInv /\ [Next]_vars => IInv'
  BY NextKeeps
<1> QED BY <1>1, <1>2, PTL DEF Spec

\* What shamir_reconstruct_48digit returns is a key, whatever shares it got.
THEOREM TypeCorrect == Spec => []TypeOK
<1>1. IInv => TypeOK
  BY TypesFollow
<1>2. Spec => []IInv
  BY InvariantHolds
<1> QED BY <1>1, <1>2, PTL

\* Any k shares or more of a key, in any order, give it back.
THEOREM SharesGiveTheKey == Spec => []EnoughSharesGiveTheKey
<1>1. IInv => EnoughSharesGiveTheKey
  BY EnoughFollows
<1>2. Spec => []IInv
  BY InvariantHolds
<1> QED BY <1>1, <1>2, PTL

\* One share fits every digit of the key.
THEOREM OneShareTellsNothing == Spec => []OneShareHidesTheKey
<1>1. IInv => OneShareHidesTheKey
  BY HidesFollows
<1>2. Spec => []IInv
  BY InvariantHolds
<1> QED BY <1>1, <1>2, PTL

\* Shares of which one is not what shamir_split_48digit returned never give the
\* key, however many they are.
THEOREM WrongShareNeverGivesTheKey == Spec => []OneWrongShareNeverGivesTheKey
<1>1. IInv => OneWrongShareNeverGivesTheKey
  BY WrongFollows
<1>2. Spec => []IInv
  BY InvariantHolds
<1> QED BY <1>1, <1>2, PTL

\* Fewer shares than the threshold, whichever they are and however many, fit
\* every digit of the key.
THEOREM FewerSharesTellNothing == Spec => []FewerSharesHideTheKey
<1>1. IInv => FewerSharesHideTheKey
  BY FewerHide
<1>2. Spec => []IInv
  BY InvariantHolds
<1> QED BY <1>1, <1>2, PTL

\* Nor do they make one digit more likely than another: as many random bytes fit
\* the one as the other.
THEOREM FewerSharesFavourNothing == Spec => []FewerSharesFavourNoKey
<1>1. IInv => FewerSharesFavourNoKey
  BY FewerFavourNone
<1>2. Spec => []IInv
  BY InvariantHolds
<1> QED BY <1>1, <1>2, PTL

\* Whatever shares are brought, none of those that are not refused divides by zero:
\* shares with several x have denominators other than 0.
THEOREM NoDivisionByZero == Spec => []NeverDividesByZero
<1>1. IInv => NeverDividesByZero
  BY ErrorsFollow
<1>2. Spec => []IInv
  BY InvariantHolds
<1> QED BY <1>1, <1>2, PTL

=============================================================================
