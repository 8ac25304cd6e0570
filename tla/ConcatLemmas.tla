---------------------------- MODULE ConcatLemmas ----------------------------
(* Sequences put together without a separator, as _fingerprint_standard      *)
(* does with the two ids of an identity before it hashes them.               *)
EXTENDS Sequences, Naturals, SequenceTheorems, TLAPS

\* Sequences that end in parts of one length are equal part by part: what
\* _fingerprint_standard hashes has no separator, and needs none.
LEMMA ConcatCancels ==
  ASSUME NEW Symbol, NEW u \in Seq(Symbol), NEW v \in Seq(Symbol),
         NEW e \in Seq(Symbol), NEW f \in Seq(Symbol),
         Len(e) = Len(f), u \o e = v \o f
  PROVE  u = v /\ e = f
<1>1. /\ Len(u \o e) = Len(u) + Len(e) /\ Len(v \o f) = Len(v) + Len(f)
      /\ Len(u) \in Nat /\ Len(v) \in Nat /\ Len(e) \in Nat
  BY ConcatProperties, LenProperties
<1>2. Len(u) = Len(v)
  BY <1>1
<1>3. \A i \in 1 .. Len(u) : u[i] = v[i]
  <2> SUFFICES ASSUME NEW i \in 1 .. Len(u) PROVE u[i] = v[i]
    OBVIOUS
  <2>1. (u \o e)[i] = u[i]
    BY <1>1, ConcatProperties
  <2>2. (v \o f)[i] = v[i]
    BY <1>1, <1>2, ConcatProperties
  <2> QED
    BY <2>1, <2>2
<1>4. \A i \in 1 .. Len(e) : e[i] = f[i]
  <2> SUFFICES ASSUME NEW i \in 1 .. Len(e) PROVE e[i] = f[i]
    OBVIOUS
  <2> DEFINE j == i + Len(u)
  <2>1. j \in 1 .. (Len(u) + Len(e)) /\ j > Len(u) /\ j - Len(u) = i
    BY <1>1
  <2> HIDE DEF j
  <2>2. (u \o e)[j] = e[i]
    BY <1>1, <2>1, ConcatProperties
  <2>3. (v \o f)[j] = f[i]
    BY <1>1, <1>2, <2>1, ConcatProperties
  <2> QED
    BY <2>2, <2>3
<1> QED
  BY <1>2, <1>3, <1>4, SeqEqual

=============================================================================
