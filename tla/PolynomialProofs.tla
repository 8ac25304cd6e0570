-------------------------- MODULE PolynomialProofs --------------------------
(* What Shamir's sums, products and polynomials compute, for every field and *)
(* every number of terms: a polynomial with as many roots as coefficients is *)
(* zero, hence interpolation finds the one polynomial through its points.    *)
EXTENDS Shamir, WellFoundedInduction, TLAPS

-----------------------------------------------------------------------------
(* Induction, with a set in place of a predicate.                          *)

Less == {pair \in Nat \X Nat : pair[1] < pair[2]}

LEMMA LessIsWellFounded == IsWellFoundedOn(Less, Nat)
BY NatLessThanWellFounded DEF OpToRel, Less

LEMMA SetInduction ==
  ASSUME NEW S, 0 \in S, \A n \in Nat : n \in S => n + 1 \in S
  PROVE  \A n \in Nat : n \in S
<1> DEFINE T == Nat \ S
<1> SUFFICES ASSUME T # {} PROVE FALSE
  OBVIOUS
<1>1. \E x \in T : \A y \in T : ~ (<<y, x>> \in Less)
  <2>1. T \subseteq Nat
    OBVIOUS
  <2> HIDE DEF T
  <2> QED BY <2>1, LessIsWellFounded, WFMin
<1> PICK x \in T : \A y \in T : ~ (<<y, x>> \in Less)
  BY <1>1
<1>2. \A y \in T : ~ (y < x)
  BY DEF Less
<1>3. x # 0 /\ x - 1 \in T
  OBVIOUS
<1> QED BY <1>2, <1>3

-----------------------------------------------------------------------------
(* The field.                                                              *)

LEMMA Zero == 0 \in Byte /\ 1 \in Byte /\ 0 # 1
BY WidthAssumption DEF Byte

LEMMA Ordered == \A a, b \in Byte : a <= b \/ b <= a
BY WidthAssumption DEF Byte

LEMMA XorBasics ==
  ASSUME NEW a \in Byte, NEW b \in Byte
  PROVE  /\ Xor[a][b] \in Byte /\ Xor[a][b] = Xor[b][a]
         /\ Xor[0][a] = a /\ Xor[a][0] = a /\ Xor[a][a] = 0
BY FieldAssumption, Zero DEF Group

LEMMA XorAssociates ==
  ASSUME NEW a \in Byte, NEW b \in Byte, NEW c \in Byte
  PROVE  Xor[Xor[a][b]][c] = Xor[a][Xor[b][c]]
<1>1. a <= c => Xor[Xor[a][b]][c] = Xor[a][Xor[b][c]]
  BY FieldAssumption DEF Group
<1>2. c <= a => Xor[Xor[c][b]][a] = Xor[c][Xor[b][a]]
  BY FieldAssumption DEF Group
<1>3. Xor[a][b] \in Byte /\ Xor[b][c] \in Byte /\ Xor[c][b] = Xor[b][c] /\ Xor[b][a] = Xor[a][b]
  BY XorBasics
<1>4. Xor[Xor[b][c]][a] = Xor[a][Xor[b][c]] /\ Xor[c][Xor[a][b]] = Xor[Xor[a][b]][c]
  BY <1>3, XorBasics
<1> QED BY <1>1, <1>2, <1>3, <1>4, Ordered, Zenon

\* What is added twice goes away.
LEMMA XorCancels ==
  ASSUME NEW a \in Byte, NEW b \in Byte, NEW c \in Byte
  PROVE  /\ Xor[Xor[a][b]][b] = a /\ Xor[a][Xor[a][b]] = b
         /\ Xor[Xor[a][b]][c] = Xor[Xor[a][c]][b]
         /\ (Xor[a][b] = 0 <=> a = b)
<1>1. Xor[Xor[a][b]][b] = a
  <2>1. Xor[Xor[a][b]][b] = Xor[a][Xor[b][b]]
    BY XorAssociates
  <2> QED BY <2>1, XorBasics
<1>2. Xor[a][Xor[a][b]] = b
  <2>1. Xor[Xor[a][a]][b] = Xor[a][Xor[a][b]]
    BY XorAssociates
  <2> QED BY <2>1, XorBasics
<1>3. Xor[Xor[a][b]][c] = Xor[a][Xor[b][c]] /\ Xor[Xor[a][c]][b] = Xor[a][Xor[c][b]]
  BY XorAssociates, Zenon
<1>4. Xor[b][c] = Xor[c][b] /\ Xor[0][b] = b /\ Xor[a][a] = 0
  BY XorBasics, Zenon
<1> QED BY <1>1, <1>2, <1>3, <1>4, Zenon

LEMMA MulBasics ==
  ASSUME NEW a \in Byte, NEW b \in Byte
  PROVE  Mul[a][b] \in Byte /\ Mul[a][b] = Mul[b][a] /\ Mul[1][a] = a /\ Mul[a][1] = a
BY FieldAssumption, Zero DEF Field

LEMMA MulAssociates ==
  ASSUME NEW a \in Byte, NEW b \in Byte, NEW c \in Byte
  PROVE  Mul[Mul[a][b]][c] = Mul[a][Mul[b][c]]
<1>1. a <= c => Mul[Mul[a][b]][c] = Mul[a][Mul[b][c]]
  BY FieldAssumption DEF Field
<1>2. c <= a => Mul[Mul[c][b]][a] = Mul[c][Mul[b][a]]
  BY FieldAssumption DEF Field
<1>3. Mul[a][b] \in Byte /\ Mul[b][c] \in Byte /\ Mul[c][b] = Mul[b][c] /\ Mul[b][a] = Mul[a][b]
  BY MulBasics
<1>4. Mul[Mul[b][c]][a] = Mul[a][Mul[b][c]] /\ Mul[c][Mul[a][b]] = Mul[Mul[a][b]][c]
  BY <1>3, MulBasics
<1> QED BY <1>1, <1>2, <1>3, <1>4, Ordered, Zenon

LEMMA MulDistributes ==
  ASSUME NEW a \in Byte, NEW b \in Byte, NEW c \in Byte
  PROVE  Mul[a][Xor[b][c]] = Xor[Mul[a][b]][Mul[a][c]]
<1>1. b <= c => Mul[a][Xor[b][c]] = Xor[Mul[a][b]][Mul[a][c]]
  BY FieldAssumption DEF Field
<1>2. c <= b => Mul[a][Xor[c][b]] = Xor[Mul[a][c]][Mul[a][b]]
  BY FieldAssumption DEF Field
<1>3. Mul[a][b] \in Byte /\ Mul[a][c] \in Byte /\ Xor[c][b] = Xor[b][c]
  BY MulBasics, XorBasics
<1>4. Xor[Mul[a][c]][Mul[a][b]] = Xor[Mul[a][b]][Mul[a][c]]
  BY <1>3, XorBasics
<1> QED BY <1>1, <1>2, <1>3, <1>4, Ordered, Zenon

LEMMA InvLaw ==
  ASSUME NEW x \in Byte \ {0}
  PROVE  Inv[x] \in Byte /\ Mul[x][Inv[x]] = 1
<1>1. \E i \in Byte : Mul[x][i] = 1
  BY FieldAssumption DEF Field
<1> QED BY <1>1 DEF Inv

\* A factor other than 0 can be left out of an equation.
LEMMA MulCancels ==
  ASSUME NEW d \in Byte \ {0}, NEW a \in Byte, NEW b \in Byte, Mul[d][a] = Mul[d][b]
  PROVE  a = b
<1> DEFINE e == Inv[d]
<1>1. e \in Byte /\ Mul[e][d] = 1
  BY InvLaw, MulBasics
<1> HIDE DEF e
<1>2. Mul[e][Mul[d][a]] = Mul[Mul[e][d]][a] /\ Mul[e][Mul[d][b]] = Mul[Mul[e][d]][b]
  BY <1>1, MulAssociates
<1> QED BY <1>1, <1>2, MulBasics


LEMMA MulZero ==
  ASSUME NEW a \in Byte
  PROVE  Mul[a][0] = 0 /\ Mul[0][a] = 0
<1>1. Mul[a][Xor[1][1]] = Xor[Mul[a][1]][Mul[a][1]]
  BY Zero, MulDistributes
<1>2. Xor[1][1] = 0 /\ Mul[a][1] = a /\ Xor[a][a] = 0
  BY Zero, XorBasics, MulBasics
<1> QED BY <1>1, <1>2, Zero, MulBasics

LEMMA NoZeroDivisors ==
  ASSUME NEW a \in Byte, NEW b \in Byte
  PROVE  Mul[a][b] = 0 <=> a = 0 \/ b = 0
<1>1. ASSUME Mul[a][b] = 0, a # 0
      PROVE  b = 0
  <2>1. Mul[a][b] = Mul[a][0]
    BY <1>1, MulZero
  <2> QED BY <1>1, <2>1, MulCancels, Zero
<1> QED BY <1>1, MulZero

LEMMA XorSwaps ==
  ASSUME NEW a \in Byte, NEW b \in Byte, NEW c \in Byte, NEW d \in Byte
  PROVE  Xor[Xor[a][b]][Xor[c][d]] = Xor[Xor[a][c]][Xor[b][d]]
<1> DEFINE ab == Xor[a][b]
           ac == Xor[a][c]
<1>1. ab \in Byte /\ ac \in Byte
  BY XorBasics
<1>2. Xor[ab][c] = Xor[ac][b]
  BY XorCancels
<1> HIDE DEF ab, ac
<1>3. Xor[Xor[ab][c]][d] = Xor[ab][Xor[c][d]] /\ Xor[Xor[ac][b]][d] = Xor[ac][Xor[b][d]]
  BY <1>1, XorAssociates
<1> QED BY <1>2, <1>3 DEF ab, ac

-----------------------------------------------------------------------------
(* Sums and products of any number of terms.                               *)

\* What XorAll and MulAll compute on their way.
Loop(op, start, terms, n, f) ==
  f = [j \in 0 .. n |-> IF j = 0 THEN start ELSE op[f[j - 1]][terms[j]]]

LEMMA LoopRuns ==
  ASSUME NEW op, NEW start, NEW terms, NEW n \in Nat
  PROVE  \E f : Loop(op, start, terms, n, f)
<1> DEFINE S == {m \in Nat : \E f : Loop(op, start, terms, m, f)}
<1>1. 0 \in S
  <2>1. Loop(op, start, terms, 0, [j \in 0 .. 0 |-> start])
    BY DEF Loop
  <2> QED BY <2>1
<1>2. ASSUME NEW m \in Nat, m \in S
      PROVE  m + 1 \in S
  <2> PICK f : Loop(op, start, terms, m, f)
    BY <1>2
  <2> DEFINE g == [j \in 0 .. m + 1 |-> IF j <= m THEN f[j] ELSE op[f[m]][terms[m + 1]]]
  <2>1. \A j \in 0 .. m : g[j] = f[j]
    OBVIOUS
  <2>2. g[m + 1] = op[g[m]][terms[m + 1]]
    BY <2>1
  <2>3. \A j \in 0 .. m : f[j] = IF j = 0 THEN start ELSE op[f[j - 1]][terms[j]]
    BY DEF Loop
  <2>4. g = [j \in 0 .. m + 1 |-> g[j]]
    OBVIOUS
  <2> HIDE DEF g
  <2>5. \A j \in 0 .. m + 1 : g[j] = IF j = 0 THEN start ELSE op[g[j - 1]][terms[j]]
    <3> SUFFICES ASSUME NEW j \in 0 .. m + 1
                 PROVE  g[j] = IF j = 0 THEN start ELSE op[g[j - 1]][terms[j]]
      OBVIOUS
    <3>1. CASE j = m + 1
      BY <2>2, <3>1
    <3>2. CASE j \in 0 .. m
      <4>1. j # 0 => j - 1 \in 0 .. m
        BY <3>2
      <4> QED BY <2>1, <2>3, <3>2, <4>1
    <3> QED BY <3>1, <3>2
  <2>6. Loop(op, start, terms, m + 1, g)
    BY <2>4, <2>5 DEF Loop
  <2> QED BY <2>6
<1> HIDE DEF S
<1>3. n \in S
  BY <1>1, <1>2, SetInduction
<1> QED BY <1>3 DEF S

\* It is determined by the terms it has come across.
LEMMA LoopIsOne ==
  ASSUME NEW op, NEW start, NEW n \in Nat, NEW m \in Nat, m <= n, NEW t, NEW u,
         \A j \in 1 .. m : t[j] = u[j],
         NEW f, Loop(op, start, t, n, f), NEW g, Loop(op, start, u, m, g)
  PROVE  f[m] = g[m]
<1> DEFINE S == {j \in Nat : j <= m => f[j] = g[j]}
<1>1. 0 \in S
  BY DEF Loop
<1>2. ASSUME NEW j \in Nat, j \in S
      PROVE  j + 1 \in S
  <2> SUFFICES ASSUME j + 1 <= m PROVE f[j + 1] = g[j + 1]
    OBVIOUS
  <2>1. f[j + 1] = op[f[j]][t[j + 1]]
    BY DEF Loop
  <2>2. g[j + 1] = op[g[j]][u[j + 1]]
    BY DEF Loop
  <2> QED BY <1>2, <2>1, <2>2
<1> HIDE DEF S
<1>3. m \in S
  BY <1>1, <1>2, SetInduction
<1> QED BY <1>3 DEF S

\* The first n terms of f.
Terms(f, n) == [j \in 1 .. n |-> f[j]]
Sum(f, n) == XorAll(Terms(f, n))
Product(f, n) == MulAll(Terms(f, n))

LEMMA SumIsLoop ==
  ASSUME NEW f, NEW n \in Nat
  PROVE  \E loop : Loop(Xor, 0, Terms(f, n), n, loop) /\ Sum(f, n) = loop[n]
<1> DEFINE terms == Terms(f, n)
           loop == CHOOSE g : Loop(Xor, 0, terms, n, g)
<1>1. Len(terms) = n
  BY DEF Terms
<1>2. Loop(Xor, 0, terms, n, loop)
  BY LoopRuns
<1> HIDE DEF terms
<1>3. XorAll(terms) = loop[n]
  BY <1>1 DEF XorAll, Loop
<1> QED BY <1>2, <1>3 DEF Sum, terms

LEMMA ProductIsLoop ==
  ASSUME NEW f, NEW n \in Nat
  PROVE  \E loop : Loop(Mul, 1, Terms(f, n), n, loop) /\ Product(f, n) = loop[n]
<1> DEFINE terms == Terms(f, n)
           loop == CHOOSE g : Loop(Mul, 1, terms, n, g)
<1>1. Len(terms) = n
  BY DEF Terms
<1>2. Loop(Mul, 1, terms, n, loop)
  BY LoopRuns
<1> HIDE DEF terms
<1>3. MulAll(terms) = loop[n]
  BY <1>1 DEF MulAll, Loop
<1> QED BY <1>2, <1>3 DEF Product, terms

\* The empty sum, and one more term.
LEMMA SumStep ==
  ASSUME NEW f
  PROVE  /\ Sum(f, 0) = 0
         /\ \A n \in Nat : Sum(f, n + 1) = Xor[Sum(f, n)][f[n + 1]]
<1>1. Sum(f, 0) = 0
  BY SumIsLoop DEF Loop
<1>2. ASSUME NEW n \in Nat
      PROVE  Sum(f, n + 1) = Xor[Sum(f, n)][f[n + 1]]
  <2> PICK short : Loop(Xor, 0, Terms(f, n), n, short) /\ Sum(f, n) = short[n]
    BY SumIsLoop
  <2> PICK long : Loop(Xor, 0, Terms(f, n + 1), n + 1, long) /\ Sum(f, n + 1) = long[n + 1]
    BY SumIsLoop
  <2>1. \A j \in 1 .. n : Terms(f, n + 1)[j] = Terms(f, n)[j]
    BY DEF Terms
  <2>2. long[n] = short[n]
    BY <2>1, LoopIsOne
  <2>3. long[n + 1] = Xor[long[n]][Terms(f, n + 1)[n + 1]]
    BY DEF Loop
  <2>4. Terms(f, n + 1)[n + 1] = f[n + 1]
    BY DEF Terms
  <2> QED BY <2>2, <2>3, <2>4
<1> QED BY <1>1, <1>2

LEMMA ProductStep ==
  ASSUME NEW f
  PROVE  /\ Product(f, 0) = 1
         /\ \A n \in Nat : Product(f, n + 1) = Mul[Product(f, n)][f[n + 1]]
<1>1. Product(f, 0) = 1
  BY ProductIsLoop DEF Loop
<1>2. ASSUME NEW n \in Nat
      PROVE  Product(f, n + 1) = Mul[Product(f, n)][f[n + 1]]
  <2> PICK short : Loop(Mul, 1, Terms(f, n), n, short) /\ Product(f, n) = short[n]
    BY ProductIsLoop
  <2> PICK long : Loop(Mul, 1, Terms(f, n + 1), n + 1, long) /\ Product(f, n + 1) = long[n + 1]
    BY ProductIsLoop
  <2>1. \A j \in 1 .. n : Terms(f, n + 1)[j] = Terms(f, n)[j]
    BY DEF Terms
  <2>2. long[n] = short[n]
    BY <2>1, LoopIsOne
  <2>3. long[n + 1] = Mul[long[n]][Terms(f, n + 1)[n + 1]]
    BY DEF Loop
  <2>4. Terms(f, n + 1)[n + 1] = f[n + 1]
    BY DEF Terms
  <2> QED BY <2>2, <2>3, <2>4
<1> QED BY <1>1, <1>2

LEMMA SumSame ==
  ASSUME NEW f, NEW g, NEW n \in Nat, \A j \in 1 .. n : f[j] = g[j]
  PROVE  Sum(f, n) = Sum(g, n) /\ Product(f, n) = Product(g, n)
<1>1. Terms(f, n) = Terms(g, n)
  BY DEF Terms
<1> QED BY <1>1 DEF Sum, Product

LEMMA SumType ==
  ASSUME NEW n \in Nat, NEW f, \A j \in 1 .. n : f[j] \in Byte
  PROVE  Sum(f, n) \in Byte
<1> DEFINE S == {m \in Nat : m <= n => Sum(f, m) \in Byte}
<1>1. 0 \in S
  BY SumStep, Zero
<1>2. ASSUME NEW m \in Nat, m \in S
      PROVE  m + 1 \in S
  <2> SUFFICES ASSUME m + 1 <= n PROVE Sum(f, m + 1) \in Byte
    OBVIOUS
  <2>1. Sum(f, m) \in Byte /\ f[m + 1] \in Byte
    BY <1>2
  <2> QED BY <2>1, SumStep, XorBasics
<1> HIDE DEF S
<1>3. n \in S
  BY <1>1, <1>2, SetInduction
<1> QED BY <1>3 DEF S

LEMMA ProductType ==
  ASSUME NEW n \in Nat, NEW f, \A j \in 1 .. n : f[j] \in Byte
  PROVE  /\ Product(f, n) \in Byte
         /\ Product(f, n) = 0 <=> \E j \in 1 .. n : f[j] = 0
<1> DEFINE S == {m \in Nat : m <= n =>
                   /\ Product(f, m) \in Byte
                   /\ Product(f, m) = 0 <=> \E j \in 1 .. m : f[j] = 0}
<1>1. 0 \in S
  BY ProductStep, Zero
<1>2. ASSUME NEW m \in Nat, m \in S
      PROVE  m + 1 \in S
  <2> SUFFICES ASSUME m + 1 <= n
               PROVE  /\ Product(f, m + 1) \in Byte
                      /\ Product(f, m + 1) = 0 <=> \E j \in 1 .. m + 1 : f[j] = 0
    OBVIOUS
  <2>1. /\ Product(f, m) \in Byte /\ f[m + 1] \in Byte
        /\ Product(f, m) = 0 <=> \E j \in 1 .. m : f[j] = 0
    BY <1>2
  <2>2. Product(f, m + 1) = Mul[Product(f, m)][f[m + 1]]
    BY ProductStep
  <2>3. Product(f, m + 1) = 0 <=> Product(f, m) = 0 \/ f[m + 1] = 0
    BY <2>1, <2>2, NoZeroDivisors
  <2>4. (\E j \in 1 .. m + 1 : f[j] = 0) <=> (\E j \in 1 .. m : f[j] = 0) \/ f[m + 1] = 0
    OBVIOUS
  <2>5. Product(f, m + 1) \in Byte
    BY <2>1, <2>2, MulBasics
  <2> QED BY <2>1, <2>3, <2>4, <2>5
<1> HIDE DEF S
<1>3. n \in S
  BY <1>1, <1>2, SetInduction
<1> QED BY <1>3 DEF S

\* h is f and c times g, term by term.
Combines(f, g, h, c, n) ==
  \A j \in 1 .. n : f[j] \in Byte /\ g[j] \in Byte /\ h[j] = Xor[f[j]][Mul[c][g[j]]]

\* Sums of sums, and common factors.
LEMMA SumLinear ==
  ASSUME NEW n \in Nat, NEW f, NEW g, NEW h, NEW c \in Byte, Combines(f, g, h, c, n)
  PROVE  Sum(h, n) = Xor[Sum(f, n)][Mul[c][Sum(g, n)]]
<1> USE DEF Combines
<1> DEFINE S == {m \in Nat : m <= n => Sum(h, m) = Xor[Sum(f, m)][Mul[c][Sum(g, m)]]}
<1>1. 0 \in S
  <2>1. Mul[c][0] = 0
    BY MulZero
  <2> QED BY <2>1, SumStep, XorBasics, Zero
<1>2. ASSUME NEW m \in Nat, m \in S
      PROVE  m + 1 \in S
  <2> SUFFICES ASSUME m + 1 <= n
               PROVE  Sum(h, m + 1) = Xor[Sum(f, m + 1)][Mul[c][Sum(g, m + 1)]]
    OBVIOUS
  <2> DEFINE a == Sum(f, m)
             b == Sum(g, m)
             x == f[m + 1]
             y == g[m + 1]
  <2>1. a \in Byte /\ b \in Byte /\ x \in Byte /\ y \in Byte
    <3>1. \A j \in 1 .. m : f[j] \in Byte /\ g[j] \in Byte
      OBVIOUS
    <3>2. a \in Byte /\ b \in Byte
      BY <3>1, SumType
    <3> QED BY <3>2
  <2>2. Sum(h, m + 1) = Xor[Xor[a][Mul[c][b]]][Xor[x][Mul[c][y]]]
    BY <1>2, SumStep
  <2>3. Sum(f, m + 1) = Xor[a][x] /\ Sum(g, m + 1) = Xor[b][y]
    BY SumStep
  <2> HIDE DEF a, b, x, y
  <2>4. Mul[c][Xor[b][y]] = Xor[Mul[c][b]][Mul[c][y]]
    BY <2>1, MulDistributes
  <2>5. Mul[c][b] \in Byte /\ Mul[c][y] \in Byte
    BY <2>1, MulBasics
  <2>6. Xor[Xor[a][Mul[c][b]]][Xor[x][Mul[c][y]]] = Xor[Xor[a][x]][Xor[Mul[c][b]][Mul[c][y]]]
    <3> DEFINE cb == Mul[c][b]
               cy == Mul[c][y]
    <3>1. cb \in Byte /\ cy \in Byte
      BY <2>5
    <3> HIDE DEF cb, cy
    <3>2. Xor[Xor[a][cb]][Xor[x][cy]] = Xor[Xor[a][x]][Xor[cb][cy]]
      BY <2>1, <3>1, XorSwaps
    <3> QED BY <3>2 DEF cb, cy
  <2> QED BY <2>2, <2>3, <2>4, <2>6
<1> HIDE DEF S
<1>3. n \in S
  BY <1>1, <1>2, SetInduction
<1> QED BY <1>3 DEF S

\* The first term taken out.
LEMMA SumShift ==
  ASSUME NEW n \in Nat, NEW f, NEW g, f[1] \in Byte,
         \A j \in 1 .. n : g[j] \in Byte /\ g[j] = f[j + 1]
  PROVE  Sum(f, n + 1) = Xor[f[1]][Sum(g, n)]
<1> DEFINE S == {m \in Nat : m <= n => Sum(f, m + 1) = Xor[f[1]][Sum(g, m)]}
<1>1. 0 \in S
  <2>1. Sum(f, 0 + 1) = Xor[Sum(f, 0)][f[0 + 1]]
    BY SumStep
  <2> QED BY <2>1, SumStep, XorBasics
<1>2. ASSUME NEW m \in Nat, m \in S
      PROVE  m + 1 \in S
  <2> SUFFICES ASSUME m + 1 <= n
               PROVE  Sum(f, m + 1 + 1) = Xor[f[1]][Sum(g, m + 1)]
    OBVIOUS
  <2>1. Sum(f, m + 1 + 1) = Xor[Xor[f[1]][Sum(g, m)]][g[m + 1]]
    BY <1>2, SumStep
  <2>2. Sum(g, m + 1) = Xor[Sum(g, m)][g[m + 1]]
    BY SumStep
  <2>3. Sum(g, m) \in Byte /\ g[m + 1] \in Byte
    BY SumType
  <2> QED BY <2>1, <2>2, <2>3, XorAssociates
<1> HIDE DEF S
<1>3. n \in S
  BY <1>1, <1>2, SetInduction
<1> QED BY <1>3 DEF S

\* All terms but one are zero.
LEMMA SumOnly ==
  ASSUME NEW n \in Nat, NEW f, NEW i \in 1 .. n, f[i] \in Byte,
         \A j \in 1 .. n : j # i => f[j] = 0
  PROVE  Sum(f, n) = f[i]
<1> DEFINE S == {m \in Nat : m <= n => Sum(f, m) = IF i <= m THEN f[i] ELSE 0}
<1>1. 0 \in S
  BY SumStep
<1>2. ASSUME NEW m \in Nat, m \in S
      PROVE  m + 1 \in S
  <2> SUFFICES ASSUME m + 1 <= n
               PROVE  Sum(f, m + 1) = IF i <= m + 1 THEN f[i] ELSE 0
    OBVIOUS
  <2>1. Sum(f, m + 1) = Xor[IF i <= m THEN f[i] ELSE 0][f[m + 1]]
    BY <1>2, SumStep
  <2>2. CASE i = m + 1
    BY <2>1, <2>2, XorBasics
  <2>3. CASE i # m + 1
    <3>1. f[m + 1] = 0
      BY <2>3
    <3> QED BY <2>1, <2>3, <3>1, XorBasics, Zero
  <2> QED BY <2>2, <2>3
<1> HIDE DEF S
<1>3. n \in S
  BY <1>1, <1>2, SetInduction
<1> QED BY <1>3 DEF S

LEMMA SumScale ==
  ASSUME NEW n \in Nat, NEW g, NEW h, NEW c \in Byte,
         \A j \in 1 .. n : g[j] \in Byte /\ h[j] = Mul[c][g[j]]
  PROVE  Sum(h, n) = Mul[c][Sum(g, n)]
<1> DEFINE f == [j \in 1 .. n |-> 0]
           S == {m \in Nat : m <= n => Sum(f, m) = 0}
<1>1. 0 \in S
  BY SumStep
<1>2. ASSUME NEW m \in Nat, m \in S
      PROVE  m + 1 \in S
  <2> SUFFICES ASSUME m + 1 <= n PROVE Sum(f, m + 1) = 0
    OBVIOUS
  <2>1. Sum(f, m + 1) = Xor[Sum(f, m)][f[m + 1]]
    BY SumStep
  <2>2. Sum(f, m) = 0 /\ f[m + 1] = 0
    BY <1>2
  <2> QED BY <2>1, <2>2, XorBasics, Zero
<1>3. n \in S
  <2> HIDE DEF S
  <2> QED BY <1>1, <1>2, SetInduction
<1>4. Sum(f, n) = 0
  BY <1>3
<1>5. Combines(f, g, h, c, n)
  BY Zero, XorBasics, MulBasics DEF Combines
<1> HIDE DEF f, S
<1>6. Sum(h, n) = Xor[Sum(f, n)][Mul[c][Sum(g, n)]]
  BY <1>5, SumLinear
<1>7. Mul[c][Sum(g, n)] \in Byte
  <2>1. Sum(g, n) \in Byte
    BY SumType
  <2> QED BY <2>1, MulBasics
<1> QED BY <1>4, <1>6, <1>7, XorBasics

-----------------------------------------------------------------------------
(* Polynomials, as the functions they compute.                             *)

LEMMA PowerStep ==
  ASSUME NEW x \in Byte
  PROVE  /\ Power(x, 0) = 1
         /\ \A j \in Nat : Power(x, j) \in Byte /\ Power(x, j + 1) = Mul[x][Power(x, j)]
<1> DEFINE f == [i \in Nat |-> x]
<1>1. \A j \in Nat : Power(x, j) = Product(f, j)
  <2> SUFFICES ASSUME NEW j \in Nat PROVE Power(x, j) = Product(f, j)
    OBVIOUS
  <2>1. [i \in 1 .. j |-> x] = Terms(f, j)
    BY DEF Terms
  <2> QED BY <2>1 DEF Power, Product
<1>2. \A i \in Nat : f[i] = x
  OBVIOUS
<1> HIDE DEF f
<1>3. ASSUME NEW j \in Nat
      PROVE  Product(f, j) \in Byte
  <2>1. \A i \in 1 .. j : f[i] \in Byte
    BY <1>2
  <2> QED BY <2>1, ProductType
<1>4. ASSUME NEW j \in Nat
      PROVE  Product(f, j + 1) = Mul[x][Product(f, j)]
  <2>1. Product(f, j + 1) = Mul[Product(f, j)][x]
    BY <1>2, ProductStep
  <2> QED BY <1>3, <2>1, MulBasics
<1>5. Product(f, 0) = 1
  BY ProductStep
<1> QED BY <1>1, <1>3, <1>4, <1>5

Coefficients(n) == [1 .. n -> Byte]

LEMMA EvaluateSum ==
  ASSUME NEW n \in Nat, NEW row \in Coefficients(n), NEW x \in Byte
  PROVE  LET f == [j \in 1 .. n |-> Mul[row[j]][Power(x, j - 1)]] IN
         /\ \A j \in 1 .. n : f[j] \in Byte
         /\ Evaluate(row, x) = Sum(f, n)
         /\ Evaluate(row, x) \in Byte
<1> DEFINE f == [j \in 1 .. n |-> Mul[row[j]][Power(x, j - 1)]]
<1>1. Len(row) = n
  BY DEF Coefficients
<1>2. ASSUME NEW j \in 1 .. n
      PROVE  f[j] \in Byte
  <2>1. row[j] \in Byte /\ Power(x, j - 1) \in Byte
    BY PowerStep DEF Coefficients
  <2> QED BY <2>1, MulBasics
<1>3. Evaluate(row, x) = XorAll(f)
  BY <1>1 DEF Evaluate
<1>4. Terms(f, n) = f
  BY DEF Terms
<1>5. Evaluate(row, x) = Sum(f, n)
  BY <1>3, <1>4 DEF Sum
<1>6. Sum(f, n) \in Byte
  <2> HIDE DEF f
  <2> QED BY <1>2, SumType
<1> QED BY <1>2, <1>5, <1>6

\* The sum of two rows evaluates to the sum of their values.
LEMMA EvaluateAdds ==
  ASSUME NEW n \in Nat, NEW a \in Coefficients(n), NEW b \in Coefficients(n),
         NEW c \in Coefficients(n), \A j \in 1 .. n : c[j] = Xor[a[j]][b[j]], NEW x \in Byte
  PROVE  Evaluate(c, x) = Xor[Evaluate(a, x)][Evaluate(b, x)]
<1> DEFINE f == [j \in 1 .. n |-> Mul[a[j]][Power(x, j - 1)]]
           g == [j \in 1 .. n |-> Mul[b[j]][Power(x, j - 1)]]
           h == [j \in 1 .. n |-> Mul[c[j]][Power(x, j - 1)]]
<1>1. /\ \A j \in 1 .. n : f[j] \in Byte
      /\ Evaluate(a, x) = Sum(f, n)
  BY EvaluateSum
<1>2. /\ \A j \in 1 .. n : g[j] \in Byte
      /\ Evaluate(b, x) = Sum(g, n)
  BY EvaluateSum
<1>3. /\ \A j \in 1 .. n : h[j] \in Byte
      /\ Evaluate(c, x) = Sum(h, n)
  BY EvaluateSum
<1>4. ASSUME NEW j \in 1 .. n
      PROVE  h[j] = Xor[f[j]][g[j]]
  <2> DEFINE y == Power(x, j - 1)
             u == a[j]
             v == b[j]
             w == c[j]
  <2>1. y \in Byte
    <3>1. j - 1 \in Nat
      OBVIOUS
    <3> QED BY <3>1, PowerStep
  <2>2. u \in Byte /\ v \in Byte /\ w \in Byte /\ w = Xor[u][v]
    BY DEF Coefficients
  <2>3. h[j] = Mul[w][y] /\ f[j] = Mul[u][y] /\ g[j] = Mul[v][y]
    OBVIOUS
  <2> HIDE DEF f, g, h, y, u, v, w
  <2>4. Mul[y][Xor[u][v]] = Xor[Mul[y][u]][Mul[y][v]]
    BY <2>1, <2>2, MulDistributes
  <2>5. Mul[w][y] = Mul[y][w] /\ Mul[u][y] = Mul[y][u] /\ Mul[v][y] = Mul[y][v]
    BY <2>1, <2>2, MulBasics
  <2> QED BY <2>2, <2>3, <2>4, <2>4, <2>5
<1>5. Combines(f, g, h, 1, n)
  BY <1>1, <1>2, <1>4, MulBasics DEF Combines
<1> HIDE DEF f, g, h
<1>6. Sum(h, n) = Xor[Sum(f, n)][Mul[1][Sum(g, n)]]
  BY <1>5, Zero, SumLinear
<1>7. Sum(g, n) \in Byte
  BY <1>2, SumType
<1> QED BY <1>1, <1>2, <1>3, <1>6, <1>7, MulBasics

\* Horner: a row's first coefficient, and x times the polynomial of the others.
LEMMA Horner ==
  ASSUME NEW n \in Nat, NEW row \in Coefficients(n + 1), NEW tail \in Coefficients(n),
         \A j \in 1 .. n : tail[j] = row[j + 1], NEW x \in Byte
  PROVE  Evaluate(row, x) = Xor[row[1]][Mul[x][Evaluate(tail, x)]]
<1> DEFINE f == [j \in 1 .. n + 1 |-> Mul[row[j]][Power(x, j - 1)]]
           g == [j \in 1 .. n |-> Mul[tail[j]][Power(x, j - 1)]]
           h == [j \in 1 .. n |-> f[j + 1]]
<1>1. /\ \A j \in 1 .. n + 1 : f[j] \in Byte
      /\ Evaluate(row, x) = Sum(f, n + 1)
  BY EvaluateSum
<1>2. /\ \A j \in 1 .. n : g[j] \in Byte
      /\ Evaluate(tail, x) = Sum(g, n)
  BY EvaluateSum
<1>3. f[1] = row[1] /\ row[1] \in Byte
  <2>1. row[1] \in Byte
    BY DEF Coefficients
  <2>2. f[1] = Mul[row[1]][Power(x, 0)]
    OBVIOUS
  <2> QED BY <2>1, <2>2, PowerStep, MulBasics
<1>4. ASSUME NEW j \in 1 .. n
      PROVE  h[j] = Mul[x][g[j]]
  <2> DEFINE c == tail[j]
             p == Power(x, j - 1)
  <2>1. c \in Byte
    BY DEF Coefficients
  <2>2. p \in Byte /\ Power(x, j) = Mul[x][p]
    <3>1. j - 1 \in Nat /\ j - 1 + 1 = j
      OBVIOUS
    <3>2. Power(x, j - 1) \in Byte /\ Power(x, j - 1 + 1) = Mul[x][Power(x, j - 1)]
      BY <3>1, PowerStep, Zenon
    <3> QED BY <3>1, <3>2
  <2>3. h[j] = Mul[c][Power(x, j)] /\ g[j] = Mul[c][p]
    OBVIOUS
  <2> HIDE DEF c, p
  <2>4. Mul[c][Mul[x][p]] = Mul[Mul[c][x]][p] /\ Mul[x][Mul[c][p]] = Mul[Mul[x][c]][p]
    BY <2>1, <2>2, MulAssociates
  <2>5. Mul[c][x] = Mul[x][c]
    BY <2>1, MulBasics
  <2> QED BY <2>2, <2>3, <2>4, <2>5
<1>5. \A j \in 1 .. n : h[j] \in Byte /\ h[j] = f[j + 1]
  BY <1>1
<1> HIDE DEF f, g, h
<1>6. Sum(f, n + 1) = Xor[f[1]][Sum(h, n)]
  BY <1>1, <1>5, SumShift
<1>7. Sum(h, n) = Mul[x][Sum(g, n)]
  BY <1>2, <1>4, SumScale
<1> QED BY <1>1, <1>2, <1>3, <1>6, <1>7

\* The functions that polynomials of n coefficients compute.
Polynomial(n) == {p \in [Byte -> Byte] :
                    \E row \in Coefficients(n) : \A x \in Byte : p[x] = Evaluate(row, x)}

LEMMA NoCoefficients ==
  ASSUME NEW p \in [Byte -> Byte]
  PROVE  p \in Polynomial(0) <=> \A x \in Byte : p[x] = 0
<1>1. ASSUME NEW row \in Coefficients(0), NEW x \in Byte
      PROVE  Evaluate(row, x) = 0
  <2>1. Evaluate(row, x) = Sum([j \in 1 .. 0 |-> Mul[row[j]][Power(x, j - 1)]], 0)
    BY <1>1, EvaluateSum
  <2> QED BY <2>1, SumStep
<1>2. [j \in 1 .. 0 |-> 0] \in Coefficients(0)
  BY DEF Coefficients
<1> QED BY <1>1, <1>2 DEF Polynomial

LEMMA OneCoefficientMore ==
  ASSUME NEW n \in Nat, NEW c \in Byte, NEW q \in Polynomial(n), NEW p \in [Byte -> Byte],
         \A x \in Byte : p[x] = Xor[c][Mul[x][q[x]]]
  PROVE  p \in Polynomial(n + 1)
<1> PICK tail \in Coefficients(n) : \A x \in Byte : q[x] = Evaluate(tail, x)
  BY DEF Polynomial
<1> DEFINE row == [j \in 1 .. n + 1 |-> IF j = 1 THEN c ELSE tail[j - 1]]
<1>1. row \in Coefficients(n + 1)
  BY DEF Coefficients
<1>2. row[1] = c /\ \A j \in 1 .. n : tail[j] = row[j + 1]
  OBVIOUS
<1> HIDE DEF row
<1>3. \A x \in Byte : p[x] = Evaluate(row, x)
  BY <1>1, <1>2, Horner
<1> QED BY <1>1, <1>3 DEF Polynomial

LEMMA OneCoefficientLess ==
  ASSUME NEW n \in Nat, NEW p \in Polynomial(n + 1)
  PROVE  \E c \in Byte, q \in Polynomial(n) : \A x \in Byte : p[x] = Xor[c][Mul[x][q[x]]]
<1> PICK row \in Coefficients(n + 1) : \A x \in Byte : p[x] = Evaluate(row, x)
  BY DEF Polynomial
<1> DEFINE tail == [j \in 1 .. n |-> row[j + 1]]
           q == [x \in Byte |-> Evaluate(tail, x)]
<1>1. row[1] \in Byte /\ tail \in Coefficients(n)
  BY DEF Coefficients
<1>2. \A j \in 1 .. n : tail[j] = row[j + 1]
  OBVIOUS
<1> HIDE DEF tail
<1>3. \A x \in Byte : Evaluate(tail, x) \in Byte
  BY <1>1, EvaluateSum
<1>4. q \in Polynomial(n)
  BY <1>1, <1>3 DEF Polynomial
<1>5. \A x \in Byte : p[x] = Xor[row[1]][Mul[x][q[x]]]
  BY <1>1, <1>2, Horner
<1> QED BY <1>1, <1>4, <1>5

\* The coefficient of x^0 is the value at 0.
LEMMA FirstCoefficient ==
  ASSUME NEW n \in Nat, NEW row \in Coefficients(n + 1)
  PROVE  Evaluate(row, 0) = row[1]
<1> DEFINE tail == [j \in 1 .. n |-> row[j + 1]]
<1>1. row[1] \in Byte /\ tail \in Coefficients(n)
  BY DEF Coefficients
<1>2. \A j \in 1 .. n : tail[j] = row[j + 1]
  OBVIOUS
<1> HIDE DEF tail
<1>3. Evaluate(row, 0) = Xor[row[1]][Mul[0][Evaluate(tail, 0)]]
  BY <1>1, <1>2, Horner, Zero
<1>4. Evaluate(tail, 0) \in Byte
  BY <1>1, EvaluateSum, Zero
<1> QED BY <1>1, <1>3, <1>4, MulZero, XorBasics

\* p + c q, coefficient by coefficient.
HornerAdds(a, b, c, x, u, v) ==
  Xor[Xor[a][Mul[x][u]]][Mul[c][Xor[b][Mul[x][v]]]]
    = Xor[Xor[a][Mul[c][b]]][Mul[x][Xor[u][Mul[c][v]]]]

LEMMA HornerLinear ==
  ASSUME NEW a \in Byte, NEW b \in Byte, NEW c \in Byte, NEW x \in Byte,
         NEW u \in Byte, NEW v \in Byte
  PROVE  HornerAdds(a, b, c, x, u, v)
<1> DEFINE xu == Mul[x][u]
           xv == Mul[x][v]
           cb == Mul[c][b]
           cv == Mul[c][v]
           t == Mul[c][xv]
<1>1. xu \in Byte /\ xv \in Byte /\ cb \in Byte /\ cv \in Byte
  BY MulBasics
<1>2. t = Mul[x][cv]
  <2>1. t = Mul[Mul[c][x]][v] /\ Mul[x][cv] = Mul[Mul[x][c]][v]
    BY MulAssociates
  <2>2. Mul[c][x] = Mul[x][c]
    BY MulBasics
  <2> QED BY <2>1, <2>2
<1> HIDE DEF xu, xv, cb, cv
<1>3. t \in Byte
  BY <1>1, MulBasics
<1>4. Mul[c][Xor[b][xv]] = Xor[cb][t]
  BY <1>1, MulDistributes DEF cb
<1>5. Mul[x][Xor[u][cv]] = Xor[xu][t]
  BY <1>1, <1>2, MulDistributes DEF xu
<1> HIDE DEF t
<1>6. Xor[Xor[a][xu]][Xor[cb][t]] = Xor[Xor[a][cb]][Xor[xu][t]]
  BY <1>1, <1>3, XorSwaps
<1> QED BY <1>4, <1>5, <1>6 DEF HornerAdds, xu, xv, cb, cv

LEMMA PolynomialSum ==
  ASSUME NEW n \in Nat, NEW p \in Polynomial(n), NEW q \in Polynomial(n), NEW c \in Byte,
         NEW r \in [Byte -> Byte], \A x \in Byte : r[x] = Xor[p[x]][Mul[c][q[x]]]
  PROVE  r \in Polynomial(n)
<1> DEFINE Closed(m) == \A f, g \in Polynomial(m), h \in [Byte -> Byte] :
             (\A x \in Byte : h[x] = Xor[f[x]][Mul[c][g[x]]]) => h \in Polynomial(m)
           S == {m \in Nat : Closed(m)}
<1>1. 0 \in S
  <2> SUFFICES ASSUME NEW f \in Polynomial(0), NEW g \in Polynomial(0), NEW h \in [Byte -> Byte],
                      \A x \in Byte : h[x] = Xor[f[x]][Mul[c][g[x]]]
               PROVE  h \in Polynomial(0)
    OBVIOUS
  <2>1. \A x \in Byte : f[x] = 0 /\ g[x] = 0
    BY NoCoefficients DEF Polynomial
  <2>2. \A x \in Byte : h[x] = 0
    BY <2>1, MulZero, XorBasics, Zero
  <2> QED BY <2>2, NoCoefficients
<1>2. ASSUME NEW m \in Nat, m \in S
      PROVE  m + 1 \in S
  <2> SUFFICES ASSUME NEW f \in Polynomial(m + 1), NEW g \in Polynomial(m + 1),
                      NEW h \in [Byte -> Byte],
                      \A x \in Byte : h[x] = Xor[f[x]][Mul[c][g[x]]]
               PROVE  h \in Polynomial(m + 1)
    OBVIOUS
  <2> PICK a \in Byte, u \in Polynomial(m) : \A x \in Byte : f[x] = Xor[a][Mul[x][u[x]]]
    BY OneCoefficientLess
  <2> PICK b \in Byte, v \in Polynomial(m) : \A x \in Byte : g[x] = Xor[b][Mul[x][v[x]]]
    BY OneCoefficientLess
  <2> DEFINE w == [x \in Byte |-> Xor[u[x]][Mul[c][v[x]]]]
             d == Xor[a][Mul[c][b]]
  <2>1. \A x \in Byte : u[x] \in Byte /\ v[x] \in Byte
    BY DEF Polynomial
  <2>2. w \in [Byte -> Byte]
    BY <2>1, MulBasics, XorBasics
  <2>3. w \in Polynomial(m)
    <3>1. \A x \in Byte : w[x] = Xor[u[x]][Mul[c][v[x]]]
      OBVIOUS
    <3> HIDE DEF w
    <3> QED BY <1>2, <2>2, <3>1
  <2>4. d \in Byte
    BY MulBasics, XorBasics
  <2>5. \A x \in Byte : h[x] = Xor[d][Mul[x][w[x]]]
    <3> SUFFICES ASSUME NEW x \in Byte PROVE h[x] = Xor[d][Mul[x][w[x]]]
      OBVIOUS
    <3> DEFINE y == u[x]
               z == v[x]
    <3>1. y \in Byte /\ z \in Byte
      BY <2>1
    <3>2. h[x] = Xor[Xor[a][Mul[x][y]]][Mul[c][Xor[b][Mul[x][z]]]]
      OBVIOUS
    <3>3. w[x] = Xor[y][Mul[c][z]]
      OBVIOUS
    <3> HIDE DEF w, y, z
    <3>4. HornerAdds(a, b, c, x, y, z)
      BY <3>1, HornerLinear
    <3> QED BY <3>2, <3>3, <3>4 DEF HornerAdds
  <2> HIDE DEF w, d
  <2> QED BY <2>3, <2>4, <2>5, OneCoefficientMore
<1>3. n \in S
  <2> HIDE DEF S
  <2> QED BY <1>1, <1>2, SetInduction
<1> QED BY <1>3

LEMMA ZeroPolynomial ==
  ASSUME NEW n \in Nat
  PROVE  [x \in Byte |-> 0] \in Polynomial(n)
<1> DEFINE zero == [x \in Byte |-> 0]
           S == {m \in Nat : zero \in Polynomial(m)}
<1>1. zero \in [Byte -> Byte] /\ \A x \in Byte : zero[x] = 0
  BY Zero
<1> HIDE DEF zero
<1>2. 0 \in S
  BY <1>1, NoCoefficients
<1>3. ASSUME NEW m \in Nat, m \in S
      PROVE  m + 1 \in S
  <2>1. \A x \in Byte : zero[x] = Xor[0][Mul[x][zero[x]]]
    BY <1>1, MulZero, XorBasics, Zero
  <2> QED BY <1>1, <1>3, <2>1, OneCoefficientMore, Zero
<1>4. n \in S
  <2> HIDE DEF S
  <2> QED BY <1>2, <1>3, SetInduction
<1> QED BY <1>4 DEF zero

LEMMA MoreCoefficients ==
  ASSUME NEW n \in Nat, NEW m \in Nat, m <= n, NEW p \in Polynomial(m)
  PROVE  p \in Polynomial(n)
<1> DEFINE S == {i \in Nat : Polynomial(i) \subseteq Polynomial(i + 1)}
<1>1. 0 \in S
  <2> SUFFICES ASSUME NEW q \in Polynomial(0) PROVE q \in Polynomial(1)
    OBVIOUS
  <2> DEFINE zero == [x \in Byte |-> 0]
  <2>1. q \in [Byte -> Byte] /\ \A x \in Byte : q[x] = 0
    BY NoCoefficients DEF Polynomial
  <2>2. q = zero
    BY <2>1
  <2>3. zero \in Polynomial(1)
    BY ZeroPolynomial
  <2> QED BY <2>2, <2>3
<1>2. ASSUME NEW i \in Nat, i \in S
      PROVE  i + 1 \in S
  <2> SUFFICES ASSUME NEW q \in Polynomial(i + 1) PROVE q \in Polynomial(i + 1 + 1)
    OBVIOUS
  <2> PICK c \in Byte, r \in Polynomial(i) : \A x \in Byte : q[x] = Xor[c][Mul[x][r[x]]]
    BY OneCoefficientLess
  <2>1. r \in Polynomial(i + 1) /\ q \in [Byte -> Byte] /\ i + 1 \in Nat
    BY <1>2 DEF Polynomial
  <2> QED BY <2>1, OneCoefficientMore
<1>3. \A i \in Nat : Polynomial(i) \subseteq Polynomial(i + 1)
  <2> HIDE DEF S
  <2>1. \A i \in Nat : i \in S
    BY <1>1, <1>2, SetInduction
  <2> QED BY <2>1 DEF S
<1> DEFINE R == {i \in Nat : p \in Polynomial(m + i)}
<1>4. 0 \in R
  OBVIOUS
<1>5. ASSUME NEW i \in Nat, i \in R
      PROVE  i + 1 \in R
  <2>1. m + i \in Nat /\ m + (i + 1) = m + i + 1
    OBVIOUS
  <2> QED BY <1>3, <1>5, <2>1
<1>6. n - m \in R
  <2> HIDE DEF R, S
  <2>1. n - m \in Nat
    OBVIOUS
  <2> QED BY <1>4, <1>5, <2>1, SetInduction
<1>7. m + (n - m) = n
  OBVIOUS
<1> QED BY <1>6, <1>7

\* Times x + a.
LEMMA OneRootMore ==
  ASSUME NEW n \in Nat, NEW p \in Polynomial(n), NEW a \in Byte,
         NEW r \in [Byte -> Byte], \A x \in Byte : r[x] = Mul[Xor[x][a]][p[x]]
  PROVE  r \in Polynomial(n + 1)
<1> DEFINE q == [x \in Byte |-> Mul[x][p[x]]]
<1>1. \A x \in Byte : p[x] \in Byte
  BY DEF Polynomial
<1>2. q \in [Byte -> Byte] /\ \A x \in Byte : q[x] = Mul[x][p[x]] /\ q[x] \in Byte
  BY <1>1, MulBasics
<1> HIDE DEF q
<1>3. q \in Polynomial(n + 1)
  <2>1. \A x \in Byte : q[x] = Xor[0][Mul[x][p[x]]]
    BY <1>2, XorBasics
  <2> QED BY <1>2, <2>1, OneCoefficientMore, Zero
<1>4. p \in Polynomial(n + 1)
  BY MoreCoefficients
<1>5. \A x \in Byte : r[x] = Xor[q[x]][Mul[a][p[x]]]
  <2> SUFFICES ASSUME NEW x \in Byte PROVE r[x] = Xor[q[x]][Mul[a][p[x]]]
    OBVIOUS
  <2> DEFINE y == p[x]
             xa == Xor[x][a]
  <2>1. y \in Byte /\ xa \in Byte
    BY <1>1, XorBasics
  <2>2. r[x] = Mul[xa][y] /\ q[x] = Mul[x][y]
    BY <1>2
  <2> HIDE DEF y, xa
  <2>3. Mul[y][xa] = Xor[Mul[y][x]][Mul[y][a]]
    BY <2>1, MulDistributes DEF xa
  <2>4. Mul[xa][y] = Mul[y][xa] /\ Mul[y][x] = Mul[x][y] /\ Mul[y][a] = Mul[a][y]
    BY <2>1, MulBasics
  <2> QED BY <2>2, <2>3, <2>4 DEF y
<1>6. n + 1 \in Nat
  OBVIOUS
<1> QED BY <1>3, <1>4, <1>5, <1>6, PolynomialSum

\* What is left of p(x) + p(a), divided by x + a.
Quotient(c, x, a, b, u, v) ==
  Xor[c][Mul[x][u]] = Xor[Xor[c][Mul[a][b]]][Mul[Xor[x][a]][Xor[b][Mul[x][v]]]]

LEMMA HornerDivides ==
  ASSUME NEW c \in Byte, NEW x \in Byte, NEW a \in Byte, NEW b \in Byte, NEW v \in Byte,
         NEW u \in Byte, u = Xor[b][Mul[Xor[x][a]][v]]
  PROVE  Quotient(c, x, a, b, u, v)
<1> DEFINE xa == Xor[x][a]
           t == Mul[xa][v]
           xb == Mul[x][b]
           ab == Mul[a][b]
           xt == Mul[x][t]
<1>1. xa \in Byte
  BY XorBasics
<1> HIDE DEF xa
<1>2. t \in Byte
  BY <1>1, MulBasics
<1>3. xb \in Byte /\ ab \in Byte
  BY MulBasics
<1>4. Mul[x][u] = Xor[xb][xt]
  <2>1. u = Xor[b][t]
    BY DEF xa
  <2> HIDE DEF t
  <2> QED BY <1>2, <2>1, MulDistributes
<1>5. Mul[xa][Mul[x][v]] = xt
  <2>1. Mul[Mul[xa][x]][v] = Mul[xa][Mul[x][v]] /\ Mul[Mul[x][xa]][v] = Mul[x][Mul[xa][v]]
    BY <1>1, MulAssociates
  <2>2. Mul[xa][x] = Mul[x][xa]
    BY <1>1, MulBasics
  <2> QED BY <2>1, <2>2
<1>6. Mul[xa][b] = Xor[xb][ab]
  <2>1. Mul[b][xa] = Xor[Mul[b][x]][Mul[b][a]]
    BY MulDistributes DEF xa
  <2>2. Mul[xa][b] = Mul[b][xa] /\ Mul[b][x] = xb /\ Mul[b][a] = ab
    BY <1>1, MulBasics
  <2> QED BY <2>1, <2>2
<1> HIDE DEF t
<1>7. xt \in Byte
  BY <1>2, MulBasics
<1>8. Mul[xa][Xor[b][Mul[x][v]]] = Xor[Xor[xb][ab]][xt]
  <2> DEFINE xv == Mul[x][v]
  <2>1. xv \in Byte
    BY MulBasics
  <2>2. Mul[xa][xv] = xt
    BY <1>5
  <2> HIDE DEF xv, xt, xb, ab
  <2>3. Mul[xa][Xor[b][xv]] = Xor[Mul[xa][b]][Mul[xa][xv]]
    BY <1>1, <2>1, MulDistributes
  <2> QED BY <1>6, <2>2, <2>3 DEF xv
<1> HIDE DEF xb, ab, xt
<1>9. Xor[Xor[c][ab]][Xor[Xor[xb][ab]][xt]] = Xor[c][Xor[xb][xt]]
  <2> DEFINE ca == Xor[c][ab]
             ba == Xor[xb][ab]
             cb == Xor[c][xb]
  <2>1. ca \in Byte /\ ba \in Byte /\ cb \in Byte
    BY <1>3, XorBasics
  <2>2. Xor[ca][ba] = cb
    <3>1. Xor[Xor[c][ab]][Xor[xb][ab]] = Xor[Xor[c][xb]][Xor[ab][ab]]
      BY <1>3, XorSwaps
    <3>2. Xor[ab][ab] = 0 /\ Xor[cb][0] = cb
      BY <1>3, <2>1, XorBasics
    <3> QED BY <3>1, <3>2
  <2>3. Xor[cb][xt] = Xor[c][Xor[xb][xt]]
    BY <1>3, <1>7, XorAssociates
  <2> HIDE DEF ca, ba, cb
  <2>4. Xor[Xor[ca][ba]][xt] = Xor[ca][Xor[ba][xt]]
    BY <1>7, <2>1, XorAssociates
  <2> QED BY <2>2, <2>3, <2>4 DEF ca, ba
<1> QED BY <1>4, <1>8, <1>9 DEF Quotient, xa, ab

LEMMA Division ==
  ASSUME NEW n \in Nat, NEW p \in Polynomial(n + 1), NEW a \in Byte
  PROVE  \E q \in Polynomial(n) : \A x \in Byte : p[x] = Xor[p[a]][Mul[Xor[x][a]][q[x]]]
<1> DEFINE Divides(f, q) == \A x \in Byte : f[x] = Xor[f[a]][Mul[Xor[x][a]][q[x]]]
           S == {m \in Nat : \A f \in Polynomial(m + 1) : \E q \in Polynomial(m) : Divides(f, q)}
<1>1. 0 \in S
  <2> SUFFICES ASSUME NEW f \in Polynomial(0 + 1) PROVE \E q \in Polynomial(0) : Divides(f, q)
    OBVIOUS
  <2> PICK c \in Byte, q \in Polynomial(0) : \A x \in Byte : f[x] = Xor[c][Mul[x][q[x]]]
    BY OneCoefficientLess
  <2>1. \A x \in Byte : q[x] = 0
    BY NoCoefficients DEF Polynomial
  <2>2. \A x \in Byte : f[x] = c
    BY <2>1, MulZero, XorBasics
  <2>3. \A x \in Byte : Xor[x][a] \in Byte
    BY XorBasics
  <2>4. \A x \in Byte : Mul[Xor[x][a]][q[x]] = 0
    BY <2>1, <2>3, MulZero
  <2>5. Divides(f, q)
    BY <2>2, <2>4, XorBasics
  <2> QED BY <2>5
<1>2. ASSUME NEW m \in Nat, m \in S
      PROVE  m + 1 \in S
  <2> SUFFICES ASSUME NEW f \in Polynomial(m + 1 + 1)
               PROVE  \E q \in Polynomial(m + 1) : Divides(f, q)
    OBVIOUS
  <2> PICK c \in Byte, g \in Polynomial(m + 1) : \A x \in Byte : f[x] = Xor[c][Mul[x][g[x]]]
    BY OneCoefficientLess
  <2> PICK r \in Polynomial(m) : \A x \in Byte : g[x] = Xor[g[a]][Mul[Xor[x][a]][r[x]]]
    BY <1>2
  <2> DEFINE b == g[a]
             q == [x \in Byte |-> Xor[b][Mul[x][r[x]]]]
  <2>1. b \in Byte /\ \A x \in Byte : g[x] \in Byte /\ r[x] \in Byte
    BY DEF Polynomial
  <2>2. q \in [Byte -> Byte] /\ \A x \in Byte : q[x] = Xor[b][Mul[x][r[x]]]
    <3> HIDE DEF b
    <3> QED BY <2>1, MulBasics, XorBasics
  <2> HIDE DEF q
  <2>3. q \in Polynomial(m + 1)
    BY <2>1, <2>2, OneCoefficientMore
  <2>4. ASSUME NEW x \in Byte
        PROVE  f[x] = Xor[f[a]][Mul[Xor[x][a]][q[x]]]
    <3> DEFINE u == g[x]
               v == r[x]
    <3>1. u \in Byte /\ v \in Byte /\ u = Xor[b][Mul[Xor[x][a]][v]]
      BY <2>1
    <3>2. f[x] = Xor[c][Mul[x][u]] /\ f[a] = Xor[c][Mul[a][b]] /\ q[x] = Xor[b][Mul[x][v]]
      BY <2>2
    <3> HIDE DEF u, v, b
    <3>3. Quotient(c, x, a, b, u, v)
      BY <2>1, <3>1, HornerDivides
    <3> QED BY <3>2, <3>3 DEF Quotient
  <2> QED BY <2>3, <2>4
<1>3. n \in S
  <2> HIDE DEF S
  <2> QED BY <1>1, <1>2, SetInduction
<1> QED BY <1>3

OneToOne(xs, n) == \A i, j \in 1 .. n : xs[i] = xs[j] => i = j

\* A polynomial with as many roots as coefficients is zero everywhere.
LEMMA AllRoots ==
  ASSUME NEW n \in Nat, NEW p \in Polynomial(n), NEW xs \in [1 .. n -> Byte],
         OneToOne(xs, n), \A i \in 1 .. n : p[xs[i]] = 0
  PROVE  \A x \in Byte : p[x] = 0
<1> DEFINE Roots(f, m) == \A i \in 1 .. m : f[xs[i]] = 0
           Null(f) == \A x \in Byte : f[x] = 0
           S == {m \in Nat : m <= n => \A f \in Polynomial(m) : Roots(f, m) => Null(f)}
<1>1. 0 \in S
  BY NoCoefficients DEF Polynomial
<1>2. ASSUME NEW m \in Nat, m \in S
      PROVE  m + 1 \in S
  <2> SUFFICES ASSUME m + 1 <= n, NEW f \in Polynomial(m + 1), Roots(f, m + 1)
               PROVE  Null(f)
    OBVIOUS
  <2> DEFINE a == xs[m + 1]
  <2>1. a \in Byte /\ f[a] = 0
    OBVIOUS
  <2> HIDE DEF a
  <2> PICK q \in Polynomial(m) : \A x \in Byte : f[x] = Xor[f[a]][Mul[Xor[x][a]][q[x]]]
    BY <2>1, Division
  <2>2. \A x \in Byte : q[x] \in Byte /\ Xor[x][a] \in Byte
    BY <2>1, XorBasics DEF Polynomial
  <2>3. \A x \in Byte : f[x] = Mul[Xor[x][a]][q[x]]
    BY <2>1, <2>2, MulBasics, XorBasics
  <2>4. Roots(q, m)
    <3> SUFFICES ASSUME NEW i \in 1 .. m PROVE q[xs[i]] = 0
      OBVIOUS
    <3> DEFINE x == xs[i]
    <3>1. x \in Byte /\ f[x] = 0 /\ x # a
      BY DEF OneToOne, a
    <3> HIDE DEF x
    <3>2. Xor[x][a] # 0
      BY <2>1, <3>1, XorCancels
    <3>3. q[x] = 0
      BY <2>2, <2>3, <3>1, <3>2, NoZeroDivisors
    <3> QED BY <3>3 DEF x
  <2>5. Null(q)
    BY <1>2, <2>4
  <2> QED BY <2>2, <2>3, <2>5, MulZero
<1>3. n \in S
  <2> HIDE DEF S
  <2> QED BY <1>1, <1>2, SetInduction
<1> QED BY <1>3

-----------------------------------------------------------------------------
(* Interpolation.                                                          *)

\* The factors x + xs[m] of a weight's numerator at x, that of j left out.
Factors(xs, n, j, x) == [m \in 1 .. n |-> IF m = j THEN 1 ELSE Xor[x][xs[m]]]

LEMMA FactorsType ==
  ASSUME NEW n \in Nat, NEW xs \in [1 .. n -> Byte], NEW j, NEW x \in Byte
  PROVE  \A m \in 1 .. n : Factors(xs, n, j, x)[m] \in Byte
<1> SUFFICES ASSUME NEW m \in 1 .. n PROVE Factors(xs, n, j, x)[m] \in Byte
  OBVIOUS
<1>1. xs[m] \in Byte
  OBVIOUS
<1> QED BY <1>1, XorBasics, Zero DEF Factors

LEMMA NumeratorIsPolynomial ==
  ASSUME NEW n \in Nat, NEW xs \in [1 .. n -> Byte], NEW j \in 1 .. n
  PROVE  \E p \in Polynomial(n) : \A x \in Byte : p[x] = Product(Factors(xs, n, j, x), n)
<1> DEFINE F(x) == Factors(xs, n, j, x)
           Size(t) == IF t < j THEN t + 1 ELSE t
           S == {t \in Nat : t <= n =>
                   \E p \in Polynomial(Size(t)) : \A x \in Byte : p[x] = Product(F(x), t)}
<1>1. 0 \in S
  <2> DEFINE one == [x \in Byte |-> 1]
             zero == [x \in Byte |-> 0]
  <2>1. one \in [Byte -> Byte] /\ \A x \in Byte : one[x] = 1
    BY Zero
  <2>2. zero \in Polynomial(0) /\ \A x \in Byte : zero[x] = 0
    BY ZeroPolynomial
  <2> HIDE DEF one, zero
  <2>3. \A x \in Byte : one[x] = Xor[1][Mul[x][zero[x]]]
    BY <2>1, <2>2, MulZero, XorBasics, Zero
  <2>4. \A m \in Nat : zero \in Polynomial(m) => one \in Polynomial(m + 1)
    BY <2>1, <2>3, OneCoefficientMore, Zero
  <2>5. \A x \in Byte : one[x] = Product(F(x), 0)
    BY <2>1, ProductStep
  <2>6. Size(0) = 0 + 1
    OBVIOUS
  <2> QED BY <2>2, <2>4, <2>5, <2>6
<1>2. ASSUME NEW t \in Nat, t \in S
      PROVE  t + 1 \in S
  <2> SUFFICES ASSUME t + 1 <= n
               PROVE  \E p \in Polynomial(Size(t + 1)) :
                        \A x \in Byte : p[x] = Product(F(x), t + 1)
    OBVIOUS
  <2> PICK p \in Polynomial(Size(t)) : \A x \in Byte : p[x] = Product(F(x), t)
    BY <1>2
  <2>1. \A x \in Byte : Product(F(x), t + 1) = Mul[p[x]][F(x)[t + 1]]
    BY ProductStep
  <2>2. \A x \in Byte : p[x] \in Byte
    BY DEF Polynomial
  <2>3. CASE t + 1 = j
    <3>1. Size(t + 1) = Size(t)
      BY <2>3
    <3>2. \A x \in Byte : F(x)[t + 1] = 1
      BY <2>3 DEF Factors
    <3>3. \A x \in Byte : p[x] = Product(F(x), t + 1)
      BY <2>1, <2>2, <3>2, MulBasics
    <3> QED BY <3>1, <3>3
  <2>4. CASE t + 1 # j
    <3> DEFINE a == xs[t + 1]
               r == [x \in Byte |-> Mul[Xor[x][a]][p[x]]]
    <3>1. a \in Byte
      OBVIOUS
    <3>2. \A x \in Byte : F(x)[t + 1] = Xor[x][a]
      BY <2>4 DEF Factors
    <3> HIDE DEF a
    <3>3. r \in [Byte -> Byte] /\ \A x \in Byte : r[x] = Mul[Xor[x][a]][p[x]]
      BY <2>2, <3>1, MulBasics, XorBasics
    <3> HIDE DEF r
    <3>4. Size(t) \in Nat /\ Size(t + 1) = Size(t) + 1
      BY <2>4
    <3>5. r \in Polynomial(Size(t + 1))
      <4> HIDE DEF Size
      <4> QED BY <3>1, <3>3, <3>4, OneRootMore
    <3>6. \A x \in Byte : r[x] = Product(F(x), t + 1)
      <4> SUFFICES ASSUME NEW x \in Byte PROVE r[x] = Product(F(x), t + 1)
        OBVIOUS
      <4>1. Xor[x][a] \in Byte /\ p[x] \in Byte
        BY <2>2, <3>1, XorBasics
      <4> QED BY <2>1, <3>2, <3>3, <4>1, MulBasics
    <3> QED BY <3>5, <3>6
  <2> QED BY <2>3, <2>4
<1>3. n \in S
  <2> HIDE DEF S
  <2> QED BY <1>1, <1>2, SetInduction
<1>4. Size(n) = n
  OBVIOUS
<1> QED BY <1>3, <1>4

\* A weight's denominator is its numerator at the share's own x; at another
\* share's x the numerator is zero.
LEMMA NumeratorAtPoints ==
  ASSUME NEW n \in Nat, NEW xs \in [1 .. n -> Byte], OneToOne(xs, n),
         NEW j \in 1 .. n, NEW i \in 1 .. n
  PROVE  /\ Product(Factors(xs, n, j, xs[i]), n) \in Byte
         /\ Product(Factors(xs, n, j, xs[i]), n) = 0 <=> i # j
<1> DEFINE f == Factors(xs, n, j, xs[i])
<1>1. xs[i] \in Byte
  OBVIOUS
<1>2. \A m \in 1 .. n : f[m] \in Byte
  BY <1>1, FactorsType
<1>3. \A m \in 1 .. n : f[m] = 0 <=> m # j /\ m = i
  <2> SUFFICES ASSUME NEW m \in 1 .. n PROVE f[m] = 0 <=> m # j /\ m = i
    OBVIOUS
  <2>1. CASE m = j
    BY <2>1, Zero DEF Factors
  <2>2. CASE m # j
    <3>1. f[m] = Xor[xs[i]][xs[m]]
      BY <2>2 DEF Factors
    <3>2. xs[m] \in Byte
      OBVIOUS
    <3>3. xs[i] = xs[m] <=> i = m
      BY DEF OneToOne
    <3> QED BY <1>1, <2>2, <3>1, <3>2, <3>3, XorCancels
  <2> QED BY <2>1, <2>2
<1> HIDE DEF f
<1>4. /\ Product(f, n) \in Byte
      /\ Product(f, n) = 0 <=> \E m \in 1 .. n : f[m] = 0
  BY <1>2, ProductType
<1> QED BY <1>3, <1>4 DEF f

\* The interpolated byte is the value at 0 of a polynomial through the points.
LEMMA Interpolant ==
  ASSUME NEW n \in Nat, NEW xs \in [1 .. n -> Byte], OneToOne(xs, n),
         NEW ys \in [1 .. n -> Byte]
  PROVE  \E g \in Polynomial(n) :
           g[0] = Interpolate(xs, ys) /\ \A i \in 1 .. n : g[xs[i]] = ys[i]
<1> DEFINE P(j, x) == Product(Factors(xs, n, j, x), n)
           e(j) == Inv[P(j, xs[j])]
           T(x) == [j \in 1 .. n |-> Mul[Mul[P(j, x)][e(j)]][ys[j]]]
<1>1. \A j \in 1 .. n : xs[j] \in Byte /\ ys[j] \in Byte
  OBVIOUS
<1>2. ASSUME NEW j \in 1 .. n
      PROVE  e(j) \in Byte /\ Mul[P(j, xs[j])][e(j)] = 1
  <2>1. P(j, xs[j]) \in Byte \ {0}
    BY NumeratorAtPoints
  <2> QED BY <2>1, InvLaw
<1>3. \A j \in 1 .. n, x \in Byte : P(j, x) \in Byte
  BY FactorsType, ProductType
<1> HIDE DEF P, e
<1>4. ASSUME NEW x \in Byte, NEW j \in 1 .. n
      PROVE  T(x)[j] \in Byte /\ T(x)[j] = Mul[Mul[P(j, x)][e(j)]][ys[j]]
  <2>1. Mul[P(j, x)][e(j)] \in Byte
    BY <1>2, <1>3, MulBasics
  <2> QED BY <1>1, <2>1, MulBasics
<1>5. ASSUME NEW t \in Nat, t <= n, NEW x \in Byte
      PROVE  Sum(T(x), t) \in Byte
  <2>1. \A j \in 1 .. t : T(x)[j] \in Byte
    BY <1>4, <1>5
  <2> HIDE DEF T
  <2> QED BY <2>1, SumType
<1>6. \E g \in Polynomial(n) : \A x \in Byte : g[x] = Sum(T(x), n)
  <2> DEFINE S == {t \in Nat : t <= n =>
                     \E g \in Polynomial(n) : \A x \in Byte : g[x] = Sum(T(x), t)}
  <2>1. 0 \in S
    <3>1. \A x \in Byte : [y \in Byte |-> 0][x] = Sum(T(x), 0)
      BY SumStep
    <3> QED BY <3>1, ZeroPolynomial
  <2>2. ASSUME NEW t \in Nat, t \in S
        PROVE  t + 1 \in S
    <3> SUFFICES ASSUME t + 1 <= n
                 PROVE  \E g \in Polynomial(n) : \A x \in Byte : g[x] = Sum(T(x), t + 1)
      OBVIOUS
    <3> PICK f \in Polynomial(n) : \A x \in Byte : f[x] = Sum(T(x), t)
      BY <2>2
    <3> DEFINE j == t + 1
               c == Mul[e(j)][ys[j]]
    <3>1. j \in 1 .. n
      OBVIOUS
    <3> HIDE DEF j
    <3> PICK p \in Polynomial(n) : \A x \in Byte : p[x] = P(j, x)
      BY <3>1, NumeratorIsPolynomial DEF P
    <3>2. c \in Byte
      BY <1>1, <1>2, <3>1, MulBasics
    <3>3. ASSUME NEW x \in Byte
          PROVE  Sum(T(x), t + 1) \in Byte /\ Sum(T(x), t + 1) = Xor[f[x]][Mul[c][p[x]]]
      <4>1. Sum(T(x), t + 1) = Xor[f[x]][T(x)[j]]
        <5>1. Sum(T(x), t + 1) = Xor[Sum(T(x), t)][T(x)[t + 1]]
          BY SumStep
        <5> QED BY <5>1 DEF j
      <4>2. T(x)[j] = Mul[Mul[p[x]][e(j)]][ys[j]]
        BY <1>4, <3>1
      <4>3. p[x] \in Byte /\ e(j) \in Byte /\ ys[j] \in Byte
        BY <1>1, <1>2, <1>3, <3>1
      <4>4. Mul[Mul[p[x]][e(j)]][ys[j]] = Mul[p[x]][c]
        BY <4>3, MulAssociates
      <4>5. Mul[p[x]][c] = Mul[c][p[x]]
        <5> HIDE DEF c
        <5> QED BY <3>2, <4>3, MulBasics
      <4>6. Sum(T(x), t + 1) \in Byte
        <5> HIDE DEF T
        <5> QED BY <1>5
      <4> QED BY <4>1, <4>2, <4>4, <4>5, <4>6
    <3> DEFINE g == [x \in Byte |-> Sum(T(x), t + 1)]
    <3>4. g \in [Byte -> Byte] /\ \A x \in Byte : g[x] = Xor[f[x]][Mul[c][p[x]]]
      <4> HIDE DEF T, c
      <4> QED BY <3>3
    <3>5. \A x \in Byte : g[x] = Sum(T(x), t + 1)
      OBVIOUS
    <3> HIDE DEF g, c, T
    <3>6. g \in Polynomial(n)
      BY <3>2, <3>4, PolynomialSum
    <3> QED BY <3>5, <3>6
  <2>3. n \in S
    <3> HIDE DEF S
    <3> QED BY <2>1, <2>2, SetInduction
  <2> QED BY <2>3
<1> PICK g \in Polynomial(n) : \A x \in Byte : g[x] = Sum(T(x), n)
  BY <1>6
<1>7. g[0] = Interpolate(xs, ys)
  <2>1. Len(xs) = n
    OBVIOUS
  <2>2. ASSUME NEW j \in 1 .. n
        PROVE  Weight(xs, j) = Mul[P(j, 0)][e(j)]
    <3> DEFINE over == [m \in 1 .. n |-> IF m = j THEN 1 ELSE xs[m]]
               under == [m \in 1 .. n |-> IF m = j THEN 1 ELSE Xor[xs[j]][xs[m]]]
    <3>1. Weight(xs, j) = Div(MulAll(over), MulAll(under))
      BY <2>1 DEF Weight, Denominator
    <3>2. over = Terms(Factors(xs, n, j, 0), n)
      <4>1. \A m \in 1 .. n : Xor[0][xs[m]] = xs[m]
        BY <1>1, XorBasics
      <4> QED BY <4>1 DEF Terms, Factors
    <3>3. under = Terms(Factors(xs, n, j, xs[j]), n)
      BY DEF Terms, Factors
    <3> HIDE DEF over, under
    <3> QED BY <3>1, <3>2, <3>3 DEF Div, P, e, Product
  <2>3. [j \in 1 .. n |-> Mul[Weight(xs, j)][ys[j]]] = T(0)
    BY <2>2
  <2>4. T(0) = Terms(T(0), n)
    BY DEF Terms
  <2>5. Interpolate(xs, ys) = XorAll(T(0))
    BY <2>1, <2>3 DEF Interpolate
  <2> QED BY <2>4, <2>5, Zero DEF Sum
<1>8. ASSUME NEW i \in 1 .. n
      PROVE  g[xs[i]] = ys[i]
  <2> DEFINE x == xs[i]
             f == T(x)
  <2>1. x \in Byte
    BY <1>1
  <2>2. \A j \in 1 .. n : j # i => f[j] = 0
    <3> SUFFICES ASSUME NEW j \in 1 .. n, j # i PROVE f[j] = 0
      OBVIOUS
    <3>1. P(j, x) = 0
      BY NumeratorAtPoints DEF P
    <3>2. Mul[0][e(j)] = 0 /\ Mul[0][ys[j]] = 0
      BY <1>1, <1>2, MulZero
    <3> QED BY <1>4, <2>1, <3>1, <3>2
  <2>3. f[i] = ys[i]
    <3>1. f[i] = Mul[Mul[P(i, x)][e(i)]][ys[i]]
      BY <1>4, <2>1
    <3>2. Mul[P(i, x)][e(i)] = 1
      BY <1>2
    <3> QED BY <1>1, <3>1, <3>2, MulBasics
  <2>4. g[x] = Sum(f, n)
    BY <2>1
  <2> HIDE DEF f
  <2>5. Sum(f, n) = f[i]
    BY <1>1, <2>2, <2>3, SumOnly
  <2> QED BY <2>3, <2>4, <2>5 DEF x
<1> QED BY <1>7, <1>8

-----------------------------------------------------------------------------
(* Points and polynomials.                                                 *)

\* Two polynomials that agree at as many points as they have coefficients are one.
LEMMA SamePolynomial ==
  ASSUME NEW n \in Nat, NEW p \in Polynomial(n), NEW q \in Polynomial(n),
         NEW xs \in [1 .. n -> Byte], OneToOne(xs, n), \A i \in 1 .. n : p[xs[i]] = q[xs[i]]
  PROVE  \A x \in Byte : p[x] = q[x]
<1> DEFINE r == [x \in Byte |-> Xor[p[x]][Mul[1][q[x]]]]
<1>1. \A x \in Byte : p[x] \in Byte /\ q[x] \in Byte
  BY DEF Polynomial
<1>2. \A x \in Byte : Mul[1][q[x]] = q[x]
  BY <1>1, MulBasics
<1>3. r \in [Byte -> Byte] /\ \A x \in Byte : r[x] = Xor[p[x]][Mul[1][q[x]]]
  BY <1>1, <1>2, XorBasics
<1> HIDE DEF r
<1>4. r \in Polynomial(n)
  BY <1>3, PolynomialSum, Zero
<1>5. \A x \in Byte : r[x] = 0 <=> p[x] = q[x]
  <2> SUFFICES ASSUME NEW x \in Byte PROVE r[x] = 0 <=> p[x] = q[x]
    OBVIOUS
  <2>1. Xor[p[x]][q[x]] = 0 <=> p[x] = q[x]
    BY <1>1, XorCancels
  <2> QED BY <1>2, <1>3, <2>1
<1>6. \A i \in 1 .. n : xs[i] \in Byte
  OBVIOUS
<1>7. \A i \in 1 .. n : r[xs[i]] = 0
  BY <1>5, <1>6
<1>8. \A x \in Byte : r[x] = 0
  BY <1>4, <1>7, AllRoots
<1> QED BY <1>5, <1>8

\* Point i is one of p.
On(p, xs, ys, i) == ys[i] = p[xs[i]]

\* As many points of a polynomial as it has coefficients give its value at 0.
LEMMA EnoughPoints ==
  ASSUME NEW n \in Nat, NEW p \in Polynomial(n), NEW xs \in [1 .. n -> Byte],
         OneToOne(xs, n), NEW ys \in [1 .. n -> Byte], \A i \in 1 .. n : On(p, xs, ys, i)
  PROVE  Interpolate(xs, ys) = p[0]
<1> PICK g \in Polynomial(n) :
           g[0] = Interpolate(xs, ys) /\ \A i \in 1 .. n : g[xs[i]] = ys[i]
  BY Interpolant
<1>1. \A i \in 1 .. n : p[xs[i]] = g[xs[i]]
  BY DEF On
<1>2. \A x \in Byte : p[x] = g[x]
  BY <1>1, SamePolynomial
<1> QED BY <1>2, Zero

\* Of as many points, one that is not the polynomial's gives another value.
LEMMA OneWrongPoint ==
  ASSUME NEW n \in Nat, NEW p \in Polynomial(n), NEW xs \in [1 .. n -> Byte \ {0}],
         OneToOne(xs, n), NEW ys \in [1 .. n -> Byte], NEW j \in 1 .. n,
         \A i \in 1 .. n \ {j} : On(p, xs, ys, i), Interpolate(xs, ys) = p[0]
  PROVE  On(p, xs, ys, j)
<1> PICK g \in Polynomial(n) :
           g[0] = Interpolate(xs, ys) /\ \A i \in 1 .. n : g[xs[i]] = ys[i]
  BY Interpolant
<1> DEFINE zs == [i \in 1 .. n |-> IF i = j THEN 0 ELSE xs[i]]
<1>1. zs \in [1 .. n -> Byte] /\ \A i \in 1 .. n : zs[i] = IF i = j THEN 0 ELSE xs[i]
  BY Zero
<1> HIDE DEF zs
<1>2. OneToOne(zs, n)
  BY <1>1 DEF OneToOne
<1>3. \A i \in 1 .. n : p[zs[i]] = g[zs[i]]
  BY <1>1 DEF On
<1>4. \A x \in Byte : p[x] = g[x]
  BY <1>1, <1>2, <1>3, SamePolynomial
<1>5. xs[j] \in Byte
  OBVIOUS
<1> QED BY <1>4, <1>5 DEF On

\* Coefficients of which s is the first go through the points.
Through(n, s, m, xs, ys) ==
  \E row \in Coefficients(n) : row[1] = s /\ \A i \in 1 .. m : Evaluate(row, xs[i]) = ys[i]

\* Through fewer points there is a polynomial with any value at 0.
LEMMA TooFewPoints ==
  ASSUME NEW m \in Nat, NEW n \in Nat, m < n, NEW xs \in [1 .. m -> Byte \ {0}],
         OneToOne(xs, m), NEW ys \in [1 .. m -> Byte], NEW s \in Byte
  PROVE  Through(n, s, m, xs, ys)
<1> DEFINE zs == [i \in 1 .. m + 1 |-> IF i = m + 1 THEN 0 ELSE xs[i]]
           us == [i \in 1 .. m + 1 |-> IF i = m + 1 THEN s ELSE ys[i]]
<1>1. /\ m + 1 \in Nat /\ m + 1 \in 1 .. m + 1 /\ n - 1 \in Nat /\ n = (n - 1) + 1
      /\ \A i \in 1 .. m : i \in 1 .. m + 1 /\ i # m + 1
  OBVIOUS
<1>2. \A i \in 1 .. m + 1 : i # m + 1 => i \in 1 .. m
  OBVIOUS
<1>3. /\ zs \in [1 .. m + 1 -> Byte]
      /\ \A i \in 1 .. m + 1 : zs[i] = IF i = m + 1 THEN 0 ELSE xs[i]
  BY <1>2, Zero
<1>4. /\ us \in [1 .. m + 1 -> Byte]
      /\ \A i \in 1 .. m + 1 : us[i] = IF i = m + 1 THEN s ELSE ys[i]
  BY <1>2
<1> HIDE DEF zs, us
<1>5. OneToOne(zs, m + 1)
  BY <1>2, <1>3 DEF OneToOne
<1> PICK g \in Polynomial(m + 1) : \A i \in 1 .. m + 1 : g[zs[i]] = us[i]
  BY <1>1, <1>3, <1>4, <1>5, Interpolant
<1>6. g \in Polynomial(n)
  BY <1>1, MoreCoefficients
<1> PICK row \in Coefficients(n) : \A x \in Byte : g[x] = Evaluate(row, x)
  BY <1>6 DEF Polynomial
<1>7. Evaluate(row, 0) = row[1]
  <2> DEFINE l == n - 1
  <2>1. l \in Nat /\ row \in Coefficients(l + 1)
    BY <1>1
  <2> HIDE DEF l
  <2> QED BY <2>1, FirstCoefficient
<1>8. row[1] = s
  <2>1. g[0] = s
    BY <1>1, <1>3, <1>4
  <2> QED BY <1>7, <2>1, Zero
<1>9. ASSUME NEW i \in 1 .. m
      PROVE  Evaluate(row, xs[i]) = ys[i]
  <2>1. xs[i] \in Byte /\ zs[i] = xs[i] /\ us[i] = ys[i] /\ i \in 1 .. m + 1
    BY <1>1, <1>3, <1>4
  <2> QED BY <2>1
<1> QED BY <1>8, <1>9 DEF Through

=============================================================================
