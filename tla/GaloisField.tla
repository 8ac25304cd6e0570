---------------------------- MODULE GaloisField ----------------------------
(***************************************************************************)
(* Arithmetic on the bytes that Shamir shares are made of                  *)
(* (source/crypto/raw/__init__.py: _gf256_mul, _gf256_inv, _gf256_div):    *)
(* polynomials over GF(2), as numbers, modulo an irreducible one.          *)
(***************************************************************************)
EXTENDS Integers

CONSTANTS
  W,            \* bits of a byte (8)
  Irreducible   \* GF256_IRREDUCIBLE (0x11b)

ASSUME WidthAssumption ==
  /\ W \in Nat \ {0} /\ 2 ^ W \in Nat /\ 1 < 2 ^ W
  /\ Irreducible \in 2 ^ W .. 2 ^ (W + 1) - 1

Byte == 0 .. 2 ^ W - 1

\* a ^ b of two bytes, from the lowest bit on.
ExclusiveOr(a, b) ==
  LET low[i \in 0 .. W] ==
        IF i = 0 THEN 0
        ELSE low[i - 1]
             + 2 ^ (i - 1) * ((a \div 2 ^ (i - 1) + b \div 2 ^ (i - 1)) % 2)
  IN  low[W]
Xor == [a \in Byte |-> [b \in Byte |-> ExclusiveOr(a, b)]]

\* a <<= 1; if a & 0x100: a ^= GF256_IRREDUCIBLE.
Shift == [a \in Byte |-> IF 2 * a < 2 ^ W THEN 2 * a
                         ELSE Xor[2 * a - 2 ^ W][Irreducible - 2 ^ W]]

\* The loop of _gf256_mul, which ends when b is 0: that is after W rounds at most.
Multiply(a, b) ==
  LET loop[i \in 0 .. W] ==
        IF i = 0 THEN [result |-> 0, a |-> a, b |-> b]
        ELSE LET last == loop[i - 1] IN
             [result |-> IF last.b % 2 = 1 THEN Xor[last.result][last.a] ELSE last.result,
              a |-> Shift[last.a], b |-> last.b \div 2]
  IN  loop[W].result
Mul == [a \in Byte |-> [b \in Byte |-> Multiply(a, b)]]

\* _gf256_inv tries every byte; it raises ZeroDivisionError for 0.
Inv == [x \in Byte \ {0} |-> CHOOSE i \in Byte : Mul[x][i] = 1]

Div(a, b) == Mul[a][Inv[b]]

\* Bytes are a field of characteristic 2.  The laws with three variables are
\* stated for those in order: the others follow from commutativity.
Group ==
  /\ \A a, b \in Byte : Xor[a][b] \in Byte /\ Xor[a][b] = Xor[b][a]
  /\ \A a \in Byte : Xor[0][a] = a /\ Xor[a][a] = 0
  /\ \A a, b, c \in Byte : a <= c => Xor[Xor[a][b]][c] = Xor[a][Xor[b][c]]
Field ==
  /\ \A a, b \in Byte : Mul[a][b] \in Byte /\ Mul[a][b] = Mul[b][a]
  /\ \A a \in Byte : Mul[1][a] = a
  /\ \A a \in Byte \ {0} : \E b \in Byte : Mul[a][b] = 1
  /\ \A a, b, c \in Byte : a <= c => Mul[Mul[a][b]][c] = Mul[a][Mul[b][c]]
  /\ \A a, b, c \in Byte : b <= c => Mul[a][Xor[b][c]] = Xor[Mul[a][b]][Mul[a][c]]

ASSUME FieldAssumption == Group /\ Field

=============================================================================
