----------------------------- MODULE ModLemmas ------------------------------
(***************************************************************************)
(* Induction, and remainders of division by any positive number. The       *)
(* provers cannot instantiate an induction theorem that takes a predicate, *)
(* so induction is stated here over a set of naturals.                     *)
(***************************************************************************)
EXTENDS Integers, WellFoundedInduction, TLAPS

-----------------------------------------------------------------------------
(* Induction over a set *)

\* Every inhabited set of naturals has a least element.
LEMMA LeastElement ==
  ASSUME NEW T, T \subseteq Nat, T # {}
  PROVE  \E x \in T : \A y \in T : x <= y
<1>1. IsWellFoundedOn(OpToRel(<, Nat), Nat)
  BY NatLessThanWellFounded
<1>2. PICK x \in T : \A y \in T : ~(<<y, x>> \in OpToRel(<, Nat))
  BY <1>1, WFMin
<1>3. \A a, b \in Nat : a < b => <<a, b>> \in OpToRel(<, Nat)
  BY DEF OpToRel
<1>4. \A y \in T : x \in Nat /\ y \in Nat /\ ~(y < x)
  BY <1>2, <1>3
<1>5. \A y \in T : x <= y
  BY <1>4
<1> QED BY <1>5

\* A set that holds 0 and is closed under successor holds every natural.
LEMMA SetInduction ==
  ASSUME NEW S, 0 \in S, \A n \in Nat : n \in S => n + 1 \in S
  PROVE  Nat \subseteq S
<1> DEFINE T == Nat \ S
<1>1. SUFFICES ASSUME T # {} PROVE FALSE
  OBVIOUS
<1>2. PICK x \in T : \A y \in T : x <= y
  BY <1>1, LeastElement
<1>3. x # 0
  BY <1>2
<1>4. x - 1 \in Nat /\ x - 1 \notin T
  BY <1>2, <1>3
<1>5. (x - 1) + 1 \in S
  BY <1>4
<1> QED BY <1>5, <1>2

-----------------------------------------------------------------------------
(* Remainders *)

\* A product added to a; as an operator, so that the provers find its operands.
MulAdd(a, v, b) == a + v * b

\* A remainder is determined by any representation x = r + k * M.
LEMMA ModUnique ==
  ASSUME NEW M \in Nat, NEW r \in Nat, r < M, NEW k \in Int, NEW x \in Int,
         x = MulAdd(r, k, M)
  PROVE  x % M = r
<1> DEFINE q == x \div M
           s == x % M
<1>1. q \in Int /\ s \in Int /\ 0 <= s /\ s < M /\ x = q * M + s
  BY DEF MulAdd
<1> HIDE DEF q, s
<1>2. (q - k) * M = r - s
  BY <1>1 DEF MulAdd
<1>3. q - k <= 0
  <2>1. ASSUME q - k >= 1 PROVE FALSE
    <3>1. (q - k) * M >= M
      BY <1>1, <2>1
    <3> QED BY <3>1, <1>1, <1>2
  <2> QED BY <2>1, <1>1
<1>4. q - k >= 0
  <2>1. ASSUME q - k <= -1 PROVE FALSE
    <3>1. (q - k) * M <= -M
      BY <1>1, <2>1
    <3> QED BY <3>1, <1>1, <1>2
  <2> QED BY <2>1, <1>1
<1>5. q = k
  BY <1>1, <1>3, <1>4
<1>6. s = r
  BY <1>1, <1>5 DEF MulAdd
<1> QED BY <1>6 DEF s

\* A number below the divisor is its own remainder.
LEMMA ModSmall ==
  ASSUME NEW M \in Nat \ {0}, NEW x \in 0 .. M - 1
  PROVE  x % M = x
<1>1. x = MulAdd(x, 0, M)
  BY DEF MulAdd
<1> QED BY <1>1, ModUnique

\* An index that has run past the end once.
LEMMA ModOnce ==
  ASSUME NEW M \in Nat \ {0}, NEW x \in M .. 2 * M - 1
  PROVE  x % M = x - M
<1>1. x = MulAdd(x - M, 1, M) /\ x - M \in Nat /\ x - M < M
  BY DEF MulAdd
<1> QED BY <1>1, ModUnique

\* Taking the remainder of a summand first changes nothing.
LEMMA ModPlus ==
  ASSUME NEW M \in Nat \ {0}, NEW x \in Int, NEW y \in Int
  PROVE  ((x % M) + y) % M = (x + y) % M
<1> DEFINE r == (x + y) % M
           p == (x + y) \div M
           q == x \div M
           s == x % M
<1>1. r \in Nat /\ r < M /\ p \in Int /\ x + y = p * M + r
  OBVIOUS
<1>2. q \in Int /\ s \in Int /\ x = q * M + s
  OBVIOUS
<1> HIDE DEF p, q, r, s
<1>3. s + y = r + (p - q) * M
  <2>1. (p - q) * M = p * M - q * M
    BY <1>1, <1>2
  <2> QED BY <2>1, <1>1, <1>2
<1>4. p - q \in Int /\ s + y \in Int
  BY <1>1, <1>2
<1>5. (s + y) % M = r
  <2>1. s + y = MulAdd(r, p - q, M)
    BY <1>3 DEF MulAdd
  <2> QED BY <1>1, <1>4, <2>1, ModUnique
<1> QED BY <1>5 DEF r, s
=============================================================================
