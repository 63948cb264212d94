---------------------------- MODULE Archi1_proofs ----------------------------
(***************************************************************************)
(* Proofs about Archi1 with the operand held as the test bench holds it,   *)
(* for every width, every set of operands without 0, every power-up        *)
(* contents and whatever the divider gives for a zero divisor.             *)
(***************************************************************************)
EXTENDS Archi1, SqrtLemmas

USE WidthAssumption DEF W

-----------------------------------------------------------------------------
(* The inductive invariant *)

\* Where the iterate came from: the seed of the held operand, or the previous
\* iterate, itself not below the root.
Seeded   == /\ reg_R_prev = reg_A
            /\ reg_R = IF reg_A > 1 THEN reg_A \div 2 ELSE reg_A
Iterated == /\ reg_R_prev >= 1
            /\ reg_A < (reg_R_prev + 1) * (reg_R_prev + 1)
            /\ reg_R = Next_R(reg_A, reg_R_prev)

\* NeverBelowRoot alone does not say why a repetition is the root: that takes
\* the origin of the iterate, and an upper bound on it for the width.
Inv == /\ TypeOK
       /\ NeverBelowRoot
       /\ state = "COMPUTE" => /\ reg_A >= 1
                               /\ reg_R <= reg_A \div 2 + 1
                               /\ Seeded \/ Iterated
       /\ state = "DONE" => IsRoot(Resultat, reg_A)

\* Power-up establishes the invariant: the controller is IDLE.
LEMMA InitInv == Init => Inv
<1> SUFFICES ASSUME Init PROVE Inv
  OBVIOUS
<1>1. \A p \in PowerUp : p \in Bits(W) /\ p \in Int
  BY PowerUpAssumption DEF Bits
<1>2. Resultat \in Bits(nb_bits)
  BY <1>1, LowRange DEF Init
<1> QED BY <1>1, <1>2 DEF Init, Inv, TypeOK, TState, NeverBelowRoot

\* What an edge of the computation does with the iterate.
LEMMA ComputeIterate ==
  ASSUME Inv, Compute
  PROVE  /\ reg_A \in Nat /\ reg_A >= 1 /\ reg_A < pow2[W]
         /\ reg_R \in Nat /\ reg_R >= 1
         /\ reg_R <= reg_A \div 2 + 1
         /\ reg_A < (reg_R + 1) * (reg_R + 1)
         /\ reg_R + reg_A \div reg_R < pow2[W]
         /\ reg_R' = Next_R(reg_A, reg_R)
<1>1. /\ reg_A \in Nat /\ reg_A >= 1 /\ reg_A < pow2[W]
      /\ reg_R \in Nat /\ reg_R >= 1 /\ reg_R <= reg_A \div 2 + 1
      /\ reg_A < (reg_R + 1) * (reg_R + 1) /\ pow2[W] \in Nat
  BY WidthsFit DEF Inv, TypeOK, NeverBelowRoot, Bits, Compute
<1>2. reg_R + reg_A \div reg_R \in Nat /\ reg_R + reg_A \div reg_R < pow2[W]
  BY <1>1, NewtonStep
<1>3. reg_R' = Newton(reg_A \div reg_R)
  BY <1>1 DEF Compute, Quotients
<1>4. Low(reg_R + reg_A \div reg_R, W) = reg_R + reg_A \div reg_R
  <2> DEFINE t == reg_R + reg_A \div reg_R
  <2>1. t \in Nat /\ t < pow2[W] /\ W \in Nat
    BY <1>2
  <2> HIDE DEF t
  <2>2. Low(t, W) = t
    BY <2>1, LowFits
  <2> QED BY <2>2 DEF t
<1> QED BY <1>1, <1>2, <1>3, <1>4 DEF Newton, Next_R

\* An edge that finds the iteration settled loads the root.
LEMMA SettledIsRoot ==
  ASSUME Inv, Compute, Settled
  PROVE  IsRoot(reg_R', reg_A)
<1>1. /\ reg_A \in Nat /\ reg_A >= 1 /\ reg_R \in Nat /\ reg_R >= 1
      /\ reg_R <= reg_A \div 2 + 1 /\ reg_A < (reg_R + 1) * (reg_R + 1)
      /\ reg_R' = Next_R(reg_A, reg_R)
  BY ComputeIterate
<1>2. reg_R_prev \in Nat /\ reg_R < pow2[W] /\ pow2[W] \in Nat
  BY WidthsFit DEF Inv, TypeOK, Bits
<1>3. CASE reg_R = reg_R_prev
  <2>1. CASE Seeded
    <3>1. reg_A = 1 /\ reg_R = 1
      BY <1>1, <1>3, <2>1 DEF Seeded
    <3>2. reg_R' = 1
      BY <1>1, <3>1 DEF Next_R
    <3> QED BY <3>1, <3>2 DEF IsRoot
  <2>2. CASE Iterated
    BY <1>1, <1>3, <2>2, FixedPoint DEF Iterated
  <2> QED BY <2>1, <2>2 DEF Inv, Compute
<1>4. CASE Low(reg_R - 1, W) = reg_R_prev
  <2>1. reg_R_prev = reg_R - 1
    <3>1. reg_R - 1 \in Nat /\ reg_R - 1 < pow2[W] /\ W \in Nat
      BY <1>1, <1>2
    <3>2. Low(reg_R - 1, W) = reg_R - 1
      BY <3>1, LowFits
    <3> QED BY <1>4, <3>2
  <2>2. CASE Seeded
    BY <1>1, <2>1, <2>2 DEF Seeded
  <2>3. CASE Iterated
    <3>1. reg_R = reg_R_prev + 1
      BY <1>1, <1>2, <2>1
    <3> QED BY <1>1, <1>2, <2>3, <3>1, OneAbove DEF Iterated
  <2> QED BY <2>2, <2>3 DEF Inv, Compute
<1> QED BY <1>3, <1>4 DEF Settled

\* Every edge and the reset preserve the invariant, zero being excluded.
LEMMA StepInv ==
  ASSUME 0 \notin Operands
  PROVE  Inv /\ [HeldNext]_vars => Inv'
<1> SUFFICES ASSUME Inv, [HeldNext]_vars PROVE Inv'
  OBVIOUS
<1> USE DEF TState
<1>1. ASSUME NEW debut \in BOOLEAN, NEW A \in Operands,
             debut => A = reg_A, Idle(debut, A)
      PROVE  Inv'
  <2>1. A \in Nat /\ A >= 1 /\ A \in Bits(W)
    BY OperandsAssumption DEF Bits
  <2>2. reg_A \in Nat /\ reg_A \in Bits(W) /\ pow2[W] \in Nat
    BY WidthsFit DEF Inv, TypeOK, Bits
  <2>3. /\ reg_A' = A /\ reg_R_prev' = reg_A /\ s_count' = 0 /\ Resultat' = Resultat
        /\ reg_R' = IF reg_A > 1 THEN reg_A \div 2 ELSE reg_A
        /\ state' = IF debut THEN "COMPUTE" ELSE "IDLE"
    BY <1>1 DEF Idle, Seed
  <2>4. reg_R' \in Bits(W)
    BY <2>2, <2>3 DEF Bits
  <2>5. TypeOK'
    BY <2>1, <2>2, <2>3, <2>4 DEF Inv, TypeOK
  <2>6. CASE debut
    <3>1. A = reg_A
      BY <1>1, <2>6
    <3>2. Seeded'
      BY <2>3, <3>1 DEF Seeded
    <3>3. /\ reg_R' \in Nat /\ 1 <= reg_R' /\ reg_R' <= reg_A' \div 2 + 1
          /\ reg_A' < (reg_R' + 1) * (reg_R' + 1)
      <4>1. CASE A = 1
        BY <2>3, <3>1, <4>1
      <4>2. CASE A > 1
        <5> DEFINE h == A \div 2
        <5>1. h \in Nat /\ h >= 1 /\ A <= 2 * h + 1
          BY <2>1, <4>2
        <5>2. reg_R' = h /\ reg_A' = A
          BY <2>3, <3>1, <4>2
        <5>3. (h + 1) * (h + 1) = h * h + 2 * h + 1 /\ h * h >= 1
          <6> HIDE DEF h
          <6> QED BY <5>1
        <5> QED BY <2>1, <5>1, <5>2, <5>3
      <4> QED BY <2>1, <4>1, <4>2
    <3> QED BY <2>1, <2>3, <2>5, <2>6, <3>2, <3>3 DEF Inv, NeverBelowRoot
  <2>7. CASE ~debut
    BY <2>3, <2>5, <2>7 DEF Inv, NeverBelowRoot
  <2> QED BY <2>6, <2>7
<1>2. CASE Compute
  <2> DEFINE h == Next_R(reg_A, reg_R)
  <2>1. /\ reg_A \in Nat /\ reg_A >= 1 /\ reg_A < pow2[W]
        /\ reg_R \in Nat /\ reg_R >= 1 /\ reg_R <= reg_A \div 2 + 1
        /\ reg_A < (reg_R + 1) * (reg_R + 1) /\ reg_R' = h
    BY <1>2, ComputeIterate
  <2>2. h \in Nat /\ h >= 1 /\ h <= reg_A \div 2 + 1 /\ reg_A < (h + 1) * (h + 1)
    BY <2>1, NewtonStep
  <2>3. /\ reg_A' = reg_A /\ reg_R_prev' = reg_R /\ s_count' = s_count + 1
        /\ state' = IF Settled THEN "DONE" ELSE "COMPUTE"
        /\ Resultat' = IF state' = "DONE" THEN Low(reg_R', nb_bits) ELSE Resultat
    BY <1>2 DEF Compute
  <2>4. Iterated'
    BY <2>1, <2>3 DEF Iterated
  <2> HIDE DEF h
  <2>5. reg_R' \in Bits(W)
    <3>1. reg_A \div 2 + 1 <= reg_A \/ reg_A = 1
      BY <2>1
    <3>2. pow2[W] \in Nat /\ pow2[W] >= 4
      BY WidthsFit
    <3> QED BY <2>1, <2>2, <3>1, <3>2 DEF Bits
  <2>6. Resultat' \in Bits(nb_bits)
    <3>1. Low(reg_R', nb_bits) \in Bits(nb_bits)
      BY <2>1, <2>2, LowRange
    <3> QED BY <2>3, <3>1 DEF Inv, TypeOK
  <2>7. TypeOK'
    BY <2>3, <2>5, <2>6 DEF Inv, TypeOK
  <2>8. state' = "DONE" => IsRoot(Resultat', reg_A')
    <3> SUFFICES ASSUME state' = "DONE" PROVE IsRoot(Resultat', reg_A')
      OBVIOUS
    <3>1. IsRoot(h, reg_A)
      BY <1>2, <2>1, <2>3, SettledIsRoot
    <3>2. h < pow2[nb_bits] /\ nb_bits \in Nat
      <4>1. pow2[nb_bits] \in Nat /\ pow2[W] = pow2[nb_bits] * pow2[nb_bits]
        BY WidthsFit
      <4>2. h * h \in Nat /\ h * h < pow2[nb_bits] * pow2[nb_bits]
        BY <2>1, <2>2, <3>1, <4>1 DEF IsRoot
      <4> QED BY <2>2, <4>1, <4>2, SquareOrder
    <3>3. Resultat' = h
      BY <2>1, <2>2, <2>3, <3>2, LowFits
    <3> QED BY <2>3, <3>1, <3>3
  <2> QED BY <2>1, <2>2, <2>3, <2>4, <2>7, <2>8 DEF Inv, NeverBelowRoot
<1>3. CASE Reset
  BY <1>3 DEF Reset, regs, Inv, TypeOK, NeverBelowRoot
<1>4. CASE UNCHANGED vars
  BY <1>4 DEF vars, Inv, TypeOK, NeverBelowRoot, Seeded, Iterated
<1> QED BY <1>1, <1>2, <1>3, <1>4 DEF HeldNext, Done

\* The invariant holds throughout every behaviour.
THEOREM Invariant == ASSUME 0 \notin Operands PROVE HeldSpec => []Inv
<1>1. Inv /\ [HeldNext]_vars => Inv'
  BY StepInv
<1> QED BY <1>1, InitInv, PTL DEF HeldSpec

-----------------------------------------------------------------------------
(* What the invariant implies *)

\* Every register keeps to its declared width.
THEOREM TypeCorrect == ASSUME 0 \notin Operands PROVE HeldSpec => []TypeOK
<1>1. Inv => TypeOK
  BY DEF Inv
<1> QED BY <1>1, Invariant, PTL

\* No iterate falls below the root, and the divider never sees a zero.
THEOREM NeverBelow == ASSUME 0 \notin Operands PROVE HeldSpec => []NeverBelowRoot
<1>1. Inv => NeverBelowRoot
  BY DEF Inv
<1> QED BY <1>1, Invariant, PTL

\* The sum of iterate and quotient never carries out, at any width.
THEOREM CarryFree == ASSUME 0 \notin Operands PROVE HeldSpec => []NoCarry
<1>1. Inv => NoCarry
  <2> SUFFICES ASSUME Inv, state = "COMPUTE"
               PROVE  reg_R + reg_A \div reg_R < pow2[W]
    BY DEF NoCarry
  <2>1. /\ reg_A \in Nat /\ reg_A >= 1 /\ reg_A < pow2[W]
        /\ reg_R \in Nat /\ reg_R >= 1 /\ reg_R <= reg_A \div 2 + 1
        /\ reg_A < (reg_R + 1) * (reg_R + 1)
    BY WidthsFit DEF Inv, TypeOK, NeverBelowRoot, Bits
  <2> QED BY <2>1, NewtonStep
<1> QED BY <1>1, Invariant, PTL

\* fini comes with the integer square root of the sampled operand.
THEOREM RootIsCorrect == ASSUME 0 \notin Operands PROVE HeldSpec => []RootCorrect
<1>1. Inv => RootCorrect
  BY DEF Inv, RootCorrect, fini
<1> QED BY <1>1, Invariant, PTL

\* Every edge that goes on lowers the iterate, except at the root.
THEOREM IterateDescends == ASSUME 0 \notin Operands PROVE HeldSpec => Descends
<1>1. Inv /\ [HeldNext]_vars =>
        [state = "COMPUTE" /\ state' = "COMPUTE"
           => reg_R' < reg_R \/ IsRoot(reg_R, reg_A)]_vars
  <2> SUFFICES ASSUME Inv, HeldNext, state = "COMPUTE", state' = "COMPUTE",
                      ~ IsRoot(reg_R, reg_A)
               PROVE  reg_R' < reg_R
    OBVIOUS
  <2>1. Compute
    BY DEF HeldNext, Idle, Done, Reset
  <2>2. /\ reg_A \in Nat /\ reg_R \in Nat /\ reg_R >= 1
        /\ reg_A < (reg_R + 1) * (reg_R + 1) /\ reg_R' = Next_R(reg_A, reg_R)
    BY <2>1, ComputeIterate
  <2>3. reg_A < reg_R * reg_R
    BY <2>2 DEF IsRoot
  <2> QED BY <2>2, <2>3, NewtonFalls
<1> QED BY <1>1, Invariant, PTL DEF HeldSpec, Descends

-----------------------------------------------------------------------------
(* The budget of edges *)

\* How far from the root r the iterate may be at this count: with W edges
\* allowed, the last finds the iteration settled at r, or at r + 1 coming from
\* r, and the one before finds r.  Above r the excess halves, and so few are
\* the edges spent that the ones an excess of two needs are left.
Paced(r) ==
    \/ reg_R_prev = r /\ reg_R \in {r, r + 1} /\ s_count <= W - 1
    \/ reg_R = r /\ s_count <= W - 2
    \/ /\ reg_R > r
       /\ 2 * (pow2[s_count] * (reg_R - r)) <= r * r
       /\ s_count <= IF reg_R = r + 1 THEN W - 3 ELSE W - 4

\* WithinBudget is not inductive: it takes the pace on the way there.
Budget == /\ state = "COMPUTE" => \A r \in Nat : IsRoot(r, reg_A) => Paced(r)
          /\ state = "DONE" => s_count <= W

\* The root of a positive operand of W bits has nb_bits bits.
LEMMA RootFits ==
  ASSUME NEW a \in Nat, a >= 1, a < pow2[W], NEW r \in Nat, IsRoot(r, a)
  PROVE  /\ r >= 1 /\ r < pow2[nb_bits]
         /\ r * r <= a /\ a <= r * r + 2 * r /\ r * r \in Nat
<1>1. (r + 1) * (r + 1) = r * r + 2 * r + 1 /\ r * r \in Nat
  OBVIOUS
<1>2. r # 0
  <2>1. r = 0 => (r + 1) * (r + 1) = 1
    OBVIOUS
  <2> QED BY <2>1 DEF IsRoot
<1>3. r < pow2[nb_bits]
  <2>1. pow2[nb_bits] \in Nat /\ pow2[W] = pow2[nb_bits] * pow2[nb_bits] /\ pow2[W] \in Nat
    BY WidthsFit
  <2>2. r * r < pow2[nb_bits] * pow2[nb_bits]
    BY <1>1, <2>1 DEF IsRoot
  <2> QED BY <2>1, <2>2, SquareOrder
<1> QED BY <1>1, <1>2, <1>3 DEF IsRoot

\* An excess that will still be two after the edge is met early enough.
LEMMA EarlyEnough ==
  ASSUME NEW r \in Nat, r >= 1, r < pow2[nb_bits], NEW c \in Nat, NEW e \in Nat,
         2 * (pow2[c] * e) <= r * r, e * e - 4 * e >= 2 * r
  PROVE  c <= W - 5
<1> SUFFICES ASSUME c >= W - 4 PROVE FALSE
  OBVIOUS
<1>1. PICK h \in Nat : h = pow2[nb_bits - 2] /\ h >= 1 /\ pow2[nb_bits] = 4 * h
  BY FirstBracket
<1>2. PICK d \in Nat : d >= 1 /\ pow2[c] = (h * h) * d
  <2> DEFINE n == nb_bits - 2
             j == c - (W - 4)
  <2>1. n \in Nat /\ j \in Nat /\ c = (n + n) + j /\ n + n \in Nat
    OBVIOUS
  <2> HIDE DEF j
  <2>2. pow2[c] = pow2[n + n] * pow2[j] /\ pow2[n + n] = pow2[n] * pow2[n]
    <3> HIDE DEF n
    <3> QED BY <2>1, Pow2Add
  <2>3. pow2[j] \in Nat /\ pow2[j] >= 1
    BY <2>1, Pow2Pos
  <2> QED BY <1>1, <2>2, <2>3
<1>3. r * r < 2 * (e * (h * h))
  BY <1>1, PaceBound
<1>4. e * (h * h) <= pow2[c] * e
  <2> DEFINE g == e * (h * h)
  <2>1. g \in Nat /\ pow2[c] * e = g * d
    BY <1>2
  <2> HIDE DEF g
  <2>2. g * d >= g * 1
    BY <1>2, <2>1
  <2> QED BY <2>1, <2>2 DEF g
<1>5. e * (h * h) \in Nat /\ pow2[c] * e \in Nat /\ r * r \in Nat
  BY Pow2Pos
<1> QED BY <1>3, <1>4, <1>5

\* The seed of an operand keeps the pace at count 0.
LEMMA SeedPaced ==
  ASSUME NEW a \in Nat, a >= 1, NEW r \in Nat, r >= 1, IsRoot(r, a),
         NEW R \in Nat, R = IF a > 1 THEN a \div 2 ELSE a, a < (R + 1) * (R + 1)
  PROVE  \/ R = r
         \/ R > r /\ 2 * (pow2[0] * (R - r)) <= r * r
<1>1. r <= R
  BY NotBelow
<1>2. 2 * R <= a \/ a = 1
  OBVIOUS
<1>3. a <= r * r + 2 * r /\ r * r \in Nat
  <2>1. (r + 1) * (r + 1) = r * r + 2 * r + 1 /\ r * r \in Nat
    OBVIOUS
  <2> QED BY <2>1 DEF IsRoot
<1>4. 2 * (pow2[0] * (R - r)) = 2 * R - 2 * r
  <2>1. pow2[0] * (R - r) = R - r
    BY Pow2Zero
  <2> QED BY <2>1
<1> QED BY <1>1, <1>2, <1>3, <1>4

\* An edge that goes on keeps the pace, one that settles is within the budget.
LEMMA ComputePaced ==
  ASSUME Inv, Budget, Compute
  PROVE  Budget'
<1>1. /\ reg_A \in Nat /\ reg_A >= 1 /\ reg_A < pow2[W]
      /\ reg_R \in Nat /\ reg_R >= 1 /\ reg_R <= reg_A \div 2 + 1
      /\ reg_A < (reg_R + 1) * (reg_R + 1)
      /\ reg_R' = Next_R(reg_A, reg_R)
  BY ComputeIterate
<1>2. /\ reg_A' = reg_A /\ reg_R_prev' = reg_R /\ s_count' = s_count + 1
      /\ state' = IF Settled THEN "DONE" ELSE "COMPUTE"
      /\ s_count \in Nat /\ state = "COMPUTE"
      /\ reg_R < pow2[W] /\ pow2[W] \in Nat
  BY WidthsFit DEF Compute, Inv, TypeOK, Bits
<1> DEFINE h == Next_R(reg_A, reg_R)
<1>3. h \in Nat /\ h >= 1 /\ reg_A < (h + 1) * (h + 1)
  BY <1>1, NewtonStep
<1> HIDE DEF h
<1>4. ASSUME NEW r \in Nat, IsRoot(r, reg_A)
      PROVE  /\ Settled => s_count + 1 <= W
             /\ ~Settled => Paced(r)'
  <2>1. /\ Paced(r) /\ r >= 1 /\ r < pow2[nb_bits] /\ r * r \in Nat
        /\ r <= reg_R /\ r <= h
    BY <1>1, <1>2, <1>3, <1>4, RootFits, NotBelow DEF Budget
  <2>2. CASE reg_R_prev = r /\ reg_R \in {r, r + 1} /\ s_count <= W - 1
    <3>1. Settled
      <4>1. reg_R = r + 1 => Low(reg_R - 1, W) = reg_R_prev
        <5>1. reg_R = r + 1 => reg_R - 1 = r /\ r < pow2[W]
          BY <1>2
        <5>2. r < pow2[W] => Low(r, W) = r
          <6>1. W \in Nat
            OBVIOUS
          <6> HIDE DEF W
          <6> QED BY <6>1, LowFits
        <5> QED BY <2>2, <5>1, <5>2
      <4> QED BY <2>2, <4>1 DEF Settled
    <3> QED BY <1>2, <2>2, <3>1
  <2>3. CASE reg_R = r /\ s_count <= W - 2
    <3>1. h <= r + 1
      BY <1>1, <1>4, <2>1, <2>3, NewtonAtRoot DEF h
    <3>2. Paced(r)'
      BY <1>1, <1>2, <1>3, <2>1, <2>3, <3>1 DEF Paced, h
    <3> QED BY <1>2, <2>3, <3>2
  <2>4. CASE /\ reg_R > r
             /\ 2 * (pow2[s_count] * (reg_R - r)) <= r * r
             /\ s_count <= IF reg_R = r + 1 THEN W - 3 ELSE W - 4
    <3> DEFINE e == reg_R - r
               p == pow2[s_count]
    <3>1. e \in Nat /\ e >= 1 /\ reg_R = r + e
      BY <1>1, <2>4
    <3>2. p \in Nat /\ p >= 1 /\ pow2[s_count + 1] = 2 * p
      BY <1>2, Pow2Pos, Pow2Succ
    <3>3. 2 * (p * e) <= r * r
      BY <2>4
    <3> HIDE DEF e, p
    <3>4. h = Next_R(reg_A, r + e)
      BY <3>1 DEF h
    <3>5. 2 * (h - r) <= e /\ (h >= r + 2 => e * e - 4 * e >= 2 * r)
      BY <1>1, <1>3, <1>4, <2>1, <3>1, <3>4, NewtonHalves
    <3>6. h >= r + 2 => s_count <= W - 5
      BY <1>2, <2>1, <3>1, <3>3, <3>5, EarlyEnough DEF p
    <3>7. 2 * ((2 * p) * (h - r)) <= r * r
      <4>1. (2 * p) * (h - r) = p * (2 * (h - r)) /\ p * (2 * (h - r)) <= p * e
        <5> DEFINE f == 2 * (h - r)
        <5>1. f \in Nat /\ f <= e /\ (2 * p) * (h - r) = p * f
          BY <1>3, <2>1, <3>2, <3>5
        <5> HIDE DEF f
        <5>2. p * f <= p * e
          BY <3>1, <3>2, <5>1
        <5> QED BY <5>1, <5>2 DEF f
      <4>2. p * e \in Nat /\ p * (2 * (h - r)) \in Int
        BY <1>3, <3>1, <3>2
      <4> QED BY <2>1, <3>3, <4>1, <4>2
    <3>8. s_count <= W - 3 /\ (e >= 2 => s_count <= W - 4)
      BY <1>1, <1>2, <2>4, <3>1
    <3>9. h = r \/ (h = r + 1 /\ e >= 2) \/ h >= r + 2
      BY <1>3, <2>1, <3>1, <3>5
    <3>10. /\ h = r => s_count + 1 <= W - 2
           /\ h = r + 1 => s_count + 1 <= W - 3
           /\ h >= r + 2 => s_count + 1 <= W - 4
      BY <1>2, <3>6, <3>8, <3>9
    <3>11. Paced(r)'
      <4>1. reg_R' = h
        BY <1>1 DEF h
      <4>2. h > r => 2 * (pow2[s_count + 1] * (h - r)) <= r * r
        BY <3>2, <3>7
      <4> QED BY <1>2, <1>3, <2>1, <3>9, <3>10, <4>1, <4>2 DEF Paced
    <3> QED BY <1>2, <3>8, <3>11
  <2> QED BY <2>1, <2>2, <2>3, <2>4 DEF Paced
<1>5. PICK r \in Nat : IsRoot(r, reg_A)
  BY <1>1, RootExists
<1>6. Settled => s_count + 1 <= W
  BY <1>4, <1>5
<1>7. state' = "COMPUTE" => \A t \in Nat : IsRoot(t, reg_A') => Paced(t)'
  BY <1>2, <1>4
<1> QED BY <1>2, <1>6, <1>7 DEF Budget

\* Every edge and the reset preserve the budget.
LEMMA StepBudget ==
  ASSUME 0 \notin Operands
  PROVE  Inv /\ Inv' /\ Budget /\ [HeldNext]_vars => Budget'
<1> SUFFICES ASSUME Inv, Inv', Budget, [HeldNext]_vars PROVE Budget'
  OBVIOUS
<1>1. ASSUME NEW go \in BOOLEAN, NEW A \in Operands, go => A = reg_A, Idle(go, A)
      PROVE  Budget'
  <2>1. CASE go
    <3>1. /\ reg_A' = reg_A /\ s_count' = 0 /\ state' = "COMPUTE"
          /\ reg_R' = IF reg_A > 1 THEN reg_A \div 2 ELSE reg_A
      BY <1>1, <2>1 DEF Idle, Seed
    <3>2. /\ reg_A \in Nat /\ reg_A >= 1 /\ reg_A < pow2[W] /\ reg_R' \in Nat
          /\ reg_A < (reg_R' + 1) * (reg_R' + 1)
      BY <3>1, WidthsFit DEF Inv, TypeOK, NeverBelowRoot, Bits
    <3>3. ASSUME NEW r \in Nat, IsRoot(r, reg_A) PROVE Paced(r)'
      <4>1. r >= 1
        BY <3>2, <3>3, RootFits
      <4>2. \/ reg_R' = r
            \/ reg_R' > r /\ 2 * (pow2[0] * (reg_R' - r)) <= r * r
        BY <3>1, <3>2, <3>3, <4>1, SeedPaced
      <4> QED BY <3>1, <3>2, <4>2 DEF Paced
    <3> QED BY <3>1, <3>3 DEF Budget
  <2>2. CASE ~go
    BY <1>1, <2>2 DEF Idle, Budget
  <2> QED BY <2>1, <2>2
<1>2. CASE Compute
  BY <1>2, ComputePaced
<1>3. CASE Reset
  BY <1>3 DEF Reset, Budget
<1>4. CASE UNCHANGED vars
  BY <1>4 DEF vars, Budget, Paced
<1> QED BY <1>1, <1>2, <1>3, <1>4 DEF HeldNext, Done

\* The computation ends within as many edges as the operand has bits, and the
\* reported count never wraps its vector.
THEOREM BudgetKept == ASSUME 0 \notin Operands PROVE HeldSpec => []WithinBudget
<1>1. Init => Budget
  BY DEF Init, Budget
<1>2. Inv /\ Inv' /\ Budget /\ [HeldNext]_vars => Budget'
  BY StepBudget
<1>3. Inv /\ Budget => WithinBudget
  <2> SUFFICES ASSUME Inv, Budget, state # "IDLE" PROVE Low(s_count, W) <= W
    BY DEF WithinBudget, count
  <2>1. s_count \in Nat /\ s_count <= W
    <3>1. CASE state = "COMPUTE"
      <4>1. reg_A \in Nat
        BY DEF Inv, TypeOK, Bits
      <4>2. PICK r \in Nat : IsRoot(r, reg_A)
        BY <4>1, RootExists
      <4>3. Paced(r) /\ s_count \in Nat
        BY <3>1, <4>2 DEF Budget, Inv, TypeOK
      <4> QED BY <4>3 DEF Paced
    <3>2. CASE state = "DONE"
      BY <3>2 DEF Budget, Inv, TypeOK
    <3> QED BY <3>1, <3>2 DEF Inv, TypeOK, TState
  <2>2. W \in Nat /\ W < pow2[W] /\ pow2[W] \in Nat
    <3>1. W \in Nat
      OBVIOUS
    <3> HIDE DEF W
    <3> QED BY <3>1, BelowPow2, Pow2Pos
  <2> HIDE DEF W
  <2>3. Low(s_count, W) = s_count
    BY <2>1, <2>2, LowFits
  <2> QED BY <2>1, <2>3
<1> QED BY <1>1, <1>2, <1>3, Invariant, PTL DEF HeldSpec

-----------------------------------------------------------------------------
(* Refinement *)

\* Every behaviour of archi1 under the held operand is one of the service: an
\* IDLE edge samples, the edge that finds the iteration settled delivers, the
\* edges before it are invisible.
THEOREM Implements == ASSUME 0 \notin Operands PROVE HeldSpec => Service!Spec
<1>0. Service!Bits(nb_bits) = Bits(nb_bits)
  <2>1. Service!pow2 = pow2
    BY DEF Service!pow2, pow2
  <2> QED BY <2>1 DEF Service!Bits, Bits
<1>1. Init => Service!Init
  <2> SUFFICES ASSUME Init PROVE Service!Init
    OBVIOUS
  <2>1. TypeOK
    BY InitInv DEF Inv
  <2> QED BY <1>0, <2>1 DEF Init, Service!Init, TypeOK
<1>2. Inv /\ Inv' /\ [HeldNext]_vars => [Service!Next]_(Service!vars)
  <2> SUFFICES ASSUME Inv, Inv', [HeldNext]_vars
               PROVE  [Service!Next]_(Service!vars)
    OBVIOUS
  <2> USE DEF Service!vars, Service!Next
  <2>1. ASSUME NEW debut \in BOOLEAN, NEW A \in Operands, Idle(debut, A)
        PROVE  Service!Sample(debut, A)
    BY <2>1 DEF Idle, Service!Sample
  <2>2. CASE Compute
    <3>1. CASE state' = "DONE"
      <4>1. Resultat' \in Bits(nb_bits) /\ IsRoot(Resultat', reg_A')
        BY <3>1 DEF Inv, TypeOK
      <4> QED BY <1>0, <2>2, <3>1, <4>1
               DEF Compute, Service!Deliver, Service!IsRoot, IsRoot
    <3>2. CASE state' # "DONE"
      BY <2>2, <3>2 DEF Compute
    <3> QED BY <3>1, <3>2
  <2>3. CASE Reset
    BY <2>3 DEF Reset, regs, Service!Reset
  <2>4. CASE UNCHANGED vars
    BY <2>4 DEF vars
  <2> QED BY <2>1, <2>2, <2>3, <2>4 DEF HeldNext, Done
<1> QED BY <1>1, <1>2, Invariant, PTL DEF HeldSpec, Service!Spec
=============================================================================
