-------------------------- MODULE Restoring_proofs --------------------------
(***************************************************************************)
(* Proofs about the architectures that compute the restoring root: archi3, *)
(* one digit per edge, the cascade archi4, the pipeline archi5, and archi7,*)
(* archi3 from components; for every width, every set of operands and      *)
(* every power-up contents.                                                *)
(***************************************************************************)
EXTENDS Archi3, Archi4, Archi5, Archi7, SqrtLemmas, SequenceTheorems

USE WidthAssumption DEF W

-----------------------------------------------------------------------------
(* archi3: the inductive invariant *)

\* TypeOK and DigitsKnown say nothing of how the latch follows the registers
\* nor of where the controller stands among the digits; Inv adds that.
Inv == /\ TypeOK
       /\ DigitsKnown
       /\ state = "COMPUTE" => s_count = s_idx /\ s_idx < nb_bits
       /\ state = "DONE" => /\ s_count = nb_bits /\ s_idx = nb_bits
                            /\ Resultat = Output

\* Power-up establishes the invariant: the controller is IDLE.
LEMMA InitInv == Init => Inv
<1> SUFFICES ASSUME Init PROVE Inv
  OBVIOUS
<1>1. \A p \in PowerUp : p \in Bits(W) /\ p \in Int
  BY PowerUpAssumption DEF Bits
<1>2. Resultat \in Bits(nb_bits)
  BY <1>1, LowRange DEF Init
<1>3. TypeOK
  BY <1>1, <1>2 DEF Init, TypeOK, TState
<1> QED BY <1>3 DEF Init, Inv, DigitsKnown

\* What the registers hold at an edge of the computation, and that the sum
\* the comparison uses loses nothing.
LEMMA AtDigit ==
  ASSUME Inv, state = "COMPUTE"
  PROVE  \E u, m \in Nat :
           /\ u >= 1 /\ m < pow2[s_idx]
           /\ pow2[2 * (nb_bits - s_idx)] = 4 * u
           /\ pow2[2 * (nb_bits - (s_idx + 1))] = u
           /\ reg_Z = (4 * u) * m /\ reg_V = u
           /\ reg_A = reg_X + (4 * u) * m * m
           /\ reg_X < (4 * u) * (2 * m + 1)
           /\ pow2[W] = (4 * u) * pow2[s_idx] * pow2[s_idx]
           /\ Trial = reg_Z + reg_V /\ reg_Z + reg_V < pow2[W]
<1> DEFINE w == pow2[2 * (nb_bits - s_idx)]
           p == pow2[s_idx]
<1>1. s_idx \in 0 .. nb_bits - 1 /\ s_idx \in 0 .. nb_bits
  BY DEF Inv, TypeOK
<1>2. PICK u \in Nat : u >= 1 /\ w = 4 * u /\ pow2[2 * (nb_bits - (s_idx + 1))] = u
  BY <1>1, WeightStep
<1>3. PICK m \in Bits(s_idx) : Digits(w, m)
  BY DEF Inv, DigitsKnown
<1>4. p \in Nat /\ p >= 1 /\ m \in Nat /\ m < p
  BY <1>1, Pow2Pos DEF Bits
<1>5. pow2[W] = (4 * u) * p * p /\ pow2[W] \in Nat
  BY <1>1, <1>2, WeightBound, Pow2Pos
<1>6. reg_A \in Nat /\ reg_X \in Nat
  BY DEF Inv, TypeOK, Bits
<1> HIDE DEF w, p
<1>7. /\ reg_Z = (4 * u) * m /\ reg_A = reg_X + (4 * u) * m * m
      /\ reg_X < (4 * u) * (2 * m + 1) /\ reg_V = u
  <2>1. (4 * u) \div 4 = u
    OBVIOUS
  <2> QED BY <1>2, <1>3, <2>1 DEF Digits
<1>8. (4 * u) * m + u < (4 * u) * p * p
  BY <1>2, <1>4, <1>6, <1>7, DigitStep
<1>9. Trial = reg_Z + reg_V /\ reg_Z + reg_V < pow2[W]
  <2>1. reg_Z + reg_V \in Nat /\ reg_Z + reg_V < pow2[W]
    BY <1>4, <1>5, <1>7, <1>8
  <2>2. W \in Nat
    OBVIOUS
  <2> QED BY <2>1, <2>2, LowFits DEF Trial
<1> QED BY <1>2, <1>4, <1>5, <1>7, <1>9 DEF w, p

\* An edge of the computation establishes one digit more.
LEMMA ComputeDigits ==
  ASSUME Inv, Compute
  PROVE  /\ reg_X' \in Bits(W) /\ reg_Z' \in Bits(W) /\ reg_V' \in Bits(W)
         /\ (\E m \in Bits(s_idx) : Digits(pow2[2 * (nb_bits - s_idx)], m))'
<1>1. PICK u, m \in Nat :
           /\ u >= 1 /\ m < pow2[s_idx]
           /\ pow2[2 * (nb_bits - s_idx)] = 4 * u
           /\ pow2[2 * (nb_bits - (s_idx + 1))] = u
           /\ reg_Z = (4 * u) * m /\ reg_V = u
           /\ reg_A = reg_X + (4 * u) * m * m
           /\ reg_X < (4 * u) * (2 * m + 1)
           /\ pow2[W] = (4 * u) * pow2[s_idx] * pow2[s_idx]
           /\ Trial = reg_Z + reg_V /\ reg_Z + reg_V < pow2[W]
  BY AtDigit DEF Compute
<1> DEFINE p == pow2[s_idx]
<1>2. /\ s_idx \in Nat /\ p \in Nat /\ pow2[W] \in Nat /\ W \in Nat
      /\ pow2[s_idx + 1] = 2 * p
      /\ reg_A \in Nat /\ reg_X \in Nat /\ reg_X < pow2[W]
  <2>1. s_idx \in Nat /\ W \in Nat
    BY DEF Inv, TypeOK
  <2> QED BY <2>1, Pow2Pos, Pow2Succ DEF Inv, TypeOK, Bits
<1> HIDE DEF p
<1>3. /\ ((4 * u) * m) \div 2 = u * (2 * m)
      /\ reg_X < (4 * u) * m + u =>
           /\ reg_A = reg_X + u * (2 * m) * (2 * m)
           /\ reg_X < u * (2 * (2 * m) + 1)
      /\ reg_X >= (4 * u) * m + u =>
           /\ u * (2 * m) + u = u * (2 * m + 1)
           /\ u * (2 * m) + u < (4 * u) * p * p
           /\ reg_A = (reg_X - (4 * u) * m - u) + u * (2 * m + 1) * (2 * m + 1)
           /\ reg_X - (4 * u) * m - u < u * (2 * (2 * m + 1) + 1)
  BY <1>1, <1>2, DigitStep DEF p
<1>4. reg_V' = u \div 4 /\ u \div 4 \in Nat /\ u \div 4 <= u /\ reg_A' = reg_A
  BY <1>1 DEF Compute
<1>5. u < pow2[W] /\ s_idx' = s_idx + 1
  BY <1>1, <1>2 DEF Compute
<1>6. reg_V' \in Bits(W)
  BY <1>2, <1>4, <1>5 DEF Bits
<1>7. CASE Restore
  <2>1. reg_X' = reg_X /\ reg_Z' = u * (2 * m) /\ reg_X < (4 * u) * m + u
    BY <1>1, <1>3, <1>7 DEF Restore
  <2>2. 2 * m \in Bits(s_idx + 1)
    BY <1>1, <1>2 DEF Bits, p
  <2>3. Digits(u, 2 * m)'
    BY <1>3, <1>4, <2>1 DEF Digits
  <2>4. reg_Z' \in Bits(W)
    <3>1. u * (2 * m) \in Nat /\ (4 * u) * m \in Nat /\ u * (2 * m) <= (4 * u) * m
      OBVIOUS
    <3> QED BY <1>1, <1>2, <2>1, <3>1 DEF Bits
  <2>5. reg_X' \in Bits(W)
    BY <1>2, <2>1 DEF Bits
  <2> QED BY <1>1, <1>5, <1>6, <2>2, <2>3, <2>4, <2>5
<1>8. CASE Subtract
  <2> DEFINE z == u * (2 * m) + u
             x == reg_X - (4 * u) * m - u
  <2>1. reg_X >= (4 * u) * m + u
    BY <1>1, <1>8 DEF Subtract
  <2>2. z \in Nat /\ z < pow2[W] /\ x \in Nat /\ x < pow2[W]
    <3>1. (4 * u) * m \in Nat /\ u * (2 * m) \in Nat
      OBVIOUS
    <3> QED BY <1>1, <1>2, <1>3, <2>1, <3>1 DEF p
  <2>3. reg_Z' = Low(z, W) /\ reg_X' = Low(x, W)
    BY <1>1, <1>3, <1>8 DEF Subtract
  <2>4. reg_Z' = z /\ reg_X' = x
    <3> HIDE DEF x, z
    <3> QED BY <1>2, <2>2, <2>3, LowFits
  <2>5. 2 * m + 1 \in Bits(s_idx + 1)
    BY <1>1, <1>2 DEF Bits, p
  <2>6. Digits(u, 2 * m + 1)'
    BY <1>3, <1>4, <2>1, <2>4 DEF Digits
  <2>7. reg_Z' \in Bits(W) /\ reg_X' \in Bits(W)
    <3> HIDE DEF x, z
    <3> QED BY <1>2, <2>2, <2>4 DEF Bits
  <2> QED BY <1>1, <1>5, <1>6, <2>5, <2>6, <2>7
<1> QED BY <1>7, <1>8 DEF Compute

\* Every edge and the reset preserve the invariant.
LEMMA StepInv == Inv /\ [Next]_vars => Inv'
<1> SUFFICES ASSUME Inv, [Next]_vars PROVE Inv'
  OBVIOUS
<1> USE DEF TState
<1>1. ASSUME NEW debut \in BOOLEAN, NEW a \in Operands, Idle(debut, a) PROVE Inv'
  <2>1. a \in Bits(W)
    BY OperandsAssumption
  <2>2. /\ a \in Nat /\ a < pow2[W] /\ pow2[W] \in Nat
        /\ pow2[W] = pow2[2 * (nb_bits - 0)] /\ 0 \in Bits(0) /\ 0 \in Bits(W)
    BY <2>1, WidthsFit, Pow2Zero DEF Bits
  <2>3. TypeOK'
    BY <1>1, <2>1, <2>2, FirstWeight DEF Idle, Load, ClearCounters, Inv, TypeOK
  <2>4. Digits(pow2[2 * (nb_bits - 0)], 0)'
    <3>1. a = a + pow2[W] * 0 * 0 /\ a < pow2[W] * (2 * 0 + 1) /\ 0 = pow2[W] * 0
      BY <2>2
    <3> QED BY <1>1, <2>2, <3>1, FirstWeight DEF Idle, Load, Digits
  <2>5. DigitsKnown'
    BY <1>1, <2>2, <2>4 DEF Idle, Load, ClearCounters, DigitsKnown
  <2> QED BY <1>1, <2>3, <2>5 DEF Idle, ClearCounters, Inv
<1>2. CASE Compute
  <2>1. /\ s_idx \in 0 .. nb_bits - 1 /\ s_count = s_idx
        /\ s_idx' = s_idx + 1 /\ s_count' = s_count + 1
    BY <1>2 DEF Compute, Inv, TypeOK
  <2>2. DigitsKnown'
    BY <1>2, <2>1, ComputeDigits DEF DigitsKnown
  <2>3. TypeOK'
    <3>1. /\ state' \in TState /\ reg_A' \in Bits(W)
          /\ s_idx' \in 0 .. nb_bits /\ s_count' \in 0 .. nb_bits
      BY <1>2, <2>1 DEF Compute, AtLastDigit, Inv, TypeOK
    <3>2. reg_X' \in Bits(W) /\ reg_Z' \in Bits(W) /\ reg_V' \in Bits(W)
      BY <1>2, ComputeDigits
    <3>3. Output' \in Bits(nb_bits)
      <4>1. reg_A' \in Int /\ reg_Z' \in Int
        BY <3>1, <3>2 DEF Bits
      <4> QED BY <4>1, LowRange DEF Output
    <3>4. Resultat' \in Bits(nb_bits)
      BY <1>2, <3>3 DEF Compute, Inv, TypeOK
    <3> QED BY <3>1, <3>2, <3>4 DEF TypeOK
  <2> QED BY <1>2, <2>1, <2>2, <2>3 DEF Compute, AtLastDigit, Inv
<1>3. CASE Reset
  BY <1>3 DEF Reset, regs, Inv, TypeOK, DigitsKnown
<1>4. CASE UNCHANGED vars
  BY <1>4 DEF vars, Inv, TypeOK, DigitsKnown, Digits, Output
<1> QED BY <1>1, <1>2, <1>3, <1>4 DEF Next, Done

\* The invariant holds throughout every behaviour.
THEOREM Invariant == Spec => []Inv
BY InitInv, StepInv, PTL DEF Spec

-----------------------------------------------------------------------------
(* archi3: what the invariant implies *)

\* Every register keeps to its declared width.
THEOREM TypeCorrect == Spec => []TypeOK
<1>1. Inv => TypeOK
  BY DEF Inv
<1> QED BY <1>1, Invariant, PTL

\* The digits computed are final, the remainder is exact.
THEOREM DigitsCorrect == Spec => []DigitsKnown
<1>1. Inv => DigitsKnown
  BY DEF Inv
<1> QED BY <1>1, Invariant, PTL

\* The adder of the comparison never carries out, at any width.
THEOREM CarryFree == Spec => []NoCarry
<1>1. Inv => NoCarry
  BY AtDigit DEF NoCarry
<1> QED BY <1>1, Invariant, PTL

\* fini comes with the integer square root of the sampled operand.
THEOREM RootIsCorrect == Spec => []RootCorrect
<1>1. Inv => RootCorrect
  <2> SUFFICES ASSUME Inv, state = "DONE" PROVE IsRoot(Resultat, reg_A)
    BY DEF RootCorrect, fini
  <2>1. s_idx = nb_bits /\ Resultat = Output /\ reg_A \in Nat /\ reg_X \in Nat
    BY DEF Inv, TypeOK, Bits
  <2>2. 2 * (nb_bits - s_idx) = 0
    BY <2>1
  <2>3. PICK m \in Bits(nb_bits) : Digits(1, m)
    BY <2>1, <2>2, Pow2Zero DEF Inv, DigitsKnown
  <2>4. /\ m \in Nat /\ m < pow2[nb_bits]
        /\ nb_bits \in Nat /\ pow2[nb_bits] \in Nat /\ pow2[nb_bits] >= 4
    BY WidthsFit DEF Bits
  <2>5. CASE reg_A < 2
    <3>1. Output = reg_A
      BY <2>1, <2>4, <2>5, LowFits DEF Output
    <3> QED BY <2>1, <2>5, <3>1, SmallRoots
  <2>6. CASE ~(reg_A < 2)
    <3>1. reg_Z = m
      BY <2>3, <2>4 DEF Digits
    <3>2. Output = m
      BY <2>4, <2>6, <3>1, LowFits DEF Output
    <3>3. IsRoot(m, reg_A)
      BY <2>1, <2>3, <2>4, LastDigit DEF Digits
    <3> QED BY <2>1, <3>2, <3>3
  <2> QED BY <2>5, <2>6
<1> QED BY <1>1, Invariant, PTL

\* The reported count is the number of digits, and never wraps its vector.
THEOREM CountIsExact == Spec => []CountExact
<1>1. Inv => CountExact
  <2>1. ASSUME NEW c \in 0 .. nb_bits PROVE Low(c, W) = c
    <3>1. c \in Nat /\ c < pow2[W] /\ W \in Nat
      BY WidthsFit
    <3> QED BY <3>1, LowFits
  <2> QED BY <2>1 DEF Inv, TypeOK, CountExact, count, fini
<1> QED BY <1>1, Invariant, PTL

-----------------------------------------------------------------------------
(* archi3: refinement *)

\* Every behaviour of archi3 is one of the service: an IDLE edge samples, the
\* last edge of the computation delivers, the edges before it are invisible.
THEOREM Implements == Spec => Service!Spec
<1>0. Service!Bits(nb_bits) = Bits(nb_bits)
  <2>1. Service!pow2 = pow2
    BY DEF Service!pow2, pow2
  <2> QED BY <2>1 DEF Service!Bits, Bits
<1>1. Init => Service!Init
  <2> SUFFICES ASSUME Init PROVE Service!Init
    OBVIOUS
  <2>1. TypeOK
    BY InitInv DEF Inv
  <2> QED BY <1>0, <2>1 DEF Init, Service!Init, TypeOK
<1>2. Inv /\ Inv' /\ RootCorrect' /\ [Next]_vars => [Service!Next]_(Service!vars)
  <2> SUFFICES ASSUME Inv, Inv', RootCorrect', [Next]_vars
               PROVE  [Service!Next]_(Service!vars)
    OBVIOUS
  <2> USE DEF Service!vars, Service!Next
  <2>1. ASSUME NEW debut \in BOOLEAN, NEW a \in Operands, Idle(debut, a)
        PROVE  Service!Sample(debut, a)
    BY <2>1 DEF Idle, Load, Service!Sample
  <2>2. CASE Compute
    <3>1. CASE state' = "DONE"
      <4>1. Resultat' \in Bits(nb_bits) /\ IsRoot(Resultat', reg_A')
        BY <3>1 DEF Inv, TypeOK, RootCorrect, fini
      <4> QED BY <1>0, <2>2, <3>1, <4>1
               DEF Compute, Service!Deliver, Service!IsRoot, IsRoot
    <3>2. CASE state' # "DONE"
      BY <2>2, <3>2 DEF Compute
    <3> QED BY <3>1, <3>2
  <2>3. CASE Reset
    BY <2>3 DEF Reset, regs, Service!Reset
  <2>4. CASE UNCHANGED vars
    BY <2>4 DEF vars
  <2> QED BY <2>1, <2>2, <2>3, <2>4 DEF Next, Done
<1> QED BY <1>1, <1>2, Invariant, RootIsCorrect, PTL DEF Spec, Service!Spec

-----------------------------------------------------------------------------
(* One stage of the cascade and of the pipeline *)

\* Whatever transient values a stage is shown, its outputs keep their width.
LEMMA TransformTyped == ASSUME NEW b \in Buses PROVE Transform(b) \in Buses
<1>1. /\ b.X \in Nat /\ b.X < pow2[W] /\ b.Z \in Nat /\ b.Z < pow2[W]
      /\ b.V \in Nat /\ b.V < pow2[W] /\ pow2[W] \in Nat /\ W \in Nat
  BY WidthsFit DEF Buses, Bits
<1>2. /\ Low(b.X - b.Z - b.V, W) \in Bits(W)
      /\ Low(b.Z \div 2 + b.V, W) \in Bits(W)
  <2>1. b.X - b.Z - b.V \in Int /\ b.Z \div 2 + b.V \in Int
    BY <1>1
  <2> QED BY <1>1, <2>1, LowRange
<1>3. b.X \in Bits(W) /\ b.Z \div 2 \in Bits(W) /\ b.V \div 4 \in Bits(W)
  <2>1. b.Z \div 2 \in Nat /\ b.Z \div 2 <= b.Z /\ b.V \div 4 \in Nat /\ b.V \div 4 <= b.V
    BY <1>1
  <2> QED BY <1>1, <2>1 DEF Bits
<1> QED BY <1>2, <1>3 DEF Transform, Buses

\* The constants and the operand at the first stage describe no digit yet.
LEMMA FeedHolds ==
  ASSUME NEW a \in Bits(W)
  PROVE  Feed(a) \in Buses /\ HoldDigits(Feed(a), a, 0)
<1>1. /\ a \in Nat /\ a < pow2[W] /\ pow2[W] \in Nat /\ 0 \in Bits(W)
      /\ pow2[W] = pow2[2 * (nb_bits - 0)] /\ 0 \in Bits(0)
  BY WidthsFit, Pow2Zero DEF Bits
<1>2. Feed(a) \in Buses
  BY <1>1, FirstWeight DEF Feed, Buses
<1>3. a = a + pow2[W] * 0 * 0 /\ a < pow2[W] * (2 * 0 + 1) /\ 0 = pow2[W] * 0
  BY <1>1
<1> QED BY <1>1, <1>2, <1>3, FirstWeight DEF Feed, HoldDigits

\* A stage that is shown i digits of an operand shows one digit more of it.
LEMMA TransformHolds ==
  ASSUME NEW a \in Bits(W), NEW b \in Buses, NEW i \in 0 .. nb_bits - 1,
         HoldDigits(b, a, i)
  PROVE  HoldDigits(Transform(b), a, i + 1)
<1> DEFINE w == pow2[2 * (nb_bits - i)]
           p == pow2[i]
           t == Transform(b)
<1>1. PICK u \in Nat : u >= 1 /\ w = 4 * u /\ pow2[2 * (nb_bits - (i + 1))] = u
  BY WeightStep
<1>2. i \in 0 .. nb_bits /\ i \in Nat /\ W \in Nat
  OBVIOUS
<1>3. /\ p \in Nat /\ p >= 1 /\ pow2[i + 1] = 2 * p
      /\ pow2[W] = (4 * u) * p * p /\ pow2[W] \in Nat
  BY <1>1, <1>2, Pow2Pos, Pow2Succ, WeightBound
<1>4. PICK m \in Bits(i) : /\ b.Z = w * m /\ a = b.X + w * m * m
                           /\ b.X < w * (2 * m + 1) /\ b.V = w \div 4
  BY DEF HoldDigits
<1>5. /\ m \in Nat /\ m < p /\ a \in Nat
      /\ b.X \in Nat /\ b.X < pow2[W] /\ b.Z \in Nat /\ b.Z < pow2[W]
  BY <1>3 DEF Bits, Buses
<1> HIDE DEF w, p
<1>6. /\ b.Z = (4 * u) * m /\ a = b.X + (4 * u) * m * m
      /\ b.X < (4 * u) * (2 * m + 1) /\ b.V = u
  <2>1. (4 * u) \div 4 = u
    OBVIOUS
  <2> QED BY <1>1, <1>4, <2>1
<1>7. /\ (4 * u) * m + u < (4 * u) * p * p
      /\ ((4 * u) * m) \div 2 = u * (2 * m)
      /\ b.X < (4 * u) * m + u =>
           /\ a = b.X + u * (2 * m) * (2 * m)
           /\ b.X < u * (2 * (2 * m) + 1)
      /\ b.X >= (4 * u) * m + u =>
           /\ u * (2 * m) + u = u * (2 * m + 1)
           /\ u * (2 * m) + u < (4 * u) * p * p
           /\ a = (b.X - (4 * u) * m - u) + u * (2 * m + 1) * (2 * m + 1)
           /\ b.X - (4 * u) * m - u < u * (2 * (2 * m + 1) + 1)
  BY <1>1, <1>3, <1>5, <1>6, DigitStep
<1>8. Fits(b) <=> (4 * u) * m + u <= b.X
  <2>1. b.Z + b.V \in Nat /\ b.Z + b.V < pow2[W]
    BY <1>3, <1>5, <1>6, <1>7
  <2>2. Low(b.Z + b.V, W) = b.Z + b.V
    BY <1>2, <2>1, LowFits
  <2> QED BY <1>6, <2>2 DEF Fits
<1>9. CASE Fits(b)
  <2> DEFINE x == b.X - (4 * u) * m - u
             z == u * (2 * m) + u
  <2>1. (4 * u) * m \in Nat /\ u * (2 * m) \in Nat
    BY <1>5
  <2>2. x \in Nat /\ x < pow2[W] /\ z \in Nat /\ z < pow2[W]
    BY <1>3, <1>5, <1>7, <1>8, <1>9, <2>1
  <2>3. t = [X |-> Low(x, W), Z |-> Low(z, W), V |-> u \div 4]
    BY <1>6, <1>7, <1>9 DEF Transform
  <2>4. t.X = x /\ t.Z = z /\ t.V = u \div 4
    <3> HIDE DEF x, z, t
    <3> QED BY <1>2, <2>2, <2>3, LowFits
  <2>5. 2 * m + 1 \in Bits(i + 1)
    BY <1>3, <1>5 DEF Bits
  <2>6. /\ t.Z = u * (2 * m + 1) /\ a = t.X + u * (2 * m + 1) * (2 * m + 1)
        /\ t.X < u * (2 * (2 * m + 1) + 1)
    <3> HIDE DEF t
    <3> QED BY <1>7, <1>8, <1>9, <1>5, <2>1, <2>4
  <2> HIDE DEF t
  <2> QED BY <1>1, <2>4, <2>5, <2>6 DEF HoldDigits, t
<1>10. CASE ~ Fits(b)
  <2>1. b.X < (4 * u) * m + u
    <3>1. (4 * u) * m \in Nat
      BY <1>5
    <3> QED BY <1>5, <1>8, <1>10, <3>1
  <2>2. t.X = b.X /\ t.Z = u * (2 * m) /\ t.V = u \div 4
    BY <1>6, <1>7, <1>10 DEF Transform
  <2>3. 2 * m \in Bits(i + 1)
    BY <1>3, <1>5 DEF Bits
  <2>4. /\ a = t.X + u * (2 * m) * (2 * m) /\ t.X < u * (2 * (2 * m) + 1)
    BY <1>7, <2>1, <2>2
  <2> HIDE DEF t
  <2> QED BY <1>1, <2>2, <2>3, <2>4 DEF HoldDigits, t
<1> QED BY <1>9, <1>10

\* All digits at the last stage are the root, and fit the output port.
LEMMA LastHolds ==
  ASSUME NEW a \in Bits(W), NEW b \in Buses, HoldDigits(b, a, nb_bits)
  PROVE  IsRoot(Low(b.Z, nb_bits), a)
<1>1. 2 * (nb_bits - nb_bits) = 0
  OBVIOUS
<1>2. PICK m \in Bits(nb_bits) : b.Z = 1 * m /\ a = b.X + 1 * m * m /\ b.X < 1 * (2 * m + 1)
  BY <1>1, Pow2Zero DEF HoldDigits
<1>3. /\ m \in Nat /\ m < pow2[nb_bits] /\ nb_bits \in Nat
      /\ a \in Nat /\ b.X \in Nat
  BY WidthsFit DEF Bits, Buses
<1>4. Low(b.Z, nb_bits) = m
  BY <1>2, <1>3, LowFits
<1> QED BY <1>2, <1>3, <1>4, LastDigit

\* Power-up contents have the buses' width.
LEMMA UndrivenTyped == Undriven => tab \in [0 .. nb_bits -> Buses]
BY BusPowerUpAssumption DEF Undriven, Buses

-----------------------------------------------------------------------------
(* archi4: the cascade *)

\* Every assignment of the cascade drives a value of the buses' width.
LEMMA CascadeTyped == CascadeSpec => []CascadeTypeOK
<1>1. CascadeInit => CascadeTypeOK
  BY UndrivenTyped DEF CascadeInit, CascadeTypeOK
<1>2. CascadeTypeOK /\ [CascadeNext]_cascadeVars => CascadeTypeOK'
  <2> SUFFICES ASSUME CascadeTypeOK, [CascadeNext]_cascadeVars PROVE CascadeTypeOK'
    OBVIOUS
  <2>1. ASSUME NEW a \in CascadeOperands, Drive(a) PROVE CascadeTypeOK'
    BY <2>1 DEF Drive, CascadeTypeOK
  <2>2. CASE DriveFirst
    <3>1. Feed(A) \in Buses
      BY CascadeAssumption, FeedHolds DEF CascadeTypeOK
    <3> QED BY <2>2, <3>1 DEF DriveFirst, CascadeTypeOK
  <2>3. ASSUME NEW i \in 0 .. nb_bits - 1, DriveStage(i) PROVE CascadeTypeOK'
    <3>1. Transform(tab[i]) \in Buses
      BY TransformTyped DEF CascadeTypeOK
    <3> QED BY <2>3, <3>1 DEF DriveStage, CascadeTypeOK
  <2>4. CASE UNCHANGED cascadeVars
    BY <2>4 DEF cascadeVars, CascadeTypeOK
  <2> QED BY <2>1, <2>2, <2>3, <2>4 DEF CascadeNext, Propagate
<1> QED BY <1>1, <1>2, PTL DEF CascadeSpec

\* When no assignment is pending, every stage shows digits of the operand on
\* the port: nothing of the mixture the buses went through is left.
LEMMA SettledHolds ==
  ASSUME CascadeTypeOK, Settled
  PROVE  \A i \in 0 .. nb_bits : HoldDigits(tab[i], A, i)
<1>0. A \in Bits(W) /\ \A i \in 0 .. nb_bits : tab[i] \in Buses
  BY CascadeAssumption DEF CascadeTypeOK
<1> DEFINE S == {i \in Nat : i <= nb_bits => HoldDigits(tab[i], A, i)}
<1>1. 0 \in S
  BY <1>0, FeedHolds DEF Settled
<1>2. ASSUME NEW i \in Nat, i \in S PROVE i + 1 \in S
  <2>1. CASE i + 1 <= nb_bits
    <3>1. i \in 0 .. nb_bits - 1 /\ i \in 0 .. nb_bits /\ HoldDigits(tab[i], A, i)
      BY <1>2, <2>1
    <3>2. HoldDigits(Transform(tab[i]), A, i + 1)
      BY <1>0, <3>1, TransformHolds
    <3> QED BY <3>1, <3>2 DEF Settled
  <2>2. CASE ~(i + 1 <= nb_bits)
    BY <2>2
  <2> QED BY <2>1, <2>2
<1>3. Nat \subseteq S
  <2> HIDE DEF S
  <2> QED BY <1>1, <1>2, SetInduction
<1> QED BY <1>3

\* A settled cascade shows the root of the operand on the port, from whatever
\* mixture of older operands and power-up contents it settled.
THEOREM CascadeIsCorrect == CascadeSpec => []CascadeCorrect
<1>1. CascadeTypeOK => SettledCorrect
  <2> SUFFICES ASSUME CascadeTypeOK, Settled PROVE IsRoot(CascadeResultat, A)
    BY DEF SettledCorrect
  <2>1. /\ A \in Bits(W) /\ nb_bits \in 0 .. nb_bits
        /\ tab[nb_bits] \in Buses /\ HoldDigits(tab[nb_bits], A, nb_bits)
    BY CascadeAssumption, SettledHolds DEF CascadeTypeOK
  <2> QED BY <2>1, LastHolds DEF CascadeResultat
<1>2. CascadeTypeOK => CascadeCorrect
  BY <1>1 DEF CascadeCorrect
<1> QED BY <1>2, CascadeTyped, PTL

-----------------------------------------------------------------------------
(* archi5: the pipeline *)

\* The history of operands after an edge: the new one first, the others one
\* place further, the oldest dropped once the pipeline is full.
LEMMA TakenShifts ==
  ASSUME PipelineTypeOK, NEW a \in StreamOperands, Clock(a)
  PROVE  /\ taken' \in Seq(StreamOperands) /\ Len(taken') <= Depth
         /\ Len(taken') \in Nat /\ Len(taken') - 1 <= Len(taken)
         /\ taken'[1] = a
         /\ \A i \in 1 .. Len(taken') - 1 : taken'[i + 1] = taken[i]
<1> DEFINE n == IF Len(taken) < Depth THEN Len(taken) ELSE Depth - 1
           old == IF Len(taken) < Depth THEN taken ELSE SubSeq(taken, 1, Depth - 1)
<1>1. /\ taken \in Seq(StreamOperands) /\ Len(taken) \in Nat /\ Len(taken) <= Depth
      /\ Depth \in Nat /\ Depth >= 1
      /\ \A i \in 1 .. Len(taken) : taken[i] \in StreamOperands
  BY LenProperties, ElementOfSeq DEF PipelineTypeOK, Depth
<1>2. n \in Nat /\ n <= Len(taken) /\ n + 1 <= Depth
  BY <1>1
<1>3. /\ old \in Seq(StreamOperands) /\ Len(old) = n
      /\ \A i \in 1 .. n : old[i] = taken[i]
  <2>1. CASE Len(taken) < Depth
    BY <1>1, <2>1
  <2>2. CASE ~(Len(taken) < Depth)
    <3> DEFINE t == SubSeq(taken, 1, Depth - 1)
    <3>1. Depth - 1 \in Int /\ \A i \in 1 .. Depth - 1 : taken[i] \in StreamOperands
      BY <1>1, <2>2
    <3>2. /\ t \in Seq(StreamOperands)
          /\ Len(t) = IF 1 <= Depth - 1 THEN (Depth - 1) - 1 + 1 ELSE 0
          /\ \A i \in 1 .. (Depth - 1) - 1 + 1 : t[i] = taken[1 + i - 1]
      BY <3>1, SubSeqProperties
    <3>3. old = t /\ n = Depth - 1
      BY <2>2
    <3> HIDE DEF t, old, n
    <3> QED BY <1>1, <3>2, <3>3
  <2> QED BY <2>1, <2>2
<1>4. taken' = <<a>> \o old
  BY DEF Clock
<1> HIDE DEF n, old
<1>5. <<a>> \in Seq(StreamOperands) /\ Len(<<a>>) = 1 /\ <<a>>[1] = a
  OBVIOUS
<1>6. /\ taken' \in Seq(StreamOperands) /\ Len(taken') = 1 + n
      /\ \A i \in 1 .. 1 + n : taken'[i] = IF i <= 1 THEN <<a>>[i] ELSE old[i - 1]
  BY <1>3, <1>4, <1>5, ConcatProperties
<1>7. taken'[1] = a
  BY <1>2, <1>5, <1>6
<1>8. ASSUME NEW i \in 1 .. n PROVE taken'[i + 1] = taken[i]
  <2>1. i + 1 \in 1 .. 1 + n /\ ~(i + 1 <= 1) /\ (i + 1) - 1 = i
    BY <1>2
  <2> QED BY <1>3, <1>6, <2>1
<1> QED BY <1>1, <1>2, <1>6, <1>7, <1>8

\* What lets the pipeline be proved is that every rank holds its digits; that
\* the roots stream out follows from the last one.
PipelineInv == PipelineTypeOK /\ RanksHoldDigits

\* An edge moves every operand's digits one rank on, and adds a digit.
LEMMA ClockKeeps ==
  ASSUME PipelineInv, NEW a \in StreamOperands, Clock(a)
  PROVE  PipelineInv'
<1>1. /\ a \in Bits(W) /\ taken \in Seq(StreamOperands) /\ StreamOperands \subseteq Bits(W)
      /\ \A i \in 0 .. nb_bits : tab[i] \in Buses
  BY StreamAssumption DEF PipelineInv, PipelineTypeOK
<1>2. tab' = [i \in 0 .. nb_bits |-> RankInput(i, a)]
  BY DEF Clock
<1>3. ASSUME NEW i \in 0 .. nb_bits PROVE tab'[i] \in Buses
  <2>1. CASE i = 0
    BY <1>1, <1>2, <2>1, FeedHolds DEF RankInput
  <2>2. CASE i # 0
    <3>1. i - 1 \in 0 .. nb_bits
      BY <2>2
    <3> QED BY <1>1, <1>2, <2>2, <3>1, TransformTyped DEF RankInput
  <2> QED BY <2>1, <2>2
<1>4. PipelineTypeOK'
  BY <1>2, <1>3, TakenShifts DEF PipelineInv, PipelineTypeOK, Depth
<1>5. ASSUME NEW i \in 0 .. nb_bits, i < Len(taken')
      PROVE  HoldDigits(tab'[i], taken'[i + 1], i)
  <2>1. /\ taken'[1] = a /\ Len(taken') \in Nat /\ Len(taken') - 1 <= Len(taken)
        /\ \A j \in 1 .. Len(taken') - 1 : taken'[j + 1] = taken[j]
    BY TakenShifts DEF PipelineInv
  <2>2. CASE i = 0
    <3>1. tab'[0] = Feed(a) /\ taken'[0 + 1] = a
      BY <1>2, <2>1 DEF RankInput
    <3> QED BY <1>1, <2>2, <3>1, FeedHolds
  <2>3. CASE i # 0
    <3> DEFINE j == i - 1
    <3>1. j \in 0 .. nb_bits - 1 /\ j \in 0 .. nb_bits /\ i = j + 1 /\ Len(taken) \in Nat
      BY <1>1, <2>3, LenProperties
    <3>2. j < Len(taken) /\ taken'[i + 1] = taken[j + 1] /\ j + 1 \in 1 .. Len(taken)
      <4>1. i \in 1 .. Len(taken') - 1
        BY <1>5, <2>1, <2>3
      <4>2. taken'[i + 1] = taken[i]
        BY <2>1, <4>1
      <4> HIDE DEF j
      <4> QED BY <2>1, <3>1, <4>1, <4>2
    <3>3. HoldDigits(tab[j], taken[j + 1], j) /\ taken[j + 1] \in Bits(W) /\ tab[j] \in Buses
      <4>1. taken[j + 1] \in StreamOperands
        BY <1>1, <3>2, ElementOfSeq
      <4> QED BY <1>1, <3>1, <3>2, <4>1 DEF PipelineInv, RanksHoldDigits
    <3>4. tab'[i] = Transform(tab[j])
      BY <1>2, <2>3 DEF RankInput
    <3> HIDE DEF j
    <3> QED BY <3>1, <3>2, <3>3, <3>4, TransformHolds
  <2> QED BY <2>2, <2>3
<1> QED BY <1>4, <1>5 DEF PipelineInv, RanksHoldDigits

\* Operands follow each other through the ranks without disturbing each
\* other, and from the edge that fills the pipeline on every edge shows the
\* root of the operand taken nb_bits edges before.
THEOREM StreamIsCorrect == PipelineSpec => []StreamCorrect
<1>1. PipelineInit => PipelineInv
  <2> SUFFICES ASSUME PipelineInit PROVE PipelineInv
    OBVIOUS
  <2>1. taken = << >> /\ taken \in Seq(StreamOperands) /\ Len(taken) = 0
    BY EmptySeq DEF PipelineInit
  <2> QED BY <2>1, UndrivenTyped
          DEF PipelineInit, PipelineInv, PipelineTypeOK, RanksHoldDigits, Depth
<1>2. PipelineInv /\ [PipelineNext]_pipelineVars => PipelineInv'
  <2>1. ASSUME PipelineInv, UNCHANGED pipelineVars PROVE PipelineInv'
    BY <2>1 DEF pipelineVars, PipelineInv, PipelineTypeOK, RanksHoldDigits
  <2> QED BY <2>1, ClockKeeps DEF PipelineNext
<1>3. PipelineInv => StreamCorrect
  <2> SUFFICES ASSUME PipelineInv, Len(taken) = Depth
               PROVE  IsRoot(CascadeResultat, taken[Depth])
    BY DEF PipelineInv, StreamCorrect, RootsStream
  <2>1. nb_bits \in 0 .. nb_bits /\ nb_bits < Len(taken) /\ nb_bits + 1 = Depth
        /\ Depth \in 1 .. Len(taken)
    BY DEF Depth
  <2>2. taken[Depth] \in Bits(W)
    BY <2>1, StreamAssumption, ElementOfSeq DEF PipelineInv, PipelineTypeOK
  <2>3. tab[nb_bits] \in Buses /\ HoldDigits(tab[nb_bits], taken[Depth], nb_bits)
    BY <2>1 DEF PipelineInv, PipelineTypeOK, RanksHoldDigits
  <2> QED BY <2>2, <2>3, LastHolds DEF CascadeResultat
<1> QED BY <1>1, <1>2, <1>3, PTL DEF PipelineSpec

-----------------------------------------------------------------------------
(* OR gates *)

\* A quotient is determined by any representation x = r + q * d.
LEMMA DivUnique ==
  ASSUME NEW d \in Nat \ {0}, NEW r \in Nat, r < d, NEW q \in Int, NEW x \in Int,
         x = MulAdd(r, q, d)
  PROVE  x \div d = q
<1> DEFINE p == x \div d
<1>1. p \in Int /\ x = p * d + (x % d)
  OBVIOUS
<1>2. x % d = r
  BY ModUnique
<1> HIDE DEF p
<1>3. p * d = q * d
  BY <1>1, <1>2 DEF MulAdd
<1>4. (p - q) * d = 0
  BY <1>1, <1>3
<1>5. p = q
  <2>1. ASSUME p - q >= 1 PROVE FALSE
    BY <1>1, <1>4, <2>1
  <2>2. ASSUME p - q <= -1 PROVE FALSE
    BY <1>1, <1>4, <2>2
  <2> QED BY <1>1, <2>1, <2>2
<1> QED BY <1>5 DEF p

\* What is added above a bit does not change it, ...
LEMMA BitBelow ==
  ASSUME NEW i \in Nat, NEW q \in Nat, NEW y \in Nat, NEW x \in Nat,
         x = MulAdd(y, 2 * q, pow2[i])
  PROVE  Bit(x, i) = Bit(y, i)
<1> DEFINE d == pow2[i]
           z == y \div d
           r == y % d
<1>1. d \in Nat \ {0}
  BY Pow2Pos
<1>2. z \in Nat /\ r \in Nat /\ r < d /\ y = z * d + r
  <2> HIDE DEF d
  <2> QED BY <1>1
<1> HIDE DEF z, r
<1>3. x \div d = z + 2 * q
  <2>1. x = MulAdd(r, z + 2 * q, d)
    BY <1>1, <1>2 DEF MulAdd
  <2>2. z + 2 * q \in Int
    BY <1>2
  <2> HIDE DEF d
  <2> QED BY <1>1, <1>2, <2>1, <2>2, DivUnique
<1>4. (z + 2 * q) % 2 = z % 2
  BY <1>2
<1> QED BY <1>3, <1>4 DEF Bit, z

\* ... and neither does what is added below it.
LEMMA BitAbove ==
  ASSUME NEW k \in Nat, NEW i \in Nat, k <= i, NEW m \in Nat, NEW y \in Nat, y < pow2[k]
  PROVE  Bit(MulAdd(y, m, pow2[k]), i) = (m \div pow2[i - k]) % 2
<1> DEFINE K == pow2[k]
           J == pow2[i - k]
           q == m \div J
           s == m % J
           x == MulAdd(y, m, K)
<1>1. K \in Nat /\ K >= 1 /\ J \in Nat /\ J >= 1 /\ pow2[i] = K * J
  <2>1. i - k \in Nat /\ i = k + (i - k)
    OBVIOUS
  <2> QED BY <2>1, Pow2Pos, Pow2Add
<1>2. q \in Nat /\ s \in Nat /\ s + 1 <= J /\ m = q * J + s
  BY <1>1
<1>3. y < K
  OBVIOUS
<1> HIDE DEF K, J, q, s
<1>4. s * K + y \in Nat /\ s * K + y < K * J
  <2>1. (s + 1) * K <= J * K
    BY <1>1, <1>2
  <2>2. (s + 1) * K = s * K + K /\ J * K = K * J /\ s * K \in Nat
    BY <1>1, <1>2
  <2> QED BY <1>1, <1>3, <2>1, <2>2
<1>5. x = MulAdd(s * K + y, q, K * J)
  <2>1. m * K = q * (K * J) + s * K
    BY <1>1, <1>2
  <2> QED BY <2>1, <1>1, <1>2 DEF MulAdd
<1>6. K * J \in Nat \ {0} /\ x \in Int
  BY <1>1 DEF MulAdd
<1>7. x \div (K * J) = q
  <2> DEFINE D == K * J
             r == s * K + y
  <2> HIDE DEF D, r, x
  <2> QED BY <1>2, <1>4, <1>5, <1>6, DivUnique DEF D, r
<1> QED BY <1>1, <1>7 DEF Bit, x, K, q, J

\* The bits of m * 2**k + y are those of y below k and those of m from there.
LEMMA BitsApart ==
  ASSUME NEW k \in Nat, NEW i \in Nat, NEW m \in Nat, NEW y \in Nat, y < pow2[k]
  PROVE  Bit(MulAdd(y, m, pow2[k]), i) =
           IF i < k THEN Bit(y, i) ELSE (m \div pow2[i - k]) % 2
<1>1. CASE i < k
  <2> DEFINE j == (k - i) - 1
             q == m * pow2[j]
  <2>1. j \in Nat /\ k = (j + 1) + i
    BY <1>1
  <2>2. pow2[k] = pow2[j + 1] * pow2[i] /\ pow2[j + 1] = 2 * pow2[j]
        /\ pow2[j] \in Nat /\ pow2[i] \in Nat
    <3>1. j + 1 \in Nat
      BY <2>1
    <3> HIDE DEF j
    <3> QED BY <2>1, <3>1, Pow2Add, Pow2Succ, Pow2Pos
  <2> HIDE DEF j
  <2>3. q \in Nat /\ MulAdd(y, m, pow2[k]) = MulAdd(y, 2 * q, pow2[i])
    <3>1. m * (2 * pow2[j] * pow2[i]) = 2 * (m * pow2[j]) * pow2[i]
      BY <2>2
    <3> QED BY <2>2, <3>1 DEF MulAdd
  <2>4. MulAdd(y, m, pow2[k]) \in Nat
    BY Pow2Pos DEF MulAdd
  <2> HIDE DEF q
  <2> QED BY <1>1, <2>3, <2>4, BitBelow
<1>2. CASE ~(i < k)
  BY <1>2, BitAbove
<1> QED BY <1>1, <1>2

\* A vector is determined by its bits.
Agree(a, b, w) == \A i \in 0 .. w - 1 : Bit(a, i) = 1 <=> Bit(b, i) = 1

LEMMA SameBits ==
  \A w \in Nat : \A a, b \in Bits(w) : Agree(a, b, w) => a = b
<1> DEFINE S == {w \in Nat : \A a, b \in Bits(w) : Agree(a, b, w) => a = b}
<1>1. 0 \in S
  BY Pow2Zero DEF Bits
<1>2. ASSUME NEW w \in Nat, w \in S PROVE w + 1 \in S
  <2> SUFFICES ASSUME NEW a \in Bits(w + 1), NEW b \in Bits(w + 1), Agree(a, b, w + 1)
               PROVE  a = b
    OBVIOUS
  <2> DEFINE K == pow2[w]
  <2>1. K \in Nat \ {0} /\ pow2[w + 1] = 2 * K
    BY Pow2Pos, Pow2Succ
  <2>2. ASSUME NEW c \in Bits(w + 1)
        PROVE  \E m \in {0, 1}, y \in Bits(w) :
                 /\ c = MulAdd(y, m, K)
                 /\ m = 1 <=> Bit(c, w) = 1
                 /\ \A i \in 0 .. w - 1 : Bit(c, i) = Bit(y, i)
    <3> DEFINE m == c \div K
               y == c % K
    <3>1. c \in Nat /\ c < 2 * K
      BY <2>1 DEF Bits
    <3>2. m \in {0, 1} /\ y \in Nat /\ y < K /\ c = MulAdd(y, m, K)
      <4>1. m \in Nat /\ y \in Nat /\ y < K /\ c = m * K + y
        <5> HIDE DEF K
        <5> QED BY <2>1, <3>1
      <4> HIDE DEF m, y, K
      <4>2. ASSUME m >= 2 PROVE FALSE
        <5>1. m * K >= 2 * K
          BY <2>1, <4>1, <4>2
        <5> QED BY <2>1, <3>1, <4>1, <5>1
      <4> QED BY <2>1, <4>1, <4>2 DEF MulAdd
    <3> HIDE DEF m, y
    <3>3. \A i \in 0 .. w - 1 : Bit(c, i) = Bit(y, i)
      BY <3>2, BitsApart
    <3>4. Bit(c, w) = m
      <4>1. m \in Nat /\ w \in Nat /\ y < pow2[w] /\ w - w = 0
        BY <3>2
      <4>2. Bit(c, w) = (m \div pow2[w - w]) % 2
        BY <3>2, <4>1, BitsApart
      <4> QED BY <3>2, <4>1, <4>2, Pow2Zero
    <3>5. y \in Bits(w)
      BY <2>1, <3>2 DEF Bits
    <3> QED BY <3>2, <3>3, <3>4, <3>5
  <2>3. PICK m \in {0, 1}, y \in Bits(w) :
          /\ a = MulAdd(y, m, K) /\ (m = 1 <=> Bit(a, w) = 1)
          /\ \A i \in 0 .. w - 1 : Bit(a, i) = Bit(y, i)
    BY <2>2
  <2>4. PICK u \in {0, 1}, z \in Bits(w) :
          /\ b = MulAdd(z, u, K) /\ (u = 1 <=> Bit(b, w) = 1)
          /\ \A i \in 0 .. w - 1 : Bit(b, i) = Bit(z, i)
    BY <2>2
  <2>5. m = u
    BY <2>3, <2>4 DEF Agree
  <2>6. Agree(y, z, w)
    BY <2>3, <2>4 DEF Agree
  <2>7. y = z
    BY <1>2, <2>6
  <2> QED BY <2>3, <2>4, <2>5, <2>7
<1>3. Nat \subseteq S
  <2> HIDE DEF S
  <2> QED BY <1>1, <1>2, SetInduction
<1> QED BY <1>3

\* Where no bit is set in both, the gates add.
LEMMA OrAdds ==
  ASSUME NEW w \in Nat, NEW k \in Nat, NEW m \in Nat, NEW y \in Nat, y < pow2[k],
         NEW x \in Nat, x = MulAdd(y, m, pow2[k]), x < pow2[w]
  PROVE  OrOp(m * pow2[k], y, w) = x
<1> DEFINE a == m * pow2[k]
           Is(s) == \A i \in 0 .. w - 1 : Bit(s, i) = 1 <=> (Bit(a, i) = 1 \/ Bit(y, i) = 1)
<1>1. ASSUME NEW i \in Nat
      PROVE  Bit(x, i) = 1 <=> (Bit(a, i) = 1 \/ Bit(y, i) = 1)
  <2>1. Bit(x, i) = IF i < k THEN Bit(y, i) ELSE (m \div pow2[i - k]) % 2
    BY BitsApart
  <2>2. a = MulAdd(0, m, pow2[k]) /\ 0 < pow2[k]
    BY Pow2Pos DEF MulAdd
  <2>3. Bit(a, i) = IF i < k THEN Bit(0, i) ELSE (m \div pow2[i - k]) % 2
    <3> HIDE DEF a
    <3> QED BY <2>2, BitsApart
  <2>4. y = MulAdd(y, 0, pow2[k])
    BY Pow2Pos DEF MulAdd
  <2>5. Bit(y, i) = IF i < k THEN Bit(y, i) ELSE (0 \div pow2[i - k]) % 2
    BY <2>4, BitsApart
  <2>6. Bit(0, i) = 0 /\ (i >= k => (0 \div pow2[i - k]) % 2 = 0)
    <3>1. ASSUME NEW j \in Nat PROVE (0 \div pow2[j]) % 2 = 0
      <4>1. pow2[j] \in Nat \ {0} /\ 0 = MulAdd(0, 0, pow2[j])
        BY Pow2Pos DEF MulAdd
      <4>2. 0 \div pow2[j] = 0
        BY <4>1, DivUnique
      <4> QED BY <4>2
    <3> QED BY <3>1 DEF Bit
  <2> HIDE DEF a
  <2> QED BY <2>1, <2>3, <2>5, <2>6
<1>2. x \in Bits(w) /\ Is(x)
  BY <1>1, Pow2Pos DEF Bits
<1>3. ASSUME NEW s \in Bits(w), Is(s) PROVE s = x
  <2>1. Agree(s, x, w)
    BY <1>2, <1>3 DEF Agree
  <2> QED BY <1>2, <2>1, SameBits
<1>4. OrOp(a, y, w) = CHOOSE s \in Bits(w) : Is(s)
  BY DEF OrOp
<1> HIDE DEF Is, a
<1>5. (CHOOSE s \in Bits(w) : Is(s)) = x
  BY <1>2, <1>3
<1> QED BY <1>4, <1>5 DEF a

-----------------------------------------------------------------------------
(* archi7: the inductive invariant *)

\* The weight of the first digit.
FirstV == pow2[nb_bits - 2] * pow2[nb_bits]

\* How the k digits m, chosen with the remainder rest left, already miss the
\* root. The first weight is the square of half the range: the comparator sets
\* the first digit if the operand is below it, when the root's is 0, and clears
\* it if it is above, when the root's is 1. Of the operand between only the first
\* digit is right, but it leaves no remainder, so that the second is set.
Wrong(m, k, rest) ==
  \/ k = 0 /\ rest = operand
  \/ k >= 1 /\ operand > FirstV /\ 2 * m < pow2[k]
  \/ k >= 1 /\ operand < FirstV /\ 2 * m >= pow2[k]
  \/ k = 1 /\ operand = FirstV /\ m = 1 /\ rest = 0
  \/ k >= 2 /\ operand = FirstV /\ 4 * m >= 3 * pow2[k]

Prepared7 == regV = FirstV /\ regZ = 0 /\ counter = nb_bits - 1

\* With the count c there are c + 1 digits to come, and Z holds the others.
AtDigit7(c, m) ==
  /\ c = counter /\ c < nb_bits /\ m \in Bits(nb_bits - 1 - c)
  /\ regV = pow2[2 * c] /\ regZ = m * pow2[2 * c + 2]
  /\ Wrong(m, nb_bits - 1 - c, regA)

Inv7 ==
  /\ TypeOK7
  /\ state7 = "IDLE" => Prepared7
  /\ state7 = "COMPUTE" => \E c, m \in Nat : AtDigit7(c, m)
  /\ state7 = "DONE" => /\ regV = 0 /\ counter = pow2[nb_bits] - 1
                        /\ regZ \in Bits(nb_bits) /\ Wrong(regZ, nb_bits, regA)

\* The weight and its multiples that the gates see; the digits leave them room.
LEMMA DigitRoom ==
  ASSUME NEW c \in Nat, c < nb_bits, NEW m \in Bits(nb_bits - 1 - c)
  PROVE  /\ pow2[2 * c] \in Nat /\ pow2[2 * c] >= 1
         /\ pow2[2 * c + 1] = 2 * pow2[2 * c] /\ pow2[2 * c + 2] = 4 * pow2[2 * c]
         /\ m * (4 * pow2[2 * c]) + 4 * pow2[2 * c] <= pow2[W]
<1> DEFINE n == 2 * c
           V == pow2[n]
           k == nb_bits - 1 - c
           K == pow2[k]
<1>1. n \in Nat /\ V \in Nat /\ V >= 1 /\ pow2[n + 1] = 2 * V /\ pow2[(n + 1) + 1] = 4 * V
  <2>1. n \in Nat
    OBVIOUS
  <2> HIDE DEF n
  <2>2. pow2[n + 1] = 2 * V /\ pow2[(n + 1) + 1] = 2 * pow2[n + 1]
    BY <2>1, Pow2Succ
  <2> QED BY <2>1, <2>2, Pow2Pos
<1>2. (n + 1) + 1 = n + 2
  OBVIOUS
<1>3. k \in 0 .. nb_bits /\ 2 * (nb_bits - k) = n + 2
  OBVIOUS
<1>4. pow2[W] = pow2[n + 2] * K * K /\ K \in Nat /\ K >= 1
  <2>1. pow2[W] = pow2[2 * (nb_bits - k)] * pow2[k] * pow2[k]
    <3> HIDE DEF k, n
    <3> QED BY <1>3, WeightBound
  <2> QED BY <1>3, <2>1, Pow2Pos
<1>5. m \in Nat /\ m + 1 <= K
  BY <1>4 DEF Bits
<1>6. m * (4 * V) + 4 * V <= pow2[W]
  <2>1. pow2[W] = (4 * V) * K * K
    BY <1>1, <1>2, <1>4
  <2> HIDE DEF V, K, W
  <2>2. (m + 1) * (4 * V) <= K * (4 * V)
    BY <1>1, <1>4, <1>5
  <2>3. K * (4 * V) <= (4 * V) * K * K
    BY <1>1, <1>4
  <2>4. (m + 1) * (4 * V) = m * (4 * V) + 4 * V
    BY <1>1, <1>5
  <2>5. (m + 1) * (4 * V) \in Nat /\ K * (4 * V) \in Nat /\ (4 * V) * K * K \in Nat
    BY <1>1, <1>4, <1>5
  <2> QED BY <2>1, <2>2, <2>3, <2>4, <2>5
<1> QED BY <1>1, <1>2, <1>6

\* At every digit edge the gates add.
LEMMA GatesAdd ==
  ASSUME NEW c \in Nat, NEW m \in Nat, AtDigit7(c, m)
  PROVE  /\ regV \in Nat /\ regV >= 1 /\ regZ = m * (4 * regV) /\ regZ \in Nat
         /\ OrOp(regZ, regV, W) = regZ + regV
         /\ OrOp(regZ, 2 * regV, W) = regZ + 2 * regV
         /\ OrOp(regZ, 0, W) = regZ
         /\ Low(2 * regV, W) = 2 * regV
<1>1. /\ regV \in Nat /\ regV >= 1 /\ pow2[2 * c + 2] = 4 * regV
      /\ m * (4 * regV) + 4 * regV <= pow2[W] /\ regZ = m * (4 * regV)
  <2>1. c < nb_bits /\ m \in Bits(nb_bits - 1 - c) /\ regV = pow2[2 * c]
    BY DEF AtDigit7
  <2> QED BY <2>1, DigitRoom DEF AtDigit7
<1>2. regZ \in Nat /\ regZ + 2 * regV < pow2[W] /\ 2 * regV < pow2[W] /\ W \in Nat
  <2>1. m * (4 * regV) \in Nat
    BY <1>1
  <2>2. pow2[W] \in Nat
    BY WidthsFit
  <2> QED BY <1>1, <2>1, <2>2
<1>3. ASSUME NEW y \in {0, regV, 2 * regV}
      PROVE  OrOp(regZ, y, W) = regZ + y
  <2> DEFINE k == 2 * c + 2
             x == regZ + y
  <2>1. k \in Nat /\ y \in Nat /\ y < pow2[k] /\ x \in Nat /\ x < pow2[W]
        /\ regZ = m * pow2[k]
    <3>1. pow2[W] \in Nat
      BY WidthsFit
    <3> QED BY <1>1, <1>2, <3>1
  <2>2. x = MulAdd(y, m, pow2[k])
    <3> HIDE DEF k
    <3> QED BY <1>2, <2>1 DEF MulAdd
  <2> HIDE DEF k, x, W
  <2>3. OrOp(m * pow2[k], y, W) = x
    BY <1>2, <2>1, <2>2, OrAdds
  <2> QED BY <2>1, <2>3 DEF x
<1>4. Low(2 * regV, W) = 2 * regV
  <2> HIDE DEF W
  <2> QED BY <1>1, <1>2, LowFits
<1>5. OrOp(regZ, 0, W) = regZ + 0 /\ OrOp(regZ, regV, W) = regZ + regV
      /\ OrOp(regZ, 2 * regV, W) = regZ + 2 * regV
  BY <1>3
<1> QED BY <1>1, <1>2, <1>4, <1>5

\* What has missed the root by a digit goes on missing it.
LEMMA WrongStays ==
  ASSUME NEW k \in Nat, NEW m \in Bits(k), NEW d \in {0, 1}, NEW rest, NEW left,
         operand \in Nat, Wrong(m, k, rest),
         k = 0 => (d = 0 <=> FirstV < rest) /\ (rest = FirstV => left = 0),
         m = 1 /\ rest = 0 => d = 1
  PROVE  Wrong(2 * m + d, k + 1, left)
<1> DEFINE K == pow2[k]
<1>1. K \in Nat /\ K >= 1 /\ pow2[k + 1] = 2 * K /\ m \in Nat /\ m < K
  BY Pow2Pos, Pow2Succ DEF Bits
<1>2. FirstV \in Nat
  BY FirstWeight DEF FirstV, Bits
<1>3. k >= 1 => \E g \in Nat : K = 2 * g
  <2>1. ASSUME k >= 1 PROVE \E g \in Nat : K = 2 * g
    <3> DEFINE j == k - 1
    <3>1. j \in Nat /\ k = j + 1
      BY <2>1
    <3> HIDE DEF j
    <3>2. K = 2 * pow2[j] /\ pow2[j] \in Nat
      BY <3>1, Pow2Succ, Pow2Pos
    <3> QED BY <3>2
  <2> QED BY <2>1
<1>4. k = 0 => K = 1
  BY Pow2Zero
<1>5. k = 1 => K = 2
  <2>1. pow2[0 + 1] = 2 * pow2[0]
    BY Pow2Succ
  <2> QED BY <2>1, Pow2Zero
<1> HIDE DEF K
<1>6. CASE k = 0 /\ rest = operand
  <2>1. m = 0
    BY <1>1, <1>4, <1>6
  <2>2. operand < FirstV \/ operand = FirstV \/ operand > FirstV
    BY <1>2
  <2> QED BY <1>1, <1>2, <1>4, <1>6, <2>1, <2>2 DEF Wrong
<1>7. CASE k >= 1 /\ operand > FirstV /\ 2 * m < K
  <2>1. PICK g \in Nat : K = 2 * g
    BY <1>3, <1>7
  <2>2. 2 * (2 * m + d) < 2 * K
    BY <1>1, <1>7, <2>1
  <2> QED BY <1>1, <1>7, <2>2 DEF Wrong
<1>8. CASE k >= 1 /\ operand < FirstV /\ 2 * m >= K
  <2>1. 2 * (2 * m + d) >= 2 * K
    BY <1>1, <1>8
  <2> QED BY <1>1, <1>8, <2>1 DEF Wrong
<1>9. CASE k = 1 /\ operand = FirstV /\ m = 1 /\ rest = 0
  <2>1. 4 * (2 * m + d) >= 3 * (2 * K)
    BY <1>5, <1>9
  <2> QED BY <1>1, <1>9, <2>1 DEF Wrong
<1>10. CASE k >= 2 /\ operand = FirstV /\ 4 * m >= 3 * K
  <2>1. 4 * (2 * m + d) >= 3 * (2 * K)
    BY <1>1, <1>10
  <2> QED BY <1>1, <1>10, <2>1 DEF Wrong
<1> QED BY <1>6, <1>7, <1>8, <1>9, <1>10 DEF Wrong, K

LEMMA InitInv7 == Init7 => Inv7
<1> SUFFICES ASSUME Init7 PROVE Inv7
  OBVIOUS
<1>1. counter = nb_bits - 1 /\ counter \in Bits(nb_bits)
  <2>1. counter = nb_bits - 1
    BY DEF Init7, CountInit
  <2> QED BY <2>1, BelowPow2, Pow2Pos DEF Bits
<1>2. FirstV \in Bits(W) /\ 0 \in Bits(W)
  <2>1. FirstV \in Bits(W)
    BY FirstWeight DEF FirstV
  <2>2. pow2[W] \in Nat /\ pow2[W] >= 1
    BY Pow2Pos
  <2> QED BY <2>1, <2>2 DEF Bits
<1>3. TypeOK7
  BY <1>1, <1>2, OperandsAssumption DEF Init7, TypeOK7, TState, FirstV
<1> QED BY <1>1, <1>3 DEF Init7, Inv7, Prepared7, FirstV

\* The asynchronous initialisation starts afresh.
LEMMA Initialised7 ==
  ASSUME Inv7, state7' = "IDLE", Initialise7
  PROVE  Inv7'
<1>1. counter' = nb_bits - 1 /\ counter' \in Bits(nb_bits)
  <2>1. counter' = nb_bits - 1
    BY DEF Initialise7, CountInit
  <2> QED BY <2>1, BelowPow2, Pow2Pos DEF Bits
<1>2. FirstV \in Bits(W) /\ 0 \in Bits(W)
  <2>1. FirstV \in Bits(W)
    BY FirstWeight DEF FirstV
  <2>2. pow2[W] \in Nat /\ pow2[W] >= 1
    BY Pow2Pos
  <2> QED BY <2>1, <2>2 DEF Bits
<1>3. TypeOK7'
  BY <1>1, <1>2, OperandsAssumption DEF Initialise7, Inv7, TypeOK7, TState, FirstV
<1> QED BY <1>1, <1>3 DEF Initialise7, Inv7, Prepared7, FirstV

\* The starting edge: all digits are to come.
LEMMA Starts7 ==
  ASSUME Inv7, Start7
  PROVE  Inv7'
<1>1. /\ TypeOK7 /\ regV = FirstV /\ regZ = 0 /\ counter = nb_bits - 1
      /\ UNCHANGED <<regA, regV, regZ, counter>> /\ operand' = regA /\ state7' = "COMPUTE"
  BY DEF Inv7, Start7, Prepared7, regs7
<1>2. TypeOK7'
  BY <1>1 DEF TypeOK7, TState
<1> DEFINE c == nb_bits - 1
<1>3. /\ c \in Nat /\ c < nb_bits /\ nb_bits - 1 - c = 0 /\ c = counter'
      /\ 0 \in Nat /\ 0 \in Bits(nb_bits - 1 - c)
  BY <1>1, Pow2Zero DEF Bits
<1>4. FirstV = pow2[2 * c]
  <2>1. nb_bits - 2 \in Nat /\ nb_bits \in Nat /\ (nb_bits - 2) + nb_bits = 2 * c
    OBVIOUS
  <2> HIDE DEF c
  <2>2. pow2[(nb_bits - 2) + nb_bits] = pow2[nb_bits - 2] * pow2[nb_bits]
    BY <2>1, Pow2Add
  <2> QED BY <2>1, <2>2 DEF FirstV
<1>5. 0 = 0 * pow2[2 * c + 2]
  <2>1. pow2[2 * c + 2] \in Nat
    BY <1>3, Pow2Pos
  <2> QED BY <2>1
<1>6. Wrong(0, nb_bits - 1 - c, regA)'
  BY <1>1, <1>3 DEF Wrong
<1>7. AtDigit7(c, 0)'
  <2> HIDE DEF c
  <2> QED BY <1>1, <1>3, <1>4, <1>5, <1>6 DEF AtDigit7
<1>8. \E e, m \in Nat : AtDigit7(e, m)'
  <2> HIDE DEF c
  <2> QED BY <1>3, <1>7
<1> QED BY <1>1, <1>2, <1>8 DEF Inv7

\* The down counter, at its end and before.
LEMMA CountsDown ==
  ASSUME NEW c \in Nat, c < nb_bits
  PROVE  CountDown(c) = IF c = 0 THEN pow2[nb_bits] - 1 ELSE c - 1
<1> DEFINE M == pow2[nb_bits]
<1>1. M \in Nat /\ M >= 4 /\ c < M
  <2>1. nb_bits < M
    BY BelowPow2
  <2> QED BY <2>1, WidthsFit
<1>2. CASE c = 0
  <2>1. c - 1 = MulAdd(M - 1, -1, M)
    BY <1>1, <1>2 DEF MulAdd
  <2>2. M - 1 \in Nat /\ M - 1 < M /\ c - 1 \in Int /\ -1 \in Int
    BY <1>1
  <2> HIDE DEF M
  <2>3. (c - 1) % M = M - 1
    BY <1>1, <2>1, <2>2, ModUnique
  <2> QED BY <1>2, <2>3 DEF CountDown, Low, M
<1>3. CASE c # 0
  <2>1. 0 <= c - 1 /\ c - 1 < pow2[nb_bits] /\ c - 1 \in Int
    BY <1>1, <1>3
  <2> QED BY <1>3, <2>1, LowFits DEF CountDown
<1> QED BY <1>2, <1>3

\* One digit edge: the weight is quartered, the digits move down by one and
\* get the next.
LEMMA DigitEdge ==
  ASSUME Inv7, Compute7, NEW c \in Nat, NEW m \in Nat, AtDigit7(c, m)
  PROVE  \E d \in {0, 1} :
           /\ Wrong(2 * m + d, nb_bits - c, regA')
           /\ 2 * m + d \in Bits(nb_bits - c)
           /\ regZ' = (2 * m + d) * regV
           /\ regA' \in Bits(W)
<1> DEFINE k == nb_bits - 1 - c
           d == IF CompInf THEN 0 ELSE 1
<1>1. /\ TypeOK7 /\ c < nb_bits /\ m \in Bits(k) /\ k \in Nat /\ k + 1 = nb_bits - c
      /\ Wrong(m, k, regA) /\ d \in {0, 1} /\ regV = pow2[2 * c]
  BY DEF Inv7, AtDigit7
<1>2. /\ regV \in Nat /\ regV >= 1 /\ regZ = m * (4 * regV) /\ regZ \in Nat
      /\ OrA = regZ + regV
      /\ regA \in Nat /\ operand \in Nat
  BY <1>1, GatesAdd DEF OrA, TypeOK7, Bits
<1>3. regZ' = (2 * m + d) * regV
  <2>1. regZ' = (regZ + d * (2 * regV)) \div 2
    <3>1. CASE CompInf
      <4>1. regZ' = OrOp(regZ, 0, W) \div 2
        BY <3>1 DEF Compute7, RegZ_E, Mux2
      <4> QED BY <1>2, <3>1, <4>1, GatesAdd
    <3>2. CASE ~CompInf
      <4>1. regZ' = OrOp(regZ, 2 * regV, W) \div 2
        BY <3>2, GatesAdd DEF Compute7, RegZ_E, Mux2
      <4>2. OrOp(regZ, 2 * regV, W) = regZ + 2 * regV
        BY GatesAdd
      <4>3. d = 1 /\ d * (2 * regV) = 2 * regV
        BY <1>2, <3>2
      <4> QED BY <4>1, <4>2, <4>3
    <3> QED BY <3>1, <3>2
  <2> HIDE DEF d
  <2> DEFINE h == (2 * m + d) * regV
  <2>2. h \in Nat /\ regZ + d * (2 * regV) = 2 * h
    <3>1. m * (4 * regV) = 2 * ((2 * m) * regV) /\ d * (2 * regV) = 2 * (d * regV)
      BY <1>1, <1>2
    <3>2. (2 * m + d) * regV = (2 * m) * regV + d * regV
      BY <1>1, <1>2
    <3>3. (2 * m) * regV \in Nat /\ d * regV \in Nat
      BY <1>1, <1>2
    <3> QED BY <1>2, <3>1, <3>2, <3>3
  <2> HIDE DEF h
  <2>3. (2 * h) \div 2 = h
    BY <2>2
  <2> QED BY <2>1, <2>2, <2>3 DEF h
<1>4. regA' = IF CompInf THEN regA ELSE Low(regA - OrA, W)
  BY DEF Compute7, RegA_E, Mux2, AddSub
<1>5. regA' \in Bits(W)
  <2>1. regA - OrA \in Int
    BY <1>2
  <2>2. Low(regA - OrA, W) \in Bits(W)
    BY <2>1, LowRange
  <2> QED BY <1>1, <1>4, <2>2 DEF TypeOK7
<1>6. 2 * m + d \in Bits(k + 1)
  <2>1. pow2[k + 1] = 2 * pow2[k] /\ pow2[k] \in Nat
    BY <1>1, Pow2Succ, Pow2Pos
  <2> HIDE DEF d, k
  <2> QED BY <1>1, <2>1 DEF Bits
<1>7. k = 0 => (d = 0 <=> FirstV < regA) /\ (regA = FirstV => regA' = 0)
  <2> SUFFICES ASSUME k = 0 PROVE (d = 0 <=> FirstV < regA) /\ (regA = FirstV => regA' = 0)
    OBVIOUS
  <2>1. m = 0
    BY <1>1, Pow2Zero DEF Bits
  <2>2. regV = FirstV
    <3>1. nb_bits - 2 \in Nat /\ nb_bits \in Nat /\ (nb_bits - 2) + nb_bits = 2 * c
      OBVIOUS
    <3>2. pow2[(nb_bits - 2) + nb_bits] = pow2[nb_bits - 2] * pow2[nb_bits]
      BY <3>1, Pow2Add
    <3> QED BY <1>1, <3>1, <3>2 DEF FirstV
  <2>3. OrA = FirstV
    BY <1>2, <2>1, <2>2
  <2>4. CompInf <=> FirstV < regA
    BY <2>3 DEF CompInf
  <2>5. Low(0, W) = 0
    BY WidthsFit, LowFits
  <2>6. regA = FirstV => regA - OrA = 0 /\ ~(FirstV < regA)
    BY <1>2, <2>3
  <2> QED BY <1>4, <2>4, <2>5, <2>6
<1>8. m = 1 /\ regA = 0 => d = 1
  BY <1>2 DEF CompInf
<1>9. Wrong(2 * m + d, k + 1, regA')
  <2> HIDE DEF d, k
  <2> QED BY <1>1, <1>2, <1>7, <1>8, WrongStays
<1> HIDE DEF d
<1> QED BY <1>1, <1>3, <1>5, <1>6, <1>9

LEMMA Computes7 ==
  ASSUME Inv7, Compute7
  PROVE  Inv7'
<1>1. PICK c \in Nat, m \in Nat : AtDigit7(c, m)
  BY DEF Inv7, Compute7
<1>2. PICK d \in {0, 1} :
        /\ Wrong(2 * m + d, nb_bits - c, regA') /\ 2 * m + d \in Bits(nb_bits - c)
        /\ regZ' = (2 * m + d) * regV /\ regA' \in Bits(W)
  BY <1>1, DigitEdge
<1> DEFINE j == 2 * m + d
<1>3. j \in Nat
  OBVIOUS
<1> HIDE DEF j
<1>4. /\ TypeOK7 /\ c = counter /\ c < nb_bits /\ regV = pow2[2 * c]
      /\ operand' = operand /\ regV' = regV \div 4 /\ counter' = CountDown(c)
      /\ Wrong(j, nb_bits - c, regA') /\ j \in Bits(nb_bits - c) /\ regZ' = j * regV
      /\ regA' \in Bits(W)
      /\ state7' = IF c = 0 THEN "DONE" ELSE "COMPUTE"
  BY <1>1, <1>2 DEF Inv7, AtDigit7, Compute7, CountEqZ, j
<1>6. CASE c = 0
  <2>1. regV = 1 /\ regV' = 0 /\ nb_bits - c = nb_bits /\ counter' = pow2[nb_bits] - 1
    BY <1>4, <1>6, Pow2Zero, CountsDown
  <2>2. regZ' = j
    BY <1>3, <1>4, <2>1
  <2>3. /\ counter' \in Bits(nb_bits) /\ regV' \in Bits(W) /\ regZ' \in Bits(nb_bits)
        /\ regZ' \in Bits(W)
    <3>1. /\ pow2[nb_bits] \in Nat /\ pow2[nb_bits] >= 4 /\ pow2[W] \in Nat
          /\ pow2[nb_bits] <= pow2[W]
      BY WidthsFit
    <3>2. j \in Bits(nb_bits)
      BY <1>4, <2>1
    <3> HIDE DEF W
    <3> QED BY <2>1, <2>2, <3>1, <3>2 DEF Bits
  <2>4. TypeOK7'
    BY <1>4, <1>6, <2>3 DEF TypeOK7, TState
  <2>5. Wrong(regZ, nb_bits, regA)'
    BY <1>4, <2>1, <2>2 DEF Wrong
  <2> QED BY <1>4, <1>6, <2>1, <2>3, <2>4, <2>5 DEF Inv7
<1>7. CASE c # 0
  <2> DEFINE e == c - 1
  <2>1. /\ e \in Nat /\ e < nb_bits /\ c = e + 1 /\ nb_bits - 1 - e = nb_bits - c
        /\ 2 * c = 2 * e + 2 /\ counter' = e
    BY <1>4, <1>7, CountsDown
  <2> HIDE DEF e
  <2>2. j \in Bits(nb_bits - 1 - e)
    BY <1>4, <2>1
  <2>3. /\ pow2[2 * e] \in Nat /\ pow2[2 * e] >= 1 /\ pow2[2 * e + 2] = 4 * pow2[2 * e]
        /\ j * (4 * pow2[2 * e]) + 4 * pow2[2 * e] <= pow2[W]
    BY <2>1, <2>2, DigitRoom
  <2>4. regV = 4 * pow2[2 * e] /\ regV' = pow2[2 * e] /\ regZ' = j * pow2[2 * e + 2]
    <3>1. regV = 4 * pow2[2 * e]
      BY <1>4, <2>1, <2>3
    <3>2. (4 * pow2[2 * e]) \div 4 = pow2[2 * e]
      BY <2>3
    <3> QED BY <1>4, <2>1, <2>3, <3>1, <3>2
  <2>5. regV' \in Bits(W) /\ regZ' \in Bits(W) /\ counter' \in Bits(nb_bits)
    <3> DEFINE V == pow2[2 * e]
               z == j * (4 * V)
    <3>1. V \in Nat /\ V >= 1 /\ z + 4 * V <= pow2[W] /\ regV' = V /\ regZ' = z
      BY <2>3, <2>4
    <3>2. z \in Nat
      BY <1>3, <3>1
    <3>3. pow2[W] \in Nat /\ nb_bits < pow2[nb_bits] /\ pow2[nb_bits] \in Nat
      BY WidthsFit, BelowPow2
    <3> HIDE DEF V, z, W
    <3> QED BY <2>1, <3>1, <3>2, <3>3 DEF Bits
  <2>6. TypeOK7'
    BY <1>4, <1>7, <2>5 DEF TypeOK7, TState
  <2>7. Wrong(j, nb_bits - 1 - e, regA)'
    BY <1>4, <2>1 DEF Wrong
  <2>8. AtDigit7(e, j)'
    BY <2>1, <2>2, <2>4, <2>7 DEF AtDigit7
  <2> QED BY <1>3, <1>4, <1>7, <2>1, <2>6, <2>8 DEF Inv7
<1> QED BY <1>6, <1>7

LEMMA StepInv7 == Inv7 /\ [Next7]_vars7 => Inv7'
<1> SUFFICES ASSUME Inv7, [Next7]_vars7 PROVE Inv7'
  OBVIOUS
<1>1. CASE \E a \in Operands : Track(a)
  <2>1. PICK a \in Operands : Track(a)
    BY <1>1
  <2>2. TypeOK7' /\ state7' = "IDLE"
    BY <2>1, OperandsAssumption DEF Track, Inv7, TypeOK7
  <2> QED BY <2>1, <2>2 DEF Track, Inv7, Prepared7
<1>2. CASE Start7
  BY <1>2, Starts7
<1>3. CASE Compute7
  BY <1>3, Computes7
<1>4. CASE Rewind7 \/ Reset7
  BY <1>4, Initialised7 DEF Rewind7, Reset7
<1>5. CASE Stay7 \/ UNCHANGED vars7
  <2>1. UNCHANGED <<state7, regA, regV, regZ, counter, operand>>
    BY <1>5 DEF Stay7, vars7
  <2> QED BY <2>1 DEF Inv7, TypeOK7, Prepared7, AtDigit7, Wrong
<1> QED BY <1>1, <1>2, <1>3, <1>4, <1>5 DEF Next7

\* The inductive invariant holds of archi7 for every width.
THEOREM Invariant7 == Spec7 => []Inv7
BY InitInv7, StepInv7, PTL DEF Spec7

\* The OR gates are adders, no vector loses a bit and counter and weight run
\* in step, at every width and whatever the comparator decides.
THEOREM GatesAreAdders == Spec7 => []OrIsSum
<1>1. Inv7 => OrIsSum
  <2> SUFFICES ASSUME Inv7 PROVE OrIsSum
    OBVIOUS
  <2>1. TypeOK7
    BY DEF Inv7
  <2>2. CASE state7 = "COMPUTE"
    <3>1. PICK c \in Nat, m \in Nat : AtDigit7(c, m)
      BY <2>2 DEF Inv7
    <3> QED BY <2>1, <2>2, <3>1, GatesAdd DEF OrIsSum, InStep, fini7, AtDigit7
  <2>3. CASE state7 # "COMPUTE"
    BY <2>1, <2>3 DEF Inv7, OrIsSum, InStep, fini7
  <2> QED BY <2>2, <2>3
<1> QED BY <1>1, Invariant7, PTL

\* With its comparator's ports as they are wired, archi7 shows the root of no
\* operand at any width.
THEOREM NeverTheRoot == Spec7 => []NeverRoot
<1>1. Inv7 => NeverRoot
  <2> SUFFICES ASSUME Inv7, fini7, IsRoot(Resultat7, operand) PROVE FALSE
    BY DEF NeverRoot
  <2> DEFINE g == pow2[nb_bits - 2]
             r == regZ
  <2>1. g \in Nat /\ g >= 1 /\ pow2[nb_bits] = 4 * g
    <3> DEFINE n == nb_bits - 2
    <3>1. n \in Nat /\ nb_bits = (n + 1) + 1
      OBVIOUS
    <3> HIDE DEF n
    <3>2. pow2[(n + 1) + 1] = 2 * pow2[n + 1] /\ pow2[n + 1] = 2 * pow2[n]
      BY <3>1, Pow2Succ
    <3> QED BY <3>1, <3>2, Pow2Pos DEF n
  <2>2. r \in Bits(nb_bits) /\ Wrong(r, nb_bits, regA) /\ operand \in Nat
    BY DEF Inv7, fini7, TypeOK7, Bits
  <2>3. r \in Nat /\ r < 4 * g /\ Resultat7 = r
    <3>1. r \in Nat /\ r < 4 * g
      BY <2>1, <2>2 DEF Bits
    <3> QED BY <2>1, <3>1, LowFits DEF Resultat7
  <2>4. r * r <= operand /\ operand < (r + 1) * (r + 1)
    BY <2>3 DEF IsRoot
  <2>5. FirstV = (2 * g) * (2 * g)
    <3>1. g * (4 * g) = (2 * g) * (2 * g)
      BY <2>1
    <3> QED BY <2>1, <3>1 DEF FirstV
  <2>6. \/ operand > FirstV /\ r < 2 * g
        \/ operand < FirstV /\ r >= 2 * g
        \/ operand = FirstV /\ r > 2 * g
    <3>1. \/ operand > FirstV /\ 2 * r < 4 * g
          \/ operand < FirstV /\ 2 * r >= 4 * g
          \/ operand = FirstV /\ 4 * r >= 3 * (4 * g)
      BY <2>1, <2>2 DEF Wrong
    <3> HIDE DEF g, r
    <3> QED BY <2>1, <2>3, <3>1
  <2> HIDE DEF g, r
  <2>7. CASE operand > FirstV /\ r < 2 * g
    <3>1. (r + 1) * (r + 1) <= (2 * g) * (2 * g)
      BY <2>1, <2>3, <2>7
    <3> QED BY <2>1, <2>2, <2>3, <2>4, <2>5, <2>7, <3>1
  <2>8. CASE operand < FirstV /\ r >= 2 * g
    <3>1. r * r >= (2 * g) * (2 * g)
      BY <2>1, <2>3, <2>8
    <3> QED BY <2>1, <2>2, <2>3, <2>4, <2>5, <2>8, <3>1
  <2>9. CASE operand = FirstV /\ r > 2 * g
    <3>1. r * r > (2 * g) * (2 * g)
      BY <2>1, <2>3, <2>9, SquareOrder
    <3> QED BY <2>1, <2>2, <2>3, <2>4, <2>5, <2>9, <3>1
  <2> QED BY <2>6, <2>7, <2>8, <2>9
<1> QED BY <1>1, Invariant7, PTL

\* So the swapped test is all that is wrong with archi7, and never harmless.
THEOREM SwapIsAlone == Spec7 => []SwapAlone
<1>1. OrIsSum /\ NeverRoot => SwapAlone
  BY DEF SwapAlone
<1> QED BY <1>1, GatesAreAdders, NeverTheRoot, PTL
=============================================================================
