------------------------- MODULE NonRestoring_proofs -------------------------
(***************************************************************************)
(* Proofs about Archi2 and Archi6, the two architectures that compute the  *)
(* non-restoring root, for every width, every set of operands and every    *)
(* power-up contents.  Those about the root and the service of archi6 are  *)
(* for the event driven latch and the handshake.                           *)
(***************************************************************************)
EXTENDS Archi2, Archi6, SqrtLemmas

USE WidthAssumption DEF W

-----------------------------------------------------------------------------
(* The inductive invariant *)

\* TypeOK and RootBracketed say nothing of how the latch follows the registers
\* nor of where the controller stands among the iterations; Inv adds that.
Inv == /\ TypeOK
       /\ RootBracketed
       /\ state = "COMPUTE" => s_count = s_idx /\ s_idx < nb_bits - 1
       /\ state = "DONE" => /\ s_count = nb_bits - 1 /\ s_idx = nb_bits - 1
                            /\ Resultat = Output

\* Power-up establishes the invariant: the controller is IDLE.
LEMMA InitInv == Init => Inv
<1> SUFFICES ASSUME Init PROVE Inv
  OBVIOUS
<1>1. \A p \in PowerUp : p \in Bits(W) /\ p \in Int
  BY PowerUpAssumption DEF Bits
<1>2. Resultat \in Bits(nb_bits)
  BY <1>1, LowRange DEF Init
<1>3. TypeOK
  BY <1>1, <1>2 DEF Init, TypeOK, TState
<1> QED BY <1>3 DEF Init, Inv, RootBracketed

\* An iteration halves the bracket.
LEMMA ComputeBracket ==
  ASSUME Inv, Compute
  PROVE  /\ reg_X' \in Bits(W) /\ reg_Z' \in Bits(W) /\ reg_V' \in Bits(W)
         /\ Bracket(pow2[nb_bits - 1 - s_idx])'
<1> DEFINE n == nb_bits - 1 - (s_idx + 1)
           u == pow2[n]
           H == pow2[nb_bits]
<1>1. /\ s_idx \in Nat /\ s_idx' = s_idx + 1 /\ W \in Nat
      /\ n \in Nat /\ nb_bits - 1 - s_idx = n + 1 /\ nb_bits - 1 - s_idx' = n
  BY DEF Inv, TypeOK, Compute
<1> HIDE DEF n
<1>2. u \in Nat /\ u >= 1 /\ pow2[nb_bits - 1 - s_idx] = 2 * u /\ pow2[nb_bits - 1 - s_idx'] = u
  BY <1>1, Pow2Pos, Pow2Succ
<1>3. H \in Nat /\ H >= 4 /\ pow2[W] = H * H /\ pow2[W] \in Nat
  BY WidthsFit
<1>4. reg_A \in Nat /\ reg_Z \in Nat /\ reg_A' = reg_A
  BY DEF Inv, TypeOK, Bits, Compute
<1>5. Bracket(2 * u)
  BY <1>2 DEF Inv, RootBracketed, Compute
<1> HIDE DEF u, H
<1>6. /\ reg_V = u /\ reg_X = reg_Z * reg_Z
      /\ 2 * u <= reg_Z /\ reg_Z + 2 * u <= H
      /\ (reg_Z - 2 * u) * (reg_Z - 2 * u) <= reg_A
      /\ reg_A < (reg_Z + 2 * u) * (reg_Z + 2 * u)
  <2>1. (2 * u) \div 2 = u
    BY <1>2
  <2> QED BY <1>5, <2>1 DEF Bracket, H
<1>7. /\ reg_Z * reg_Z + u * (u - 2 * reg_Z) = (reg_Z - u) * (reg_Z - u)
      /\ reg_Z * reg_Z + u * (u + 2 * reg_Z) = (reg_Z + u) * (reg_Z + u)
      /\ reg_Z - u \in Nat /\ u <= reg_Z - u /\ reg_Z + u + u <= H
      /\ ((reg_Z - u) - u) * ((reg_Z - u) - u) <= reg_A
      /\ reg_A < ((reg_Z + u) + u) * ((reg_Z + u) + u)
      /\ (reg_Z - u) * (reg_Z - u) <= reg_Z * reg_Z
      /\ reg_Z * reg_Z < (reg_Z + u) * (reg_Z + u)
  BY <1>2, <1>3, <1>4, <1>6, BracketStep
<1>8. /\ reg_V' = u \div 2 /\ reg_V' \in Bits(W)
      /\ reg_X \in Bits(W) /\ u \in Bits(W)
  <2>1. u < pow2[W] /\ u \div 2 \in Nat /\ u \div 2 <= u
    <3>1. u < H
      BY <1>2, <1>3, <1>4, <1>6
    <3> QED BY <1>2, <1>3, <3>1, SquareFits DEF H
  <2>2. reg_X \in Bits(W)
    BY DEF Inv, TypeOK
  <2> QED BY <1>2, <1>3, <1>6, <2>1, <2>2 DEF Compute, Bits
<1>9. Double = 2 * reg_Z
  <2>1. reg_Z < H
    BY <1>2, <1>3, <1>4, <1>6
  <2> QED BY <1>1, <1>4, <2>1, SquareFits, LowFits DEF Double, H
<1>10. CASE StepDown
  <2> DEFINE z == reg_Z - u
  <2>1. z \in Nat /\ z < H /\ reg_Z < H
    BY <1>2, <1>3, <1>4, <1>6, <1>7
  <2>2. z * z < pow2[W] /\ z < pow2[W] /\ z * z \in Nat
    BY <2>1, SquareFits DEF H
  <2>3. reg_X' = z * z
    <3>1. z * z = reg_X + u * (u - 2 * reg_Z) /\ u - 2 * reg_Z \in Int
      BY <1>2, <1>4, <1>6, <1>7
    <3> HIDE DEF z
    <3>2. Low(Low(reg_X + u * Low(u - 2 * reg_Z, W), 2 * W), W) = z * z
      BY <1>8, <2>2, <3>1, Multiply
    <3> QED BY <1>6, <1>9, <1>10, <3>2 DEF StepDown, reg_mult_1
  <2>4. reg_Z' = z
    <3>1. reg_Z' = Low(z, W)
      BY <1>6, <1>10 DEF StepDown
    <3> HIDE DEF z
    <3> QED BY <1>1, <2>1, <2>2, <3>1, LowFits
  <2>5. reg_A < (z + u) * (z + u) /\ (z - u) * (z - u) <= reg_A /\ u <= z /\ z + u <= H
    <3>1. z + u = reg_Z
      BY <1>2, <1>4
    <3>2. reg_A < reg_Z * reg_Z
      BY <1>4, <1>6, <1>10 DEF StepDown
    <3> QED BY <3>1, <3>2, <1>2, <1>3, <1>4, <1>6, <1>7
  <2> HIDE DEF z
  <2>6. Bracket(pow2[nb_bits - 1 - s_idx])'
    BY <1>2, <1>4, <1>8, <2>3, <2>4, <2>5 DEF Bracket, H
  <2> QED BY <1>3, <1>8, <2>1, <2>2, <2>3, <2>4, <2>6 DEF Bits
<1>11. CASE StepUp
  <2> DEFINE z == reg_Z + u
  <2>1. z \in Nat /\ z < H /\ reg_Z < H
    BY <1>2, <1>3, <1>4, <1>6, <1>7
  <2>2. z * z < pow2[W] /\ z < pow2[W] /\ z * z \in Nat
    BY <2>1, SquareFits DEF H
  <2>3. reg_X' = z * z
    <3>1. z * z = reg_X + u * (u + 2 * reg_Z) /\ u + 2 * reg_Z \in Int
      BY <1>2, <1>4, <1>6, <1>7
    <3> HIDE DEF z
    <3>2. Low(Low(reg_X + u * Low(u + 2 * reg_Z, W), 2 * W), W) = z * z
      BY <1>8, <2>2, <3>1, Multiply
    <3> QED BY <1>6, <1>9, <1>11, <3>2 DEF StepUp, reg_mult_2
  <2>4. reg_Z' = z
    <3>1. reg_Z' = Low(z, W)
      BY <1>6, <1>11 DEF StepUp
    <3> HIDE DEF z
    <3> QED BY <1>1, <2>1, <2>2, <3>1, LowFits
  <2>5. reg_A < (z + u) * (z + u) /\ (z - u) * (z - u) <= reg_A /\ u <= z /\ z + u <= H
    <3>1. z - u = reg_Z
      BY <1>2, <1>4
    <3>2. reg_Z * reg_Z <= reg_A
      BY <1>4, <1>6, <1>11 DEF StepUp
    <3> QED BY <3>1, <3>2, <1>2, <1>3, <1>4, <1>6, <1>7
  <2> HIDE DEF z
  <2>6. Bracket(pow2[nb_bits - 1 - s_idx])'
    BY <1>2, <1>4, <1>8, <2>3, <2>4, <2>5 DEF Bracket, H
  <2> QED BY <1>3, <1>8, <2>1, <2>2, <2>3, <2>4, <2>6 DEF Bits
<1>12. CASE Stay
  <2>1. /\ (reg_Z - u) * (reg_Z - u) <= reg_A /\ reg_A < (reg_Z + u) * (reg_Z + u)
        /\ u <= reg_Z /\ reg_Z + u <= H
    BY <1>2, <1>3, <1>4, <1>6, <1>7, <1>12 DEF Stay
  <2>2. Bracket(pow2[nb_bits - 1 - s_idx])'
    BY <1>2, <1>4, <1>6, <1>8, <1>12, <2>1 DEF Bracket, Stay, H
  <2> QED BY <1>8, <1>12, <2>2 DEF Stay, Inv, TypeOK
<1> QED BY <1>10, <1>11, <1>12 DEF Compute

\* Every edge and the reset preserve the invariant.
LEMMA StepInv == Inv /\ [Next]_vars => Inv'
<1> SUFFICES ASSUME Inv, [Next]_vars PROVE Inv'
  OBVIOUS
<1> USE DEF TState
<1>1. ASSUME NEW go \in BOOLEAN, NEW A \in Operands, Idle(go, A) PROVE Inv'
  <2>1. A \in Bits(W) /\ A \in Nat /\ A < pow2[W] /\ pow2[W] \in Nat
    BY OperandsAssumption, WidthsFit DEF Bits
  <2>2. PICK h \in Nat : /\ h = pow2[nb_bits - 2] /\ h >= 1
                         /\ pow2[nb_bits] = 4 * h /\ pow2[nb_bits - 1 - 0] = 2 * h
                         /\ pow2[W] = (4 * h) * (4 * h)
                         /\ h * (4 * h) \in Bits(W) /\ h \in Bits(W) /\ 2 * h \in Bits(W)
    BY FirstBracket
  <2>3. /\ reg_A' = A /\ reg_X' = h * (4 * h) /\ reg_V' = h /\ reg_Z' = 2 * h
        /\ s_idx' = 0 /\ s_count' = 0 /\ Resultat' = Resultat
        /\ state' = IF go THEN "COMPUTE" ELSE "IDLE"
    BY <1>1, <2>2 DEF Idle, Load, ClearCounters
  <2>4. TypeOK'
    BY <2>1, <2>2, <2>3 DEF Inv, TypeOK
  <2>5. Bracket(2 * h)'
    <3>1. /\ (2 * h) \div 2 = h /\ h * (4 * h) = (2 * h) * (2 * h)
          /\ 2 * h <= 2 * h /\ 2 * h + 2 * h <= 4 * h
          /\ (2 * h - 2 * h) * (2 * h - 2 * h) = 0
          /\ (2 * h + 2 * h) * (2 * h + 2 * h) = (4 * h) * (4 * h)
      OBVIOUS
    <3>2. /\ (2 * h - 2 * h) * (2 * h - 2 * h) <= A
          /\ A < (2 * h + 2 * h) * (2 * h + 2 * h)
          /\ 2 * h + 2 * h <= pow2[nb_bits]
      BY <2>1, <2>2, <3>1
    <3> QED BY <2>3, <3>1, <3>2 DEF Bracket
  <2>6. RootBracketed'
    BY <2>2, <2>3, <2>5 DEF RootBracketed
  <2> QED BY <2>3, <2>4, <2>6 DEF Inv
<1>2. CASE Compute
  <2>1. /\ s_idx \in 0 .. nb_bits - 2 /\ s_count = s_idx
        /\ s_idx' = s_idx + 1 /\ s_count' = s_count + 1
    BY <1>2 DEF Compute, Inv, TypeOK
  <2>2. RootBracketed'
    BY <1>2, ComputeBracket DEF RootBracketed
  <2>3. TypeOK'
    <3>1. /\ state' \in TState /\ reg_A' \in Bits(W)
          /\ s_idx' \in 0 .. nb_bits - 1 /\ s_count' \in 0 .. nb_bits - 1
      BY <1>2, <2>1 DEF Compute, AtLastStep, Inv, TypeOK
    <3>2. reg_X' \in Bits(W) /\ reg_Z' \in Bits(W) /\ reg_V' \in Bits(W)
      BY <1>2, ComputeBracket
    <3>3. Output' \in Bits(nb_bits)
      <4>1. reg_A' \in Int /\ reg_Z' \in Int /\ reg_Z' - 1 \in Int
        BY <3>1, <3>2 DEF Bits
      <4>2. reg_Z_v' \in Int
        BY <4>1, LowRange DEF reg_Z_v, Bits
      <4> QED BY <4>1, <4>2, LowRange DEF Output
    <3>4. Resultat' \in Bits(nb_bits)
      BY <1>2, <3>3 DEF Compute, Inv, TypeOK
    <3> QED BY <3>1, <3>2, <3>4 DEF TypeOK
  <2> QED BY <1>2, <2>1, <2>2, <2>3 DEF Compute, AtLastStep, Inv
<1>3. CASE Reset
  BY <1>3 DEF Reset, regs, Inv, TypeOK, RootBracketed
<1>4. CASE UNCHANGED vars
  BY <1>4 DEF vars, Inv, TypeOK, RootBracketed, Bracket, Output, reg_Z_v
<1> QED BY <1>1, <1>2, <1>3, <1>4 DEF Next, Done

\* The invariant holds throughout every behaviour.
THEOREM Invariant == Spec => []Inv
BY InitInv, StepInv, PTL DEF Spec

-----------------------------------------------------------------------------
(* What the invariant implies *)

\* Every register keeps to its declared width.
THEOREM TypeCorrect == Spec => []TypeOK
<1>1. Inv => TypeOK
  BY DEF Inv
<1> QED BY <1>1, Invariant, PTL

\* The bracket around the root halves at every edge, X stays the square of Z.
THEOREM BracketCorrect == Spec => []RootBracketed
<1>1. Inv => RootBracketed
  BY DEF Inv
<1> QED BY <1>1, Invariant, PTL

\* fini comes with the integer square root of the sampled operand.
THEOREM RootIsCorrect == Spec => []RootCorrect
<1>1. Inv => RootCorrect
  <2> SUFFICES ASSUME Inv, state = "DONE" PROVE IsRoot(Resultat, reg_A)
    BY DEF RootCorrect, fini
  <2>1. /\ s_idx = nb_bits - 1 /\ Resultat = Output
        /\ reg_A \in Nat /\ reg_Z \in Nat /\ nb_bits - 1 - s_idx = 0
    BY DEF Inv, TypeOK, Bits
  <2>2. Bracket(1)
    BY <2>1, Pow2Zero DEF Inv, RootBracketed
  <2>3. /\ pow2[nb_bits] \in Nat /\ pow2[nb_bits] >= 4 /\ nb_bits \in Nat /\ W \in Nat
        /\ pow2[nb_bits] <= pow2[W]
    BY WidthsFit
  <2>4. /\ 1 <= reg_Z /\ reg_Z < pow2[nb_bits] /\ reg_X = reg_Z * reg_Z
        /\ (reg_Z - 1) * (reg_Z - 1) <= reg_A /\ reg_A < (reg_Z + 1) * (reg_Z + 1)
    BY <2>1, <2>2, <2>3 DEF Bracket
  <2>5. CASE reg_A < 2
    <3>1. Output = reg_A
      BY <2>1, <2>3, <2>5, LowFits DEF Output
    <3> QED BY <2>1, <2>5, <3>1, SmallRoots
  <2>6. CASE ~(reg_A < 2) /\ reg_X > reg_A
    <3>1. reg_Z - 1 \in Nat /\ reg_Z - 1 < pow2[nb_bits] /\ reg_Z - 1 < pow2[W]
      BY <2>1, <2>3, <2>4, WidthsFit
    <3>2. reg_Z_v = reg_Z - 1
      BY <2>3, <3>1, LowFits DEF reg_Z_v
    <3>3. Output = reg_Z - 1
      BY <2>3, <2>6, <3>1, <3>2, LowFits DEF Output
    <3>4. IsRoot(reg_Z - 1, reg_A)
      <4>1. (reg_Z - 1) + 1 = reg_Z
        BY <2>1
      <4> QED BY <2>4, <2>6, <4>1 DEF IsRoot
    <3> QED BY <2>1, <3>3, <3>4
  <2>7. CASE ~(reg_A < 2) /\ ~(reg_X > reg_A)
    <3>1. Output = reg_Z
      BY <2>1, <2>3, <2>4, <2>7, LowFits DEF Output
    <3>2. reg_Z * reg_Z <= reg_A
      BY <2>1, <2>4, <2>7
    <3> QED BY <2>1, <2>4, <3>1, <3>2 DEF IsRoot
  <2> QED BY <2>5, <2>6, <2>7
<1> QED BY <1>1, Invariant, PTL

\* The reported count is the number of iterations, and never wraps its vector.
THEOREM CountIsExact == Spec => []CountExact
<1>1. Inv => CountExact
  <2>1. ASSUME NEW c \in 0 .. nb_bits PROVE Low(c, W) = c
    <3>1. c \in Nat /\ c < pow2[W] /\ W \in Nat
      BY WidthsFit
    <3> QED BY <3>1, LowFits
  <2> QED BY <2>1 DEF Inv, TypeOK, CountExact, count, fini
<1> QED BY <1>1, Invariant, PTL

-----------------------------------------------------------------------------
(* Refinement *)

\* Every behaviour of archi2 is one of the service: an IDLE edge samples, the
\* last edge of the computation delivers, the edges before it are invisible.
THEOREM Implements == Spec => Service!Spec
<1>0. Service!Bits(nb_bits) = Bits(nb_bits)
  <2>1. Service!pow2 = pow2
    BY DEF Service!pow2, pow2
  <2> QED BY <2>1 DEF Service!Bits, Bits
<1>1. Init => Service!Init
  <2> SUFFICES ASSUME Init PROVE Service!Init
    OBVIOUS
  <2>1. TypeOK
    BY InitInv DEF Inv
  <2> QED BY <1>0, <2>1 DEF Init, Service!Init, TypeOK
<1>2. Inv /\ Inv' /\ RootCorrect' /\ [Next]_vars => [Service!Next]_(Service!vars)
  <2> SUFFICES ASSUME Inv, Inv', RootCorrect', [Next]_vars
               PROVE  [Service!Next]_(Service!vars)
    OBVIOUS
  <2> USE DEF Service!vars, Service!Next
  <2>1. ASSUME NEW go \in BOOLEAN, NEW A \in Operands, Idle(go, A)
        PROVE  Service!Sample(go, A)
    BY <2>1 DEF Idle, Load, Service!Sample
  <2>2. CASE Compute
    <3>1. CASE state' = "DONE"
      <4>1. Resultat' \in Bits(nb_bits) /\ IsRoot(Resultat', reg_A')
        BY <3>1 DEF Inv, TypeOK, RootCorrect, fini
      <4> QED BY <1>0, <2>2, <3>1, <4>1
               DEF Compute, Service!Deliver, Service!IsRoot, IsRoot
    <3>2. CASE state' # "DONE"
      BY <2>2, <3>2 DEF Compute
    <3> QED BY <3>1, <3>2
  <2>3. CASE Reset
    BY <2>3 DEF Reset, regs, Service!Reset
  <2>4. CASE UNCHANGED vars
    BY <2>4 DEF vars
  <2> QED BY <2>1, <2>2, <2>3, <2>4 DEF Next, Done
<1> QED BY <1>1, <1>2, Invariant, RootIsCorrect, PTL DEF Spec, Service!Spec

-----------------------------------------------------------------------------
(* archi6: the shifter stands for the multiplier *)

\* The sign of a vector is recovered when the value keeps to its range.
LEMMA SignedLow ==
  ASSUME NEW n \in Nat, NEW x \in Int, -pow2[n] <= x, x < pow2[n]
  PROVE  SignedValue(Low(x, n + 1), n + 1) = x
<1> DEFINE H == pow2[n]
<1>1. H \in Nat /\ H >= 1 /\ pow2[n + 1] = 2 * H /\ n + 1 \in Nat
  BY Pow2Pos, Pow2Succ
<1>2. CASE x >= 0
  <2>1. Low(x, n + 1) = x
    BY <1>1, <1>2, LowFits
  <2> QED BY <1>1, <1>2, <2>1 DEF SignedValue
<1>3. CASE x < 0
  <2>1. Low(x, n + 1) = x + 2 * H
    <3> DEFINE r == x + 2 * H
    <3> HIDE DEF H
    <3>1. 2 * H \in Nat /\ r \in Nat /\ r < 2 * H
      BY <1>1, <1>3 DEF H
    <3>2. x = MulAdd(r, -1, 2 * H)
      BY <1>1 DEF MulAdd
    <3> HIDE DEF r
    <3>3. x % (2 * H) = r
      BY <3>1, <3>2, ModUnique
    <3> QED BY <1>1, <3>3 DEF Low, r
  <2> QED BY <1>1, <1>3, <2>1 DEF SignedValue
<1> QED BY <1>2, <1>3

\* Adding a shifted vector, negative or not, adds its value times the power
\* of two, whatever the shifter and the adder truncate, if the sum fits.
LEMMA ShiftAdd ==
  ASSUME NEW b \in Int, -pow2[nb_bits + 1] <= b, b < pow2[nb_bits + 1],
         NEW e \in Nat, NEW x \in Nat, NEW r \in Nat, r < pow2[W],
         r = x + pow2[e] * b
  PROVE  Low(x + Low(Shifter(Low(b, nb_bits + 2), e, nb_bits + 2), W), W) = r
<1> DEFINE y == b * pow2[e]
           V == 2 * (nb_bits + 2)
<1>1. SignedValue(Low(b, nb_bits + 2), nb_bits + 2) = b
  <2> DEFINE n == nb_bits + 1
  <2>1. n \in Nat /\ n + 1 = nb_bits + 2 /\ -pow2[n] <= b /\ b < pow2[n]
    OBVIOUS
  <2> HIDE DEF n
  <2>2. SignedValue(Low(b, n + 1), n + 1) = b
    BY <2>1, SignedLow
  <2> QED BY <2>1, <2>2
<1>2. y \in Int /\ x + y = r
  BY Pow2Pos
<1>3. Shifter(Low(b, nb_bits + 2), e, nb_bits + 2) = Low(y, V)
  BY <1>1 DEF Shifter
<1>4. W \in Nat /\ V \in Nat /\ W <= V
  OBVIOUS
<1> HIDE DEF y, V, W
<1>5. Low(Low(y, V), W) = Low(y, W)
  BY <1>2, <1>4, LowOfLow
<1>6. Low(x + Low(y, W), W) = Low(x + y, W)
  <2>1. Low(MulAdd(x, 1, Low(y, W)), W) = Low(MulAdd(x, 1, y), W)
    BY <1>2, <1>4, LowOfSum
  <2>2. Low(y, W) \in Int
    BY <1>2, <1>4, LowRange DEF Bits
  <2>3. MulAdd(x, 1, Low(y, W)) = x + Low(y, W) /\ MulAdd(x, 1, y) = x + y
    BY <1>2, <2>2 DEF MulAdd
  <2> QED BY <2>1, <2>3
<1>7. Low(r, W) = r
  BY <1>4, LowFits
<1> QED BY <1>2, <1>3, <1>5, <1>6, <1>7

-----------------------------------------------------------------------------
(* archi6: the inductive invariant *)

\* What RootBracketed6 says of the distance w.
Bracket6(w) == /\ regV = w \div 2
               /\ regX = regZ * regZ
               /\ w <= regZ /\ regZ + w <= pow2[nb_bits]
               /\ (regZ - w) * (regZ - w) <= regA
               /\ regA < (regZ + w) * (regZ + w)

\* What the asynchronous initialisation leaves in the registers.
Prepared6 == /\ regX = pow2[nb_bits - 2] * pow2[nb_bits]
             /\ regV = pow2[nb_bits - 2]
             /\ regZ = 2 * pow2[nb_bits - 2]
             /\ counter = nb_bits - 2

\* The bracket starts from the prepared registers, and the counter is a shift
\* distance only until it wraps at the last iteration.
Inv6 == /\ TypeOK6
        /\ RootBracketed6
        /\ state6 = "IDLE" => Prepared6 /\ regA \in Operands
        /\ state6 = "COMPUTE" => counter <= nb_bits - 2

\* The constants the asynchronous initialisation loads fit their vectors.
LEMMA PreparedFits ==
  /\ pow2[nb_bits - 2] * pow2[nb_bits] \in Bits(W)
  /\ pow2[nb_bits - 2] \in Bits(nb_bits) /\ 2 * pow2[nb_bits - 2] \in Bits(nb_bits)
  /\ nb_bits - 2 \in Bits(nb_bits)
<1>1. PICK h \in Nat : /\ h = pow2[nb_bits - 2] /\ h >= 1 /\ pow2[nb_bits] = 4 * h
                       /\ h * (4 * h) \in Bits(W)
  BY FirstBracket
<1>2. h \in Bits(nb_bits) /\ 2 * h \in Bits(nb_bits)
  BY <1>1 DEF Bits
<1>3. nb_bits - 2 \in Bits(nb_bits)
  <2>1. nb_bits < pow2[nb_bits] /\ pow2[nb_bits] \in Nat
    BY BelowPow2, Pow2Pos
  <2> QED BY <2>1 DEF Bits
<1> QED BY <1>1, <1>2, <1>3

\* The prepared registers bracket every operand.
LEMMA PreparedBrackets ==
  ASSUME Prepared6, regA \in Bits(W)
  PROVE  Bracket6(pow2[counter + 1])
<1>1. PICK h \in Nat : /\ h = pow2[nb_bits - 2] /\ h >= 1
                       /\ pow2[nb_bits] = 4 * h /\ pow2[nb_bits - 1 - 0] = 2 * h
                       /\ pow2[W] = (4 * h) * (4 * h)
                       /\ h * (4 * h) \in Bits(W) /\ h \in Bits(W) /\ 2 * h \in Bits(W)
  BY FirstBracket
<1>2. /\ regX = h * (4 * h) /\ regV = h /\ regZ = 2 * h /\ counter = nb_bits - 2
      /\ counter + 1 = nb_bits - 1 - 0
  BY <1>1 DEF Prepared6
<1>3. Bracket6(2 * h)
  <2>0. regA \in Nat /\ regA < (4 * h) * (4 * h)
    <3>1. pow2[W] \in Nat
      BY WidthsFit
    <3> QED BY <1>1, <3>1 DEF Bits
  <2>1. /\ (2 * h) \div 2 = h /\ h * (4 * h) = (2 * h) * (2 * h)
        /\ (2 * h - 2 * h) * (2 * h - 2 * h) = 0
        /\ (2 * h + 2 * h) * (2 * h + 2 * h) = (4 * h) * (4 * h)
    OBVIOUS
  <2>2. /\ (2 * h - 2 * h) * (2 * h - 2 * h) <= regA
        /\ regA < (2 * h + 2 * h) * (2 * h + 2 * h)
        /\ 2 * h + 2 * h <= pow2[nb_bits]
    <3>1. 0 <= regA /\ 2 * h + 2 * h = 4 * h
      BY <2>0
    <3>2. (2 * h - 2 * h) * (2 * h - 2 * h) <= regA
      BY <2>1, <3>1
    <3>3. regA < (2 * h + 2 * h) * (2 * h + 2 * h)
      BY <2>0, <3>1
    <3>4. 2 * h + 2 * h <= pow2[nb_bits]
      BY <1>1, <3>1
    <3> QED BY <3>2, <3>3, <3>4
  <2> QED BY <1>2, <2>1, <2>2 DEF Bracket6
<1> QED BY <1>1, <1>2, <1>3

\* Power-up, like every rewinding, leaves the controller IDLE and prepared.
LEMMA InitInv6 == Init6 => Inv6
<1> SUFFICES ASSUME Init6 PROVE Inv6
  OBVIOUS
<1>1. regA \in Bits(W) /\ Resultat6 \in Bits(nb_bits)
  <2>1. \A p \in PowerUp : p \in Int
    BY PowerUpAssumption DEF Bits
  <2> QED BY <2>1, OperandsAssumption, LowRange DEF Init6
<1>2. Prepared6
  BY DEF Init6, CountInit, Prepared6
<1> QED BY <1>1, <1>2, PreparedFits
       DEF Init6, Inv6, TypeOK6, TState, RootBracketed6, Prepared6

\* What the data path computes in COMPUTE: the next candidate, its square
\* through the shifter, and a bracket of half the width.
LEMMA Compute6Bracket ==
  ASSUME Inv6, Compute6
  PROVE  /\ regX' \in Bits(W) /\ regZ' \in Bits(nb_bits) /\ regV' \in Bits(nb_bits)
         /\ counter \in Nat
         /\ \A d : d = pow2[counter] => Bracket6(d)'
<1> DEFINE H == pow2[nb_bits]
<1>1. /\ counter \in Nat /\ W \in Nat /\ regA \in Nat /\ regZ \in Nat /\ regA' = regA
      /\ regX \in Nat /\ ToGo = counter + 1
  BY DEF Inv6, TypeOK6, Bits, Compute6, ToGo
<1>2. PICK u \in Nat : u = pow2[counter] /\ u >= 1 /\ pow2[counter + 1] = 2 * u
  BY <1>1, Pow2Pos, Pow2Succ
<1>3. H \in Nat /\ H >= 4 /\ pow2[W] = H * H /\ pow2[nb_bits + 1] = 2 * H
  BY WidthsFit, Pow2Succ
<1>4. Bracket6(2 * u)
  BY <1>1, <1>2 DEF Inv6, RootBracketed6, Compute6, Bracket6
<1> HIDE DEF H
<1>5. /\ regV = u /\ regX = regZ * regZ
      /\ 2 * u <= regZ /\ regZ + 2 * u <= H
      /\ (regZ - 2 * u) * (regZ - 2 * u) <= regA
      /\ regA < (regZ + 2 * u) * (regZ + 2 * u)
  <2>1. (2 * u) \div 2 = u
    BY <1>2
  <2> QED BY <1>4, <2>1 DEF Bracket6, H
<1>6. /\ regZ * regZ + u * (u - 2 * regZ) = (regZ - u) * (regZ - u)
      /\ regZ * regZ + u * (u + 2 * regZ) = (regZ + u) * (regZ + u)
      /\ regZ - u \in Nat /\ u <= regZ - u /\ regZ + u + u <= H
      /\ ((regZ - u) - u) * ((regZ - u) - u) <= regA
      /\ regA < ((regZ + u) + u) * ((regZ + u) + u)
      /\ (regZ - u) * (regZ - u) <= regZ * regZ
      /\ regZ * regZ < (regZ + u) * (regZ + u)
  BY <1>1, <1>2, <1>3, <1>5, BracketStep
<1>7. /\ regV' = u \div 2 /\ regV' \in Bits(nb_bits)
      /\ regX' = RegX_E /\ regZ' = RegZ_E(FALSE)
  <2>1. u < H /\ u \div 2 \in Nat /\ u \div 2 <= u
    BY <1>1, <1>2, <1>3, <1>5
  <2> QED BY <1>3, <1>5, <2>1 DEF Compute6, Bits, H
<1>8. ASSUME NEW z \in Nat, z < H PROVE z * z \in Nat /\ z * z < pow2[W] /\ Low(z, nb_bits) = z
  BY <1>8, SquareFits, LowFits DEF H
<1>9. ASSUME NEW z \in Nat, regZ' = z, regX' = z * z, u <= z, z + u <= H,
             (z - u) * (z - u) <= regA, regA < (z + u) * (z + u)
      PROVE  /\ regX' \in Bits(W) /\ regZ' \in Bits(nb_bits)
             /\ Bracket6(u)'
  <2>1. z < H /\ z * z \in Nat /\ z * z < pow2[W] /\ pow2[W] \in Nat
    BY <1>2, <1>3, <1>8, <1>9, WidthsFit
  <2>2. regX' \in Bits(W) /\ regZ' \in Bits(nb_bits)
    BY <1>3, <1>9, <2>1 DEF Bits, H
  <2>3. Bracket6(u)'
    BY <1>1, <1>7, <1>9 DEF Bracket6, H
  <2> QED BY <2>2, <2>3
<1> DEFINE Goal == /\ regX' \in Bits(W) /\ regZ' \in Bits(nb_bits)
                   /\ Bracket6(u)'
<1>10. ASSUME regX > regA PROVE Goal
  <2> DEFINE z == regZ - u
             b == u - 2 * regZ
  <2>1. z \in Nat /\ z < H /\ b \in Int /\ -pow2[nb_bits + 1] <= b /\ b < pow2[nb_bits + 1]
    BY <1>1, <1>2, <1>3, <1>5, <1>6
  <2>2. Shift_E = Low(b, nb_bits + 2) /\ RegZ_E(FALSE) = Low(z, nb_bits) /\ ~CompEq
    BY <1>1, <1>5, <1>10 DEF Shift_E, RegZ_E, MuxV, Mux3, AddSub, CompSup, CompEq
  <2>3. RegX_E = Low(regX + Low(Shifter(Shift_E, counter, nb_bits + 2), W), W)
    BY <2>2 DEF RegX_E, AddSub, Mux2, Shift_S
  <2>4. z * z = regX + pow2[counter] * b
    BY <1>2, <1>5, <1>6
  <2>5. z + u = regZ /\ regA < regZ * regZ /\ z + u <= H
    BY <1>1, <1>2, <1>3, <1>5, <1>10
  <2>6. u <= z /\ (z - u) * (z - u) <= regA /\ regA < (z + u) * (z + u)
    BY <1>6, <2>5
  <2> HIDE DEF z, b
  <2>7. z * z \in Nat /\ z * z < pow2[W] /\ Low(z, nb_bits) = z
    BY <1>8, <2>1
  <2>8. RegX_E = z * z
    BY <1>1, <2>1, <2>2, <2>3, <2>4, <2>7, ShiftAdd
  <2> QED BY <1>7, <1>9, <2>1, <2>2, <2>5, <2>6, <2>7, <2>8
<1>11. ASSUME regX < regA PROVE Goal
  <2> DEFINE z == regZ + u
             b == u + 2 * regZ
  <2>1. z \in Nat /\ z < H /\ b \in Int /\ -pow2[nb_bits + 1] <= b /\ b < pow2[nb_bits + 1]
    BY <1>1, <1>2, <1>3, <1>5, <1>6
  <2>2. Shift_E = Low(b, nb_bits + 2) /\ RegZ_E(FALSE) = Low(z, nb_bits) /\ ~CompEq
    BY <1>1, <1>5, <1>11 DEF Shift_E, RegZ_E, MuxV, Mux3, AddSub, CompSup, CompEq
  <2>3. RegX_E = Low(regX + Low(Shifter(Shift_E, counter, nb_bits + 2), W), W)
    BY <2>2 DEF RegX_E, AddSub, Mux2, Shift_S
  <2>4. z * z = regX + pow2[counter] * b
    BY <1>2, <1>5, <1>6
  <2>5. z - u = regZ /\ regZ * regZ <= regA /\ u <= z /\ z + u <= H
    BY <1>1, <1>2, <1>3, <1>5, <1>6, <1>11
  <2>6. (z - u) * (z - u) <= regA /\ regA < (z + u) * (z + u)
    BY <1>6, <2>5
  <2> HIDE DEF z, b
  <2>7. z * z \in Nat /\ z * z < pow2[W] /\ Low(z, nb_bits) = z
    BY <1>8, <2>1
  <2>8. RegX_E = z * z
    BY <1>1, <2>1, <2>2, <2>3, <2>4, <2>7, ShiftAdd
  <2> QED BY <1>7, <1>9, <2>1, <2>2, <2>5, <2>6, <2>7, <2>8
<1>12. ASSUME regX = regA PROVE Goal
  <2>1. regZ < H /\ u <= regZ /\ regZ + u <= H
    BY <1>1, <1>2, <1>3, <1>5
  <2>2. Low(regZ, nb_bits) = regZ /\ Low(regX, W) = regX
    BY <1>1, <1>5, <1>8, <2>1, LowFits
  <2>3. RegZ_E(FALSE) = Low(regZ + 0, nb_bits) /\ RegX_E = Low(regX + 0, W)
    BY <1>1, <1>12 DEF RegZ_E, RegX_E, MuxV, Mux3, Mux2, AddSub, CompSup, CompEq
  <2>4. regZ + 0 = regZ /\ regX + 0 = regX
    BY <1>1
  <2>5. (regZ - u) * (regZ - u) <= regA /\ regA < (regZ + u) * (regZ + u)
    BY <1>5, <1>6, <1>12
  <2> QED BY <1>1, <1>5, <1>7, <1>9, <2>1, <2>2, <2>3, <2>4, <2>5
<1>13. regX > regA \/ regX < regA \/ regX = regA
  BY <1>1
<1>14. Goal
  BY <1>10, <1>11, <1>12, <1>13
<1> QED BY <1>1, <1>2, <1>7, <1>14 DEF Bracket6

\* Where the bracket is one wide the corrected output is the root.
LEMMA RootOfBracket6 ==
  ASSUME TypeOK6, Bracket6(1)
  PROVE  IsRoot(RegR_E(TRUE), regA)
<1>1. /\ regA \in Nat /\ regZ \in Nat /\ regX \in Nat /\ nb_bits \in Nat
      /\ pow2[nb_bits] \in Nat
  BY WidthsFit DEF TypeOK6, Bits
<1>2. /\ 1 <= regZ /\ regZ < pow2[nb_bits] /\ regX = regZ * regZ
      /\ (regZ - 1) * (regZ - 1) <= regA /\ regA < (regZ + 1) * (regZ + 1)
  BY <1>1 DEF Bracket6
<1>3. CASE regX > regA
  <2>1. regZ - 1 \in Nat /\ regZ - 1 < pow2[nb_bits] /\ (regZ - 1) + 1 = regZ
    BY <1>1, <1>2
  <2>2. RegR_E(TRUE) = Low(regZ - 1, nb_bits)
    BY <1>3 DEF RegR_E, RegZ_E, MuxV, Mux2, Mux3, AddSub, CompSup
  <2>3. RegR_E(TRUE) = regZ - 1
    <3> DEFINE z == regZ - 1
    <3>1. z \in Nat /\ z < pow2[nb_bits]
      BY <2>1
    <3> HIDE DEF z
    <3>2. Low(z, nb_bits) = z
      BY <1>1, <3>1, LowFits
    <3> QED BY <2>2, <3>2 DEF z
  <2> QED BY <1>2, <1>3, <2>1, <2>3 DEF IsRoot
<1>4. CASE ~(regX > regA)
  <2>1. RegR_E(TRUE) = regZ
    BY <1>4 DEF RegR_E, Mux2, CompSup
  <2>2. regZ * regZ <= regA
    BY <1>1, <1>2, <1>4
  <2> QED BY <1>2, <2>1, <2>2 DEF IsRoot
<1> QED BY <1>3, <1>4

\* Whatever the registers hold, the data path yields vectors of the widths it
\* is wired to.
LEMMA DataPathWidths ==
  ASSUME TypeOK6, NEW s_end \in BOOLEAN
  PROVE  /\ RegZ_E(s_end) \in Bits(nb_bits) /\ RegR_E(s_end) \in Bits(nb_bits)
         /\ RegX_E \in Bits(W)
         /\ regV \div 2 \in Bits(nb_bits) /\ CountDown(counter) \in Bits(nb_bits)
<1>1. /\ regA \in Int /\ regX \in Int /\ regV \in Nat /\ regZ \in Int /\ counter \in Nat
      /\ nb_bits \in Nat /\ W \in Nat /\ nb_bits + 2 \in Nat
      /\ pow2[nb_bits] \in Nat /\ regV < pow2[nb_bits] /\ regZ \in Bits(nb_bits)
  BY WidthsFit DEF TypeOK6, Bits
<1>2. MuxV(s_end) \in Int
  BY <1>1 DEF MuxV, Mux3
<1>3. RegZ_E(s_end) \in Bits(nb_bits)
  BY <1>1, <1>2, LowRange DEF RegZ_E, AddSub
<1>4. Shift_S \in Int
  <2>1. Shift_E \in Int
    <3>1. regV - 2 * regZ \in Int /\ regV + 2 * regZ \in Int
      BY <1>1
    <3>2. /\ Low(regV - 2 * regZ, nb_bits + 2) \in Bits(nb_bits + 2)
          /\ Low(regV + 2 * regZ, nb_bits + 2) \in Bits(nb_bits + 2)
      BY <1>1, <3>1, LowRange
    <3> QED BY <3>2 DEF Shift_E, AddSub, Bits
  <2>2. SignedValue(Shift_E, nb_bits + 2) \in Int
    <3>1. pow2[nb_bits + 2] \in Int
      BY <1>1, Pow2Pos
    <3> QED BY <2>1, <3>1 DEF SignedValue
  <2> DEFINE y == SignedValue(Shift_E, nb_bits + 2) * pow2[counter]
             V == 2 * (nb_bits + 2)
  <2>3. y \in Int /\ V \in Nat
    <3>1. pow2[counter] \in Int
      BY <1>1, Pow2Pos
    <3> QED BY <2>2, <3>1
  <2>4. Shifter(Shift_E, counter, nb_bits + 2) = Low(y, V)
    BY DEF Shifter
  <2> HIDE DEF y, V
  <2>5. Low(y, V) \in Int
    BY <2>3, LowRange DEF Bits
  <2>6. Low(Low(y, V), W) \in Bits(W)
    BY <1>1, <2>5, LowRange
  <2> QED BY <2>4, <2>6 DEF Shift_S, Bits
<1>5. RegX_E \in Bits(W)
  <2>1. Mux2(Shift_S, 0, CompEq) \in Int
    BY <1>4 DEF Mux2
  <2>2. regX + Mux2(Shift_S, 0, CompEq) \in Int
    BY <1>1, <2>1
  <2> QED BY <1>1, <2>2, LowRange DEF RegX_E, AddSub
<1>6. CountDown(counter) \in Bits(nb_bits)
  <2>1. counter - 1 \in Int
    BY <1>1
  <2> QED BY <1>1, <2>1, LowRange DEF CountDown
<1> QED BY <1>1, <1>3, <1>5, <1>6 DEF RegR_E, Mux2, Bits

\* Every edge, the asynchronous initialisation and every change of an input
\* preserve the invariant.
LEMMA StepInv6 == Inv6 /\ [Next6]_vars6 => Inv6'
<1> SUFFICES ASSUME Inv6, [Next6]_vars6 PROVE Inv6'
  OBVIOUS
<1> USE DEF TState
<1>0. TypeOK6
  BY DEF Inv6
<1>1. ASSUME NEW d \in BOOLEAN, SetDebut(d) PROVE Inv6'
  <2>1. Resultat6' \in Bits(nb_bits)
    BY <1>0, <1>1, DataPathWidths DEF SetDebut, TypeOK6
  <2> QED BY <1>0, <1>1, <2>1
          DEF SetDebut, regs6, Inv6, TypeOK6, RootBracketed6, ToGo, Prepared6
<1>2. ASSUME NEW a \in Operands, Track(a) PROVE Inv6'
  <2>1. a \in Bits(W)
    BY OperandsAssumption
  <2> QED BY <1>0, <1>2, <2>1 DEF Track, Inv6, TypeOK6, RootBracketed6, Prepared6
<1>3. CASE Start6
  <2>1. counter = nb_bits - 2 /\ Bracket6(pow2[counter + 1])
    BY <1>0, <1>3, PreparedBrackets DEF Start6, Inv6, TypeOK6, Prepared6
  <2> QED BY <1>0, <1>3, <2>1
          DEF Start6, regs6, Inv6, TypeOK6, RootBracketed6, ToGo, Bracket6
<1>4. CASE Compute6
  <2>1. /\ regX' \in Bits(W) /\ regZ' \in Bits(nb_bits) /\ regV' \in Bits(nb_bits)
        /\ counter \in Nat
    BY <1>4, Compute6Bracket
  <2>2. counter' = CountDown(counter) /\ counter' \in Bits(nb_bits)
    BY <1>0, <1>4, DataPathWidths DEF Compute6
  <2>3. TypeOK6'
    BY <1>0, <1>4, <2>1, <2>2 DEF Compute6, TypeOK6
  <2>4. counter # 0 => counter' = counter - 1
    <3> SUFFICES ASSUME counter # 0 PROVE Low(counter - 1, nb_bits) = counter - 1
      BY <2>2 DEF CountDown
    <3>1. counter < pow2[nb_bits] /\ pow2[nb_bits] \in Nat
      BY <1>0, WidthsFit DEF TypeOK6, Bits
    <3>2. counter - 1 \in Nat /\ counter - 1 < pow2[nb_bits] /\ nb_bits \in Nat
      BY <2>1, <3>1
    <3> QED BY <3>2, LowFits
  <2>5. ToGo' = counter
    <3>1. state6' = "FINISHED" <=> counter = 0
      BY <1>4 DEF Compute6, CountEqZ
    <3> QED BY <2>1, <2>4, <3>1 DEF ToGo
  <2>6. RootBracketed6'
    <3>1. PICK d : d = pow2[counter]
      OBVIOUS
    <3>2. Bracket6(d)' /\ d = pow2[ToGo']
      BY <1>4, <2>5, <3>1, Compute6Bracket
    <3> QED BY <3>2 DEF RootBracketed6, Bracket6
  <2>7. state6' = "COMPUTE" => counter' <= nb_bits - 2
    <3>1. counter <= nb_bits - 2
      BY <1>4 DEF Compute6, Inv6
    <3>2. state6' = "COMPUTE" => counter # 0
      BY <1>4 DEF Compute6, CountEqZ
    <3> QED BY <2>1, <2>4, <3>1, <3>2
  <2>8. state6' # "IDLE"
    BY <1>4 DEF Compute6
  <2> QED BY <2>3, <2>6, <2>7, <2>8 DEF Inv6
<1>5. CASE Finish
  <2>1. /\ regX' \in Bits(W) /\ regV' \in Bits(nb_bits) /\ regZ' \in Bits(nb_bits)
        /\ regA' \in Bits(W) /\ counter' \in Bits(nb_bits)
    BY <1>0, <1>5, DataPathWidths DEF Finish, TypeOK6
  <2>2. RegR_E(TRUE)' \in Bits(nb_bits)
    <3>1. RegZ_E(TRUE)' \in Bits(nb_bits)
      <4>1. regZ' - 1 \in Int /\ regZ' + 1 \in Int /\ nb_bits \in Nat
        BY <2>1 DEF Bits
      <4>2. /\ Low(regZ' - 1, nb_bits) \in Bits(nb_bits)
            /\ Low(regZ' + 1, nb_bits) \in Bits(nb_bits)
        BY <4>1, LowRange
      <4> QED BY <4>2 DEF RegZ_E, AddSub, MuxV, Mux3
    <3> QED BY <2>1, <3>1 DEF RegR_E, Mux2
  <2>3. Resultat6' \in Bits(nb_bits)
    BY <1>0, <1>5, <2>2, DataPathWidths DEF Finish
  <2> QED BY <1>0, <1>5, <2>1, <2>3 DEF Finish, Inv6, TypeOK6, RootBracketed6
<1>6. ASSUME state6' = "IDLE", Initialise6, UNCHANGED <<debut, Resultat6>> PROVE Inv6'
  <2>1. Prepared6' /\ regA' \in Operands
    BY <1>6 DEF Initialise6, Prepared6, CountInit
  <2>2. /\ regX' \in Bits(W) /\ regV' \in Bits(nb_bits)
        /\ regZ' \in Bits(nb_bits) /\ counter' \in Bits(nb_bits)
    BY <2>1, PreparedFits DEF Prepared6
  <2> QED BY <1>0, <1>6, <2>1, <2>2, OperandsAssumption
          DEF Inv6, TypeOK6, RootBracketed6
<1>7. CASE UNCHANGED vars6
  BY <1>7 DEF vars6, Inv6, TypeOK6, RootBracketed6, ToGo, Prepared6
<1> QED BY <1>1, <1>2, <1>3, <1>4, <1>5, <1>6, <1>7
        DEF Next6, Stay6, Rewind, Reset6

\* The invariant holds throughout every behaviour.
THEOREM Invariant6 == Spec6 => []Inv6
BY InitInv6, StepInv6, PTL DEF Spec6

\* archi6 keeps the square of its candidate and halves the bracket around the
\* root, the shifter standing for the multiplier, whatever debut does.
THEOREM Bracket6Correct == Spec6 => []Archi6Bracketed
<1>1. Inv6 => Archi6Bracketed
  BY DEF Inv6, Archi6Bracketed
<1> QED BY <1>1, Invariant6, PTL

-----------------------------------------------------------------------------
(* archi6: the root and the service, event driven and under the handshake *)

\* The edge that leaves FINISHED latches the root.
LEMMA FinishRoot ==
  ASSUME Latch = "event", Inv6, Finish
  PROVE  IsRoot(Resultat6', regA)
<1>1. Bracket6(1)
  BY Pow2Zero DEF Finish, Inv6, RootBracketed6, ToGo, Bracket6
<1>2. IsRoot(RegR_E(TRUE), regA)
  BY <1>1, RootOfBracket6 DEF Inv6
<1> QED BY <1>2 DEF Finish

\* Under the handshake nothing disturbs the latch while fini is raised.
LEMMA StepRoot6 ==
  ASSUME Latch = "event"
  PROVE  Inv6 /\ RootCorrect6 /\ [Next6 /\ Handshake]_vars6 => RootCorrect6'
<1> SUFFICES ASSUME Inv6, RootCorrect6, [Next6 /\ Handshake]_vars6 PROVE RootCorrect6'
  OBVIOUS
<1> USE DEF RootCorrect6, fini6
<1>1. ASSUME NEW d \in BOOLEAN, SetDebut(d), Handshake PROVE RootCorrect6'
  BY <1>1 DEF SetDebut, Handshake
<1>2. CASE Finish
  <2>1. regA' = regA
    BY <1>2 DEF Finish
  <2> QED BY <1>2, <2>1, FinishRoot
<1>3. CASE UNCHANGED vars6
  BY <1>3 DEF vars6
<1> QED BY <1>1, <1>2, <1>3
        DEF Next6, Track, Start6, Compute6, Stay6, Rewind, Reset6

\* Under the handshake the behaviours are among those of Spec6.
LEMMA HandshakeInvariant == HandshakeSpec => []Inv6
<1>1. Inv6 /\ [Next6 /\ Handshake]_vars6 => Inv6'
  BY StepInv6
<1> QED BY <1>1, InitInv6, PTL DEF HandshakeSpec

\* fini comes with the integer square root of the captured operand, and the
\* latch keeps it as long as fini is raised.
THEOREM RootIsCorrect6 == ASSUME Latch = "event" PROVE HandshakeSpec => []RootCorrect6
<1>1. Init6 => RootCorrect6
  BY DEF Init6, RootCorrect6, fini6
<1>2. Inv6 /\ RootCorrect6 /\ [Next6 /\ Handshake]_vars6 => RootCorrect6'
  BY StepRoot6
<1> QED BY <1>1, <1>2, HandshakeInvariant, PTL DEF HandshakeSpec

\* Every behaviour of archi6 under the handshake is one of the service: a
\* change of A while IDLE is a sampling, so is the starting edge, the edge
\* that leaves FINISHED delivers, rewinding is a reset, and the rest is
\* invisible.
THEOREM Implements6 == ASSUME Latch = "event" PROVE HandshakeSpec => Service6!Spec
<1>0. Service6!Bits(nb_bits) = Bits(nb_bits)
  <2>1. Service6!pow2 = pow2
    BY DEF Service6!pow2, pow2
  <2> QED BY <2>1 DEF Service6!Bits, Bits
<1>1. Init6 => Service6!Init
  <2> SUFFICES ASSUME Init6 PROVE Service6!Init
    OBVIOUS
  <2>1. TypeOK6
    BY InitInv6 DEF Inv6
  <2> QED BY <1>0, <2>1 DEF Init6, Service6!Init, TypeOK6
<1>2. Inv6 /\ Inv6' /\ [Next6 /\ Handshake]_vars6 => [Service6!Next]_(Service6!vars)
  <2> SUFFICES ASSUME Inv6, Inv6', [Next6 /\ Handshake]_vars6
               PROVE  [Service6!Next]_(Service6!vars)
    OBVIOUS
  <2> USE DEF Service6!vars, Service6!Next
  <2>1. ASSUME NEW d \in BOOLEAN, SetDebut(d), Handshake
        PROVE  UNCHANGED Service6!vars
    BY <2>1 DEF SetDebut, Handshake, regs6
  <2>2. ASSUME NEW a \in Operands, Track(a)
        PROVE  Service6!Sample(FALSE, a)
    BY <2>2 DEF Track, Service6!Sample
  <2>3. CASE Start6
    <3>1. Service6!Sample(TRUE, regA) /\ regA \in Operands
      BY <2>3 DEF Start6, regs6, Service6!Sample, Inv6
    <3> QED BY <3>1
  <2>4. CASE Compute6
    BY <2>4 DEF Compute6
  <2>5. CASE Finish
    <3>1. Resultat6' \in Bits(nb_bits) /\ IsRoot(Resultat6', regA)
      BY <2>5, FinishRoot DEF Inv6, TypeOK6
    <3> QED BY <1>0, <2>5, <3>1
             DEF Finish, Service6!Deliver, Service6!IsRoot, IsRoot
  <2>6. CASE Rewind \/ Reset6
    BY <2>6 DEF Rewind, Reset6, Initialise6, Service6!Reset
  <2>7. CASE UNCHANGED vars6
    BY <2>7 DEF vars6
  <2> QED BY <2>1, <2>2, <2>3, <2>4, <2>5, <2>6, <2>7 DEF Next6, Stay6
<1> QED BY <1>1, <1>2, HandshakeInvariant, PTL DEF HandshakeSpec, Service6!Spec
=============================================================================
