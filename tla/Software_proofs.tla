--------------------------- MODULE Software_proofs ---------------------------
(***************************************************************************)
(* Proofs about the C code that computes. The benchmark program: the four  *)
(* routines of CSqrt, for every width of an unsigned int and every         *)
(* argument, and the times it takes with NiosTimer, for every width and    *)
(* period of the timer. The formatters of the HAL: what alt_printf and     *)
(* alt_log_printf print, for every format and its arguments.               *)
(***************************************************************************)
EXTENDS CSqrt, NiosTimer, AltPrintf, SqrtLemmas, SequenceTheorems, FiniteSetTheorems

USE WidthAssumption DEF W

-----------------------------------------------------------------------------
(* The inductive invariant of the routines *)

\* The locals a routine has.
Locals(f) ==
    CASE f = "sqrt1" -> [res : Bits(W), pre_res : Bits(W)]
      [] f = "sqrt2" -> [x : Bits(W), v : Bits(W), z : Bits(W), i : -1 .. nb_bits - 2]
      [] f = "sqrt3" -> [Xio : Bits(W), v : Bits(W), z : Bits(W), i : -1 .. nb_bits - 1]
      [] f = "sqrt4" -> [min_ : Bits(W), max_ : Bits(W)]

\* sqrt1's iterate is not far above half the argument, so the sum with the
\* quotient loses no bit.
NewtonBounded == NewtonAbove /\ frame.res <= arg \div 2 + 1

\* The squares of sqrt4's middles lose no bit: the first middle is below
\* 2^n, and the bracket never moves up again beyond it.
HalvedBounded == Halved /\ frame.max_ <= arg
                 /\ frame.min_ + frame.max_ < 2 * pow2[nb_bits]

\* LoopInvariant, with what makes it inductive: the bounds above, the locals
\* of the routine that runs, and where a call starts from.
CallInv ==
    /\ TypeOK /\ frame \in Locals(routine)
    /\ pc = "ready" => frame = Frame(routine, arg)
    /\ pc = "running" /\ Domain(routine, arg) =>
         /\ arg >= 2
         /\ routine = "sqrt1" => NewtonBounded
         /\ routine = "sqrt2" => SquareBracketed
         /\ routine = "sqrt3" => DigitsKnown
         /\ routine = "sqrt4" => HalvedBounded
    /\ RootReturned

\* Every routine's locals are among the frames.
LEMMA LocalsAreFrames ==
  ASSUME NEW f \in Routines, NEW l \in Locals(f)
  PROVE  l \in Frames
BY DEF Routines, Locals, Frames

\* Half of an unsigned int, and what is kept of any value, is one.
LEMMA IntRange ==
  /\ \A x \in Int : Low(x, W) \in Bits(W)
  /\ \A x \in Bits(W) : x \in Nat /\ x \div 2 \in Bits(W) /\ x \div 4 \in Bits(W)
  /\ \A x \in Nat : x < pow2[W] <=> x \in Bits(W)
<1>1. W \in Nat /\ pow2[W] \in Nat
  BY WidthsFit
<1>2. \A x \in Int : Low(x, W) \in Bits(W)
  BY <1>1, LowRange
<1> QED BY <1>1, <1>2 DEF Bits

\* A call starts from the initialised locals.
LEMMA FrameTyped ==
  ASSUME NEW f \in Routines, NEW a \in Bits(W)
  PROVE  Frame(f, a) \in Locals(f)
<1>1. /\ 0 \in Bits(W) /\ a \div 2 \in Bits(W)
      /\ \A n \in Nat : n <= W - 1 => pow2[n] \in Bits(W)
  <2>1. pow2[W] \in Nat /\ pow2[W] >= 1
    BY Pow2Pos
  <2>2. ASSUME NEW n \in Nat, n <= W - 1 PROVE pow2[n] < pow2[W]
    <3> DEFINE d == W - 1 - n
    <3>1. d \in Nat /\ W = (n + d) + 1 /\ n + d \in Nat
      BY <2>2
    <3> HIDE DEF d
    <3>2. pow2[(n + d) + 1] = 2 * pow2[n + d] /\ pow2[n + d] = pow2[n] * pow2[d]
      BY <3>1, Pow2Succ, Pow2Add
    <3>3. /\ pow2[n] \in Nat /\ pow2[n] >= 1 /\ pow2[d] \in Nat /\ pow2[d] >= 1
          /\ pow2[n] * pow2[d] >= pow2[n] /\ pow2[n] * pow2[d] \in Nat
      <4>1. pow2[n] \in Nat /\ pow2[n] >= 1 /\ pow2[d] \in Nat /\ pow2[d] >= 1
        BY <3>1, Pow2Pos
      <4> QED BY <4>1
    <3>4. pow2[W] = 2 * (pow2[n] * pow2[d])
      BY <3>1, <3>2
    <3> QED BY <3>3, <3>4
  <2>3. ASSUME NEW n \in Nat, n <= W - 1 PROVE pow2[n] \in Bits(W)
    BY <2>2, <2>3, Pow2Pos, IntRange
  <2>4. 0 \in Bits(W)
    BY <2>1, IntRange
  <2> QED BY <2>3, <2>4, IntRange
<1>2. /\ W - 2 \in Nat /\ nb_bits - 2 \in Nat /\ nb_bits - 1 \in Nat
      /\ W - 2 <= W - 1 /\ nb_bits - 2 <= W - 1 /\ nb_bits - 1 <= W - 1
      /\ nb_bits - 2 \in -1 .. nb_bits - 2 /\ nb_bits - 1 \in -1 .. nb_bits - 1
  OBVIOUS
<1>3. pow2[W - 2] \in Bits(W) /\ pow2[nb_bits - 2] \in Bits(W) /\ pow2[nb_bits - 1] \in Bits(W)
  BY <1>1, <1>2
<1> HIDE DEF W
<1> QED BY <1>1, <1>2, <1>3 DEF Routines, Locals, Frame

\* Where a call returns, only the value it returns matters.
LEMMA Returning ==
  ASSUME CallInv, UNCHANGED <<routine, arg>>, NEW r \in Bits(W), Return(r),
         frame' \in Locals(routine), Domain(routine, arg) => IsRoot(r, arg)
  PROVE  CallInv'
<1>1. frame' \in Frames
  BY LocalsAreFrames DEF CallInv, TypeOK
<1> QED BY <1>1 DEF CallInv, TypeOK, Return, RootReturned, Domain, Locals

\* A call of one of the routines on 0 or 1 returns it; on any other argument
\* the loop starts within its invariant.
LEMMA CallKeeps == CallInv /\ Call => CallInv'
<1> SUFFICES ASSUME CallInv, Call PROVE CallInv'
  OBVIOUS
<1>1. /\ pc = "ready" /\ frame = Frame(routine, arg) /\ UNCHANGED <<routine, arg, frame>>
      /\ arg \in Bits(W) /\ arg \in Nat /\ arg < pow2[W] /\ pow2[W] \in Nat
  BY WidthsFit DEF Call, CallInv, TypeOK, Bits
<1>2. CASE arg < 2
  <2>1. Return(arg) /\ frame' \in Locals(routine) /\ IsRoot(arg, arg)
    BY <1>1, <1>2, SmallRoots DEF Call, CallInv
  <2> QED BY <1>1, <2>1, Returning
<1>3. CASE arg >= 2
  <2>1. pc' = "running" /\ ret' = ret
    BY <1>1, <1>3 DEF Call
  <2>2. CASE routine = "sqrt1"
    <3> DEFINE h == arg \div 2
    <3>1. frame.res = h
      BY <1>1, <2>2 DEF Frame
    <3>2. h \in Nat /\ h >= 1 /\ arg <= 2 * h + 1
      BY <1>1, <1>3
    <3>3. (h + 1) * (h + 1) = h * h + 2 * h + 1 /\ h * h >= 1
      <4> HIDE DEF h
      <4> QED BY <3>2
    <3>4. NewtonBounded
      BY <1>1, <3>1, <3>2, <3>3 DEF NewtonBounded, NewtonAbove
    <3> QED BY <1>1, <1>3, <2>1, <2>2, <3>4
            DEF CallInv, TypeOK, Domain, RootReturned, NewtonBounded, NewtonAbove
  <2>3. CASE routine = "sqrt2"
    <3>1. PICK h \in Nat : /\ h = pow2[nb_bits - 2] /\ h >= 1 /\ pow2[nb_bits] = 4 * h
                           /\ pow2[nb_bits - 1 - 0] = 2 * h
                           /\ pow2[W] = (4 * h) * (4 * h)
      BY FirstBracket
    <3>2. pow2[W - 2] = (2 * h) * (2 * h) /\ nb_bits - 1 - 0 = nb_bits - 1
      <4>1. W - 2 = (nb_bits - 1) + (nb_bits - 1) /\ nb_bits - 1 \in Nat
        OBVIOUS
      <4>2. pow2[(nb_bits - 1) + (nb_bits - 1)] = pow2[nb_bits - 1] * pow2[nb_bits - 1]
        BY <4>1, Pow2Add
      <4>3. pow2[nb_bits - 1] = 2 * h
        BY <3>1
      <4> QED BY <4>1, <4>2, <4>3
    <3>3. /\ frame.x = pow2[W - 2] /\ frame.v = h /\ frame.z = 2 * h
          /\ frame.i = nb_bits - 2 /\ frame.i + 1 = nb_bits - 1
      BY <1>1, <2>3, <3>1 DEF Frame
    <3>4. pow2[frame.i + 1] = 2 * h /\ (2 * h) \div 2 = h
      BY <3>1, <3>3
    <3>5. SquareBracketed
      BY <1>1, <3>1, <3>2, <3>3, <3>4 DEF SquareBracketed
    <3> QED BY <1>1, <1>3, <2>1, <2>3, <3>5
            DEF CallInv, TypeOK, Domain, RootReturned, SquareBracketed
  <2>4. CASE routine = "sqrt3"
    <3> DEFINE y == pow2[2 * (frame.i + 1)]
    <3>1. /\ frame.Xio = arg /\ frame.z = 0 /\ frame.v = pow2[W - 2]
          /\ frame.i = nb_bits - 1 /\ 2 * (frame.i + 1) = W /\ nb_bits - 1 - frame.i = 0
      BY <1>1, <2>4 DEF Frame
    <3>2. pow2[W - 2] = y \div 4
      <4>1. W - 2 \in Nat /\ W = ((W - 2) + 1) + 1
        OBVIOUS
      <4>2. pow2[W] = 2 * (2 * pow2[W - 2]) /\ pow2[W - 2] \in Nat
        BY <4>1, Pow2Succ, Pow2Pos
      <4> QED BY <3>1, <4>2
    <3>3. 0 \in Bits(nb_bits - 1 - frame.i)
      BY <3>1, Pow2Zero DEF Bits
    <3>4. y = pow2[W]
      BY <3>1
    <3>5. DigitsKnown
      <4> HIDE DEF y
      <4>1. /\ frame.z = y * 0 /\ frame.v = y \div 4 /\ arg = frame.Xio + y * 0 * 0
            /\ frame.Xio < y * (2 * 0 + 1)
        BY <1>1, <3>1, <3>2, <3>4
      <4> QED BY <3>3, <4>1 DEF DigitsKnown, y
    <3> QED BY <1>1, <1>3, <2>1, <2>4, <3>5
            DEF CallInv, TypeOK, Domain, RootReturned, DigitsKnown
  <2>5. CASE routine = "sqrt4"
    <3>1. frame.min_ = 0 /\ frame.max_ = arg
      BY <1>1, <2>5 DEF Frame
    <3>2. arg < arg * arg
      BY <1>1, <1>3
    <3>3. ASSUME Domain(routine, arg) PROVE HalvedBounded
      BY <1>1, <1>3, <2>5, <3>1, <3>2, <3>3 DEF Domain, HalvedBounded, Halved
    <3> QED BY <1>1, <1>3, <2>1, <2>5, <3>3
            DEF CallInv, TypeOK, Domain, RootReturned, HalvedBounded, Halved
  <2> QED BY <2>2, <2>3, <2>4, <2>5 DEF CallInv, TypeOK, Routines
<1> QED BY <1>1, <1>2, <1>3

\* A round of sqrt1: the sum loses no bit, the next iterate is again not
\* below the root, and one that repeats is the root.
LEMMA NewtonKeeps == CallInv /\ Sqrt1Round => CallInv'
<1> SUFFICES ASSUME CallInv, Sqrt1Round PROVE CallInv'
  OBVIOUS
<1> DEFINE R == frame.res
           h == Next_R(arg, R)
<1>1. /\ pc = "running" /\ routine = "sqrt1" /\ UNCHANGED <<routine, arg>>
      /\ frame' = [res |-> Newton, pre_res |-> frame.res]
      /\ IF R # Newton THEN pc' = pc /\ ret' = ret ELSE Return(Newton)
  BY DEF Sqrt1Round, InRoutine, Continue
<1>2. /\ arg \in Nat /\ arg >= 2 /\ arg < pow2[W] /\ pow2[W] \in Nat
      /\ R \in Nat /\ R >= 1 /\ R \in Bits(W)
      /\ R <= arg \div 2 + 1 /\ arg < (R + 1) * (R + 1)
  BY <1>1, WidthsFit
     DEF CallInv, TypeOK, Domain, Locals, NewtonBounded, NewtonAbove, Bits
<1>3. /\ R + arg \div R \in Nat /\ R + arg \div R < pow2[W]
      /\ h \in Nat /\ h >= 1 /\ h <= arg \div 2 + 1 /\ arg < (h + 1) * (h + 1)
  <2> HIDE DEF R
  <2> QED BY <1>2, NewtonStep
<1>4. Newton = h
  <2> DEFINE t == R + arg \div R
  <2>1. t \in Nat /\ t < pow2[W] /\ W \in Nat
    BY <1>3
  <2> HIDE DEF t
  <2>2. Low(t, W) = t
    BY <2>1, LowFits
  <2> QED BY <2>2 DEF t, Newton, Next_R
<1> HIDE DEF h
<1>5. h \in Bits(W)
  <2>1. arg \div 2 + 1 <= arg
    BY <1>2
  <2> QED BY <1>2, <1>3, <2>1 DEF Bits
<1>6. /\ frame' \in Locals(routine) /\ frame' \in Frames
      /\ frame'.res = h
  BY <1>1, <1>2, <1>4, <1>5, LocalsAreFrames DEF Locals, Routines
<1>7. CASE R # Newton
  <2>1. NewtonBounded'
    BY <1>1, <1>3, <1>6 DEF NewtonBounded, NewtonAbove
  <2> QED BY <1>1, <1>6, <1>7, <2>1, <1>2 DEF CallInv, TypeOK, RootReturned
<1>8. CASE R = Newton
  <2>1. IsRoot(h, arg)
    BY <1>2, <1>4, <1>8, FixedPoint DEF h
  <2> QED BY <1>1, <1>4, <1>5, <1>6, <1>8, <2>1, Returning
<1> QED BY <1>7, <1>8

\* The bracket of sqrt2 around z, at a half width u, with H = 2^n.
Bracket(a, z, u, H) == /\ u <= z /\ z + u <= H
                       /\ (z - u) * (z - u) <= a /\ a < (z + u) * (z + u)

\* What sqrt2's invariant says at the head of a round.
LEMMA SquareRoundStart ==
  ASSUME CallInv, pc = "running", routine = "sqrt2"
  PROVE  /\ arg \in Nat /\ arg < pow2[W] /\ frame.z \in Nat /\ frame.z \in Bits(W)
         /\ frame.i \in -1 .. nb_bits - 2 /\ pow2[nb_bits] \in Nat /\ pow2[W] \in Nat
         /\ frame = [x |-> frame.x, v |-> frame.v, z |-> frame.z, i |-> frame.i]
         /\ frame.x = frame.z * frame.z
         /\ frame.i >= 0 => \E u \in Nat :
               /\ u >= 1 /\ pow2[frame.i + 1] = 2 * u /\ pow2[frame.i] = u /\ frame.v = u
               /\ Bracket(arg, frame.z, 2 * u, pow2[nb_bits])
         /\ frame.i < 0 => Bracket(arg, frame.z, 1, pow2[nb_bits])
<1>1. /\ arg \in Nat /\ arg < pow2[W] /\ frame.z \in Nat /\ frame.z \in Bits(W)
      /\ frame.i \in -1 .. nb_bits - 2 /\ pow2[nb_bits] \in Nat /\ pow2[W] \in Nat
      /\ frame = [x |-> frame.x, v |-> frame.v, z |-> frame.z, i |-> frame.i]
  BY WidthsFit DEF CallInv, TypeOK, Locals, Bits
<1>2. SquareBracketed
  BY DEF CallInv, Domain
<1>3. ASSUME frame.i >= 0
      PROVE  \E u \in Nat :
               /\ u >= 1 /\ pow2[frame.i + 1] = 2 * u /\ pow2[frame.i] = u /\ frame.v = u
               /\ Bracket(arg, frame.z, 2 * u, pow2[nb_bits])
  <2> DEFINE u == pow2[frame.i]
  <2>1. frame.i \in Nat
    BY <1>1, <1>3
  <2>2. u \in Nat /\ u >= 1 /\ pow2[frame.i + 1] = 2 * u
    BY <2>1, Pow2Pos, Pow2Succ
  <2> HIDE DEF u
  <2>3. frame.v = u
    BY <1>2, <2>2 DEF SquareBracketed
  <2> QED BY <1>2, <2>2, <2>3 DEF SquareBracketed, Bracket, u
<1>4. ASSUME frame.i < 0 PROVE Bracket(arg, frame.z, 1, pow2[nb_bits])
  <2>1. pow2[frame.i + 1] = 1
    BY <1>1, <1>4, Pow2Zero
  <2> QED BY <1>2, <2>1 DEF SquareBracketed, Bracket
<1> QED BY <1>1, <1>2, <1>3, <1>4 DEF SquareBracketed

\* The end of a round that moved the candidate to z.
LEMMA SquareRoundEnd ==
  ASSUME CallInv, pc = "running", routine = "sqrt2", UNCHANGED <<pc, routine, arg, ret>>,
         frame.i \in 0 .. nb_bits - 2, NEW u \in Nat, u >= 1, u = pow2[frame.i],
         NEW z \in Nat, Bracket(arg, z, u, pow2[nb_bits]),
         frame' = [x |-> z * z, v |-> u \div 2, z |-> z, i |-> frame.i - 1]
  PROVE  CallInv'
<1>1. /\ frame'.x = z * z /\ frame'.v = u \div 2 /\ frame'.z = z
      /\ frame'.i = frame.i - 1 /\ frame'.i + 1 = frame.i
  OBVIOUS
<1>2. pow2[frame'.i + 1] = u
  BY <1>1
<1>3. z < pow2[nb_bits] /\ pow2[nb_bits] \in Nat /\ pow2[nb_bits] <= pow2[W] /\ pow2[W] \in Nat
  BY WidthsFit DEF Bracket
<1>4. z * z \in Nat /\ z * z < pow2[W] /\ z < pow2[W] /\ u \div 2 \in Nat /\ u \div 2 < pow2[W]
  BY <1>3, SquareFits DEF Bracket
<1>5. frame' \in Locals(routine) /\ frame' \in Frames
  <2>1. z * z \in Bits(W) /\ z \in Bits(W) /\ u \div 2 \in Bits(W)
    BY <1>4, IntRange
  <2>2. frame.i - 1 \in -1 .. nb_bits - 2
    OBVIOUS
  <2>3. frame' \in Locals(routine)
    BY <2>1, <2>2 DEF Locals
  <2> QED BY <2>3, LocalsAreFrames DEF Routines
<1>6. SquareBracketed'
  BY <1>1, <1>2 DEF SquareBracketed, Bracket
<1>7. /\ TypeOK' /\ arg' = arg /\ routine' = "sqrt2" /\ pc' = "running"
      /\ frame' \in Locals(routine')
  BY <1>5 DEF CallInv, TypeOK
<1>8. arg >= 2
  BY DEF CallInv, Domain
<1> QED BY <1>6, <1>7, <1>8 DEF CallInv, RootReturned

\* A round of sqrt2: the candidate moves by u towards the root, its square
\* follows without a squaring and without losing a bit.
LEMMA SquareKeeps == CallInv /\ Sqrt2Round => CallInv'
<1> SUFFICES ASSUME CallInv, Sqrt2Round PROVE CallInv'
  OBVIOUS
<1>1. /\ pc = "running" /\ routine = "sqrt2" /\ UNCHANGED <<pc, routine, arg, ret>>
      /\ frame.i >= 0
  BY DEF Sqrt2Round, InRoutine, Continue, Looping
<1>2. /\ arg \in Nat /\ arg < pow2[W] /\ frame.z \in Nat /\ frame.z \in Bits(W)
      /\ frame.i \in 0 .. nb_bits - 2 /\ pow2[nb_bits] \in Nat /\ pow2[W] \in Nat
      /\ frame = [x |-> frame.x, v |-> frame.v, z |-> frame.z, i |-> frame.i]
      /\ frame.x = frame.z * frame.z
  BY <1>1, SquareRoundStart
<1>3. PICK u \in Nat :
        /\ u >= 1 /\ pow2[frame.i + 1] = 2 * u /\ pow2[frame.i] = u /\ frame.v = u
        /\ Bracket(arg, frame.z, 2 * u, pow2[nb_bits])
  BY <1>1, SquareRoundStart
<1> DEFINE Z == frame.z
           H == pow2[nb_bits]
<1>4. /\ Z \in Nat /\ H \in Nat /\ H <= pow2[W] /\ W \in Nat
      /\ 2 * u <= Z /\ Z + 2 * u <= H
      /\ (Z - 2 * u) * (Z - 2 * u) <= arg /\ arg < (Z + 2 * u) * (Z + 2 * u)
  BY <1>2, <1>3, WidthsFit DEF Bracket
<1> HIDE DEF Z, H
<1>5. /\ Z * Z + u * (u - 2 * Z) = (Z - u) * (Z - u)
      /\ Z * Z + u * (u + 2 * Z) = (Z + u) * (Z + u)
      /\ Z - u \in Nat /\ u <= Z - u /\ Z + u + u <= H
      /\ ((Z - u) - u) * ((Z - u) - u) <= arg
      /\ arg < ((Z + u) + u) * ((Z + u) + u)
      /\ (Z - u) * (Z - u) <= Z * Z /\ Z * Z < (Z + u) * (Z + u)
  BY <1>2, <1>3, <1>4, BracketStep
<1>6. ASSUME NEW z \in Nat, z < H, NEW b \in Int, Z * Z + u * b = z * z
      PROVE  Low(Z * Z + u * Low(b, W), W) = z * z /\ Low(z, W) = z
  <2>1. z * z < pow2[W] /\ z < pow2[W] /\ z * z \in Nat
    BY <1>6, SquareFits DEF H
  <2>2. Z * Z \in Int /\ u \in Int
    BY <1>4
  <2> HIDE DEF W
  <2>3. Low(Z * Z + u * Low(b, W), W) = z * z
    <3> DEFINE x == Z * Z
               r == z * z
    <3>1. /\ x \in Int /\ r \in Nat /\ r < pow2[W] /\ r = MulAdd(x, u, b)
          /\ u \in Int /\ W \in Nat
      BY <1>4, <1>6, <2>1, <2>2 DEF MulAdd
    <3> HIDE DEF x, r
    <3>2. Low(MulAdd(x, u, Low(b, W)), W) = r
      BY <3>1, LowOfProduct
    <3> QED BY <3>2 DEF x, r, MulAdd
  <2> QED BY <1>4, <2>1, <2>3, LowFits
<1>7. CASE frame.x > arg
  <2>1. frame' = [x |-> SquareStep(-1), z |-> Low(Z - u, W), v |-> u \div 2, i |-> frame.i - 1]
    BY <1>1, <1>2, <1>3, <1>7 DEF Sqrt2Round, Z
  <2>2. SquareStep(-1) = (Z - u) * (Z - u) /\ Low(Z - u, W) = Z - u
    <3>1. Z - u < H /\ u + (-1) * 2 * Z = u - 2 * Z /\ u - 2 * Z \in Int
      BY <1>3, <1>4
    <3>2. Low(Z * Z + u * Low(u - 2 * Z, W), W) = (Z - u) * (Z - u) /\ Low(Z - u, W) = Z - u
      BY <1>5, <1>6, <3>1
    <3>3. SquareStep(-1) = Low(Z * Z + u * Low(u + (-1) * 2 * Z, W), W)
      BY <1>2, <1>3 DEF SquareStep, Z
    <3> QED BY <3>1, <3>2, <3>3
  <2>3. Bracket(arg, Z - u, u, H)
    <3>1. Z - u + u <= H /\ (Z - u) + u = Z
      BY <1>4, <1>5
    <3>2. arg < Z * Z
      BY <1>2, <1>4, <1>7 DEF Z
    <3> QED BY <1>5, <3>1, <3>2 DEF Bracket
  <2> HIDE DEF W
  <2> QED BY <1>1, <1>2, <1>3, <1>5, <2>1, <2>2, <2>3, SquareRoundEnd DEF H
<1>8. CASE frame.x < arg
  <2>1. frame' = [x |-> SquareStep(1), z |-> Low(Z + u, W), v |-> u \div 2, i |-> frame.i - 1]
    BY <1>1, <1>2, <1>3, <1>8 DEF Sqrt2Round, Z
  <2>2. SquareStep(1) = (Z + u) * (Z + u) /\ Low(Z + u, W) = Z + u
    <3>1. Z + u < H /\ Z + u \in Nat /\ u + 1 * 2 * Z = u + 2 * Z /\ u + 2 * Z \in Int
      BY <1>3, <1>4, <1>5
    <3>2. Low(Z * Z + u * Low(u + 2 * Z, W), W) = (Z + u) * (Z + u) /\ Low(Z + u, W) = Z + u
      BY <1>5, <1>6, <3>1
    <3>3. SquareStep(1) = Low(Z * Z + u * Low(u + 1 * 2 * Z, W), W)
      BY <1>2, <1>3 DEF SquareStep, Z
    <3> QED BY <3>1, <3>2, <3>3
  <2>3. Bracket(arg, Z + u, u, H) /\ Z + u \in Nat
    <3>1. u <= Z + u /\ (Z + u) - u = Z /\ Z + u \in Nat
      BY <1>4, <1>5
    <3>2. Z * Z <= arg
      BY <1>2, <1>4, <1>8 DEF Z
    <3> QED BY <1>5, <3>1, <3>2 DEF Bracket
  <2> HIDE DEF W
  <2> QED BY <1>1, <1>2, <1>3, <2>1, <2>2, <2>3, SquareRoundEnd DEF H
<1>9. CASE frame.x = arg
  <2>1. frame' = [x |-> Z * Z, v |-> u \div 2, z |-> Z, i |-> frame.i - 1]
    <3>1. frame' = [frame EXCEPT !.v = frame.v \div 2, !.i = frame.i - 1]
      <4>1. ~(frame.x > arg) /\ ~(frame.x < arg)
        BY <1>2, <1>9
      <4> QED BY <4>1 DEF Sqrt2Round
    <3>2. frame' = [x |-> frame.x, v |-> frame.v \div 2, z |-> frame.z, i |-> frame.i - 1]
      BY <1>2, <3>1
    <3> QED BY <1>2, <1>3, <3>2 DEF Z
  <2>2. Bracket(arg, Z, u, H)
    <3>1. arg = Z * Z /\ u <= Z /\ Z + u <= H
      BY <1>2, <1>4, <1>9 DEF Z
    <3> QED BY <1>5, <3>1 DEF Bracket
  <2> HIDE DEF W
  <2> QED BY <1>1, <1>2, <1>3, <1>4, <2>1, <2>2, SquareRoundEnd DEF H
<1> QED
  <2>1. Z * Z \in Int /\ frame.x = Z * Z
    BY <1>2, <1>4 DEF Z
  <2> QED BY <1>2, <1>7, <1>8, <1>9, <2>1

\* The end of sqrt2: the candidate is the root or one above it.
LEMMA SquareEnds == CallInv /\ Sqrt2End => CallInv'
<1> SUFFICES ASSUME CallInv, Sqrt2End PROVE CallInv'
  OBVIOUS
<1>1. /\ pc = "running" /\ routine = "sqrt2" /\ UNCHANGED <<routine, arg, frame>>
      /\ Return(Corrected) /\ frame' \in Locals(routine) /\ ~(frame.i >= 0)
  BY DEF Sqrt2End, InRoutine, Looping, CallInv
<1>2. /\ arg \in Nat /\ frame.z \in Nat /\ frame.z \in Bits(W) /\ frame.i < 0
      /\ frame.x = frame.z * frame.z /\ Bracket(arg, frame.z, 1, pow2[nb_bits])
  BY <1>1, SquareRoundStart
<1>3. /\ frame.z >= 1 /\ (frame.z - 1) * (frame.z - 1) <= arg
      /\ arg < (frame.z + 1) * (frame.z + 1)
  BY <1>2 DEF Bracket
<1>4. frame.z - 1 \in Bits(W) /\ Low(frame.z - 1, W) = frame.z - 1
  <2>1. frame.z - 1 \in Nat /\ frame.z - 1 < pow2[W] /\ W \in Nat
    BY <1>2, <1>3, WidthsFit DEF Bits
  <2> QED BY <2>1, LowFits, IntRange
<1>5. Corrected \in Bits(W) /\ IsRoot(Corrected, arg)
  <2>1. CASE frame.x > arg
    <3>1. (frame.z - 1) + 1 = frame.z
      BY <1>2
    <3> QED BY <1>2, <1>3, <1>4, <2>1, <3>1 DEF Corrected, IsRoot
  <2>2. CASE ~(frame.x > arg)
    BY <1>2, <1>3, <2>2 DEF Corrected, IsRoot
  <2> QED BY <2>1, <2>2
<1> QED BY <1>1, <1>5, Returning

-----------------------------------------------------------------------------
(* sqrt3 *)

\* The trial difference of sqrt3 is read by its sign bit. With m digits below
\* p known at the weight 4 * u, both the difference and its amount stay below
\* half the range T = 4 * u * p * p, except that the first trial, with p = 1,
\* needs an argument below 3 * u.
LEMMA SignBit ==
  ASSUME NEW u \in Nat, u >= 1, NEW p \in Nat, p = 1 \/ p >= 2, NEW m \in Nat, m < p,
         NEW X \in Nat, X < (4 * u) * (2 * m + 1), p = 1 => X < 3 * u,
         NEW t \in Nat, t = (4 * u) * m + u
  PROVE  /\ X - t < (2 * u) * p * p /\ t - X <= (2 * u) * p * p
         /\ (4 * u) * p * p = 2 * ((2 * u) * p * p) /\ (2 * u) * p * p \in Nat
         /\ t + u < (4 * u) * p * p
<1> DEFINE g == u * m
           j == u * p
<1>1. g \in Nat /\ j \in Nat /\ g + u <= j
  <2>1. u * (m + 1) <= u * p
    OBVIOUS
  <2>2. u * (m + 1) = u * m + u
    OBVIOUS
  <2> QED BY <2>1, <2>2
<1>2. t = 4 * g + u /\ X < 8 * g + 4 * u
  <2>1. (4 * u) * m = 4 * (u * m) /\ (4 * u) * (2 * m + 1) = 8 * (u * m) + 4 * u
    OBVIOUS
  <2> QED BY <2>1
<1>3. (2 * u) * p * p = 2 * (j * p) /\ (4 * u) * p * p = 4 * (j * p) /\ j * p \in Nat
  <2>1. (2 * u) * p * p = 2 * ((u * p) * p) /\ (4 * u) * p * p = 4 * ((u * p) * p)
    OBVIOUS
  <2> HIDE DEF j
  <2>2. j * p \in Nat
    BY <1>1
  <2> QED BY <2>1, <2>2 DEF j
<1>4. CASE p = 1
  <2>1. g = 0 /\ j = u
    BY <1>4
  <2> HIDE DEF g, j
  <2> QED BY <1>2, <1>3, <1>4, <2>1
<1>5. CASE p >= 2
  <2> HIDE DEF g, j
  <2>1. j * p >= 2 * j
    BY <1>1, <1>5
  <2> QED BY <1>1, <1>2, <1>3, <2>1
<1> QED BY <1>4, <1>5

\* The sign bit of a difference whose amount is at most half the range tells
\* its sign, and a difference that is not negative is kept.
LEMMA SignOfDifference ==
  ASSUME NEW X \in Nat, NEW t \in Nat, NEW T \in Nat, T >= 1, pow2[W] = 2 * T,
         X - t < T, t - X <= T
  PROVE  /\ 2 * Low(X - t, W) < pow2[W] <=> X >= t
         /\ X >= t => Low(X - t, W) = X - t
<1>1. W \in Nat
  OBVIOUS
<1> HIDE DEF W
<1>2. CASE X >= t
  <2>1. X - t \in Nat /\ X - t < pow2[W]
    BY <1>2
  <2>2. Low(X - t, W) = X - t
    BY <1>1, <2>1, LowFits
  <2> QED BY <1>2, <2>2
<1>3. CASE X < t
  <2> DEFINE x == X - t
             r == 2 * T + x
  <2>1. x \in Int /\ r \in Nat /\ r < 2 * T /\ r >= T /\ 2 * T \in Nat
    BY <1>3
  <2>2. x = MulAdd(r, -1, 2 * T)
    BY DEF MulAdd
  <2> HIDE DEF x, r
  <2>3. x % (2 * T) = r
    BY <2>1, <2>2, ModUnique
  <2>4. Low(x, W) = r
    BY <2>3 DEF Low
  <2>5. ~(2 * Low(x, W) < pow2[W])
    BY <2>1, <2>4
  <2> QED BY <1>3, <2>5 DEF x
<1> QED BY <1>2, <1>3

\* What sqrt3's invariant says at the head of a round.
LEMMA DigitRoundStart ==
  ASSUME CallInv, pc = "running", routine = "sqrt3", Domain(routine, arg)
  PROVE  /\ arg \in Nat /\ frame.Xio \in Nat /\ frame.z \in Nat /\ frame.v \in Nat
         /\ frame.i \in -1 .. nb_bits - 1
         /\ frame = [Xio |-> frame.Xio, v |-> frame.v, z |-> frame.z, i |-> frame.i]
         /\ frame.i < 0 => IsRoot(frame.z, arg)
         /\ frame.i >= 0 => \E u, p, m \in Nat :
              /\ u >= 1 /\ (p = 1 \/ p >= 2) /\ m < p /\ p = pow2[nb_bits - 1 - frame.i]
              /\ pow2[2 * frame.i] = u /\ pow2[W] = (4 * u) * p * p
              /\ frame.z = (4 * u) * m /\ frame.v = u
              /\ arg = frame.Xio + (4 * u) * m * m
              /\ frame.Xio < (4 * u) * (2 * m + 1)
              /\ (p = 1 => frame.Xio < 3 * u)
<1>1. /\ arg \in Nat /\ frame.Xio \in Nat /\ frame.z \in Nat /\ frame.v \in Nat
      /\ frame.i \in -1 .. nb_bits - 1
      /\ frame = [Xio |-> frame.Xio, v |-> frame.v, z |-> frame.z, i |-> frame.i]
  BY DEF CallInv, TypeOK, Locals, Bits
<1>2. PICK m \in Bits(nb_bits - 1 - frame.i) :
        /\ frame.z = pow2[2 * (frame.i + 1)] * m
        /\ frame.v = pow2[2 * (frame.i + 1)] \div 4
        /\ arg = frame.Xio + pow2[2 * (frame.i + 1)] * m * m
        /\ frame.Xio < pow2[2 * (frame.i + 1)] * (2 * m + 1)
  BY DEF CallInv, DigitsKnown
<1>3. m \in Nat /\ m < pow2[nb_bits - 1 - frame.i]
  BY <1>1, <1>2, Pow2Pos DEF Bits
<1>4. ASSUME frame.i < 0 PROVE IsRoot(frame.z, arg)
  <2>1. pow2[2 * (frame.i + 1)] = 1
    BY <1>1, <1>4, Pow2Zero
  <2>2. frame.z = m
    BY <1>2, <1>3, <2>1
  <2> QED BY <1>1, <1>2, <1>3, <2>1, <2>2, LastDigit
<1>5. ASSUME frame.i >= 0
      PROVE  \E u, p, n \in Nat :
              /\ u >= 1 /\ (p = 1 \/ p >= 2) /\ n < p /\ p = pow2[nb_bits - 1 - frame.i]
              /\ pow2[2 * frame.i] = u /\ pow2[W] = (4 * u) * p * p
              /\ frame.z = (4 * u) * n /\ frame.v = u
              /\ arg = frame.Xio + (4 * u) * n * n
              /\ frame.Xio < (4 * u) * (2 * n + 1)
              /\ (p = 1 => frame.Xio < 3 * u)
  <2> DEFINE d == nb_bits - 1 - frame.i
             p == pow2[d]
  <2>1. /\ d \in 0 .. nb_bits - 1 /\ d \in Nat /\ 2 * (nb_bits - d) = 2 * (frame.i + 1)
        /\ 2 * (nb_bits - (d + 1)) = 2 * frame.i
    BY <1>1, <1>5
  <2> HIDE DEF d
  <2>2. PICK u \in Nat : /\ u >= 1 /\ pow2[2 * (nb_bits - d)] = 4 * u
                         /\ pow2[2 * (nb_bits - (d + 1))] = u
    BY <2>1, WeightStep
  <2>3. pow2[2 * (frame.i + 1)] = 4 * u /\ pow2[2 * frame.i] = u
    BY <2>1, <2>2
  <2>4. pow2[W] = (4 * u) * p * p
    <3>1. d \in 0 .. nb_bits
      BY <2>1
    <3> QED BY <2>2, <3>1, WeightBound
  <2>5. p \in Nat /\ ((d = 0 /\ p = 1) \/ (d >= 1 /\ p >= 2))
    <3>1. CASE d = 0
      BY <3>1, Pow2Zero
    <3>2. CASE d >= 1
      <4>1. d - 1 \in Nat /\ d = (d - 1) + 1
        BY <2>1, <3>2
      <4>2. pow2[d] = 2 * pow2[d - 1] /\ pow2[d - 1] \in Nat /\ pow2[d - 1] >= 1
        BY <4>1, Pow2Succ, Pow2Pos
      <4> QED BY <3>2, <4>2
    <3> QED BY <2>1, <3>1, <3>2
  <2>6. m < p
    BY <1>3 DEF d
  <2>7. p = 1 => frame.Xio < 3 * u
    <3> SUFFICES ASSUME p = 1 PROVE frame.Xio < 3 * u
      OBVIOUS
    <3>1. m = 0 /\ d = 0
      BY <1>3, <2>5, <2>6
    <3>2. W - 2 = 2 * frame.i /\ arg < 3 * pow2[W - 2]
      BY <1>1, <2>1, <3>1 DEF Domain
    <3>3. arg = frame.Xio
      BY <1>1, <1>2, <2>2, <2>3, <3>1
    <3> QED BY <2>3, <3>2, <3>3
  <2>8. (4 * u) \div 4 = u
    BY <2>2
  <2>9. /\ frame.z = (4 * u) * m /\ frame.v = u
        /\ arg = frame.Xio + (4 * u) * m * m
        /\ frame.Xio < (4 * u) * (2 * m + 1)
    BY <1>2, <2>3, <2>8
  <2>10. p = pow2[nb_bits - 1 - frame.i]
    BY DEF d
  <2> HIDE DEF p
  <2> QED BY <1>3, <2>2, <2>3, <2>4, <2>5, <2>6, <2>7, <2>9, <2>10
<1> QED BY <1>1, <1>4, <1>5

\* A round of sqrt3 finds one digit: with the sign bit telling whether the
\* weight fits, and no sum or difference losing a bit.
LEMMA DigitKeeps == CallInv /\ Sqrt3Round => CallInv'
<1> SUFFICES ASSUME CallInv, Sqrt3Round PROVE CallInv'
  OBVIOUS
<1>1. /\ pc = "running" /\ routine = "sqrt3" /\ UNCHANGED <<pc, routine, arg, ret>>
      /\ frame.i >= 0
  BY DEF Sqrt3Round, InRoutine, Continue, Looping
<1>2. /\ frame = [Xio |-> frame.Xio, v |-> frame.v, z |-> frame.z, i |-> frame.i]
      /\ frame.Xio \in Bits(W) /\ frame.v \in Bits(W) /\ frame.z \in Bits(W)
      /\ frame.Xio \in Nat /\ frame.v \in Nat /\ frame.z \in Nat
      /\ frame.i \in 0 .. nb_bits - 1 /\ arg \in Nat
  BY <1>1 DEF CallInv, TypeOK, Locals, Bits
<1>3. /\ Fits => frame' = [Xio |-> Low(frame.Xio - frame.z - frame.v, W),
                          z |-> Low(frame.z + 2 * frame.v, W) \div 2,
                          v |-> frame.v \div 4, i |-> frame.i - 1]
      /\ ~ Fits => frame' = [Xio |-> frame.Xio, z |-> frame.z \div 2,
                            v |-> frame.v \div 4, i |-> frame.i - 1]
  <2>1. ~ Fits => frame' = [frame EXCEPT !.z = frame.z \div 2, !.v = frame.v \div 4,
                                         !.i = frame.i - 1]
    BY DEF Sqrt3Round
  <2> QED BY <1>2, <2>1 DEF Sqrt3Round
<1>4. frame' \in Locals(routine) /\ frame' \in Frames
  <2>1. /\ Low(frame.Xio - frame.z - frame.v, W) \in Bits(W)
        /\ Low(frame.z + 2 * frame.v, W) \in Bits(W)
    <3>1. frame.Xio - frame.z - frame.v \in Int /\ frame.z + 2 * frame.v \in Int
      BY <1>2
    <3> QED BY <3>1, IntRange
  <2>2. /\ Low(frame.z + 2 * frame.v, W) \div 2 \in Bits(W)
        /\ frame.v \div 4 \in Bits(W) /\ frame.z \div 2 \in Bits(W)
    BY <1>2, <2>1, IntRange
  <2>3. frame.i - 1 \in -1 .. nb_bits - 1
    BY <1>2
  <2>4. frame' \in Locals("sqrt3")
    <3> HIDE DEF W
    <3> QED BY <1>2, <1>3, <2>1, <2>2, <2>3 DEF Locals
  <2> QED BY <1>1, <2>4, LocalsAreFrames DEF Routines
<1>5. ASSUME Domain(routine, arg) PROVE DigitsKnown'
  <2>1. PICK u, p, m \in Nat :
              /\ u >= 1 /\ (p = 1 \/ p >= 2) /\ m < p /\ p = pow2[nb_bits - 1 - frame.i]
              /\ pow2[2 * frame.i] = u /\ pow2[W] = (4 * u) * p * p
              /\ frame.z = (4 * u) * m /\ frame.v = u
              /\ arg = frame.Xio + (4 * u) * m * m
              /\ frame.Xio < (4 * u) * (2 * m + 1)
              /\ (p = 1 => frame.Xio < 3 * u)
    BY <1>1, <1>5, DigitRoundStart
  <2> DEFINE X == frame.Xio
             t == (4 * u) * m + u
             T == (2 * u) * p * p
             d == (4 * u) * m
  <2>2. /\ X \in Nat /\ t \in Nat /\ T \in Nat /\ T >= 1 /\ pow2[W] = 2 * T
        /\ X - t < T /\ t - X <= T /\ t + u < 2 * T
    <3>1. X \in Nat /\ t \in Nat
      BY <1>2
    <3> HIDE DEF X, t
    <3>2. /\ X - t < T /\ t - X <= T /\ (4 * u) * p * p = 2 * T /\ T \in Nat
          /\ t + u < (4 * u) * p * p
      BY <2>1, <3>1, SignBit DEF X, t
    <3> HIDE DEF T
    <3>3. 2 * T >= 1
      BY <2>1, <3>1, <3>2
    <3> QED BY <2>1, <3>1, <3>2, <3>3
  <2>3. /\ d \div 2 = u * (2 * m)
        /\ X < d + u => /\ arg = X + u * (2 * m) * (2 * m)
                       /\ X < u * (2 * (2 * m) + 1)
        /\ X >= d + u => /\ u * (2 * m) + u = u * (2 * m + 1)
                        /\ arg = (X - d - u) + u * (2 * m + 1) * (2 * m + 1)
                        /\ X - d - u < u * (2 * (2 * m + 1) + 1)
    BY <1>2, <2>1, DigitStep
  <2>4. t = d + u /\ d \in Nat /\ W \in Nat
    OBVIOUS
  <2> HIDE DEF t, T, X, d
  <2>5. Fits <=> X >= t
    <3>1. 2 * Low(X - t, W) < pow2[W] <=> X >= t
      BY <2>2, SignOfDifference
    <3>2. Low(t, W) = t
      <4> HIDE DEF W
      <4> QED BY <2>2, <2>4, LowFits
    <3>3. frame.z + frame.v = t
      BY <2>1, <2>4 DEF d
    <3> QED BY <3>1, <3>2, <3>3 DEF Fits, X
  <2>6. /\ frame'.i = frame.i - 1 /\ frame'.v = u \div 4
        /\ 2 * (frame'.i + 1) = 2 * frame.i
    BY <1>2, <1>3, <2>1
  <2>7. /\ 2 * m \in Bits(nb_bits - 1 - frame'.i)
        /\ 2 * m + 1 \in Bits(nb_bits - 1 - frame'.i)
    <3>1. nb_bits - 1 - frame'.i = (nb_bits - 1 - frame.i) + 1 /\ nb_bits - 1 - frame.i \in Nat
      BY <1>2, <2>6
    <3>2. pow2[nb_bits - 1 - frame'.i] = 2 * p
      BY <2>1, <3>1, Pow2Succ
    <3> QED BY <2>1, <3>2 DEF Bits
  <2>8. pow2[2 * (frame'.i + 1)] = u
    BY <2>1, <2>6
  <2>9. CASE X >= t
    <3>1. frame'.Xio = X - d - u
      <4>1. frame'.Xio = Low(X - d - u, W)
        BY <1>2, <1>3, <2>1, <2>5, <2>9 DEF X, d
      <4>2. X - d - u = X - t
        BY <2>2, <2>4
      <4>3. Low(X - t, W) = X - t
        BY <2>2, <2>9, SignOfDifference
      <4> QED BY <4>1, <4>2, <4>3
    <3>2. frame'.z = u * (2 * m + 1)
      <4>1. frame'.z = Low(t + u, W) \div 2
        <5>1. frame.z + 2 * frame.v = t + u
          BY <2>1, <2>4 DEF d
        <5> QED BY <1>3, <2>5, <2>9, <5>1
      <4>2. Low(t + u, W) = t + u
        <5>1. t + u \in Nat /\ t + u < pow2[W]
          BY <2>2
        <5> HIDE DEF W
        <5> QED BY <2>4, <5>1, LowFits
      <4>3. (t + u) \div 2 = d \div 2 + u
        BY <2>4
      <4> QED BY <2>3, <2>4, <2>9, <4>1, <4>2, <4>3
    <3>3. /\ arg = frame'.Xio + u * (2 * m + 1) * (2 * m + 1)
          /\ frame'.Xio < u * (2 * (2 * m + 1) + 1)
      BY <2>3, <2>4, <2>9, <3>1
    <3> QED BY <1>1, <2>6, <2>7, <2>8, <3>2, <3>3 DEF DigitsKnown
  <2>10. CASE X < t
    <3>1. frame'.Xio = X /\ frame'.z = u * (2 * m)
      BY <1>3, <2>1, <2>2, <2>3, <2>5, <2>10 DEF X, d
    <3>2. /\ arg = frame'.Xio + u * (2 * m) * (2 * m)
          /\ frame'.Xio < u * (2 * (2 * m) + 1)
      BY <2>3, <2>4, <2>10, <3>1
    <3> QED BY <1>1, <2>6, <2>7, <2>8, <3>1, <3>2 DEF DigitsKnown
  <2> QED BY <2>2, <2>9, <2>10
<1>6. TypeOK' /\ frame' \in Locals(routine')
  BY <1>1, <1>4 DEF CallInv, TypeOK
<1> QED BY <1>1, <1>5, <1>6 DEF CallInv, RootReturned, Domain

\* The end of sqrt3: all digits are known.
LEMMA DigitEnds == CallInv /\ Sqrt3End => CallInv'
<1> SUFFICES ASSUME CallInv, Sqrt3End PROVE CallInv'
  OBVIOUS
<1>1. /\ pc = "running" /\ routine = "sqrt3" /\ UNCHANGED <<routine, arg, frame>>
      /\ Return(frame.z) /\ frame' \in Locals(routine) /\ ~(frame.i >= 0)
  BY DEF Sqrt3End, InRoutine, Looping, CallInv
<1>2. frame.z \in Bits(W) /\ frame.i \in -1 .. nb_bits - 1
  BY <1>1 DEF CallInv, Locals
<1>3. Domain(routine, arg) => IsRoot(frame.z, arg)
  BY <1>1, <1>2, DigitRoundStart
<1> QED BY <1>1, <1>2, <1>3, Returning

-----------------------------------------------------------------------------
(* sqrt4 *)

\* The bracket min .. max of sqrt4 around the root of a, with H = 2^n.
Between(a, l, h, H) == /\ l * l < a /\ a < h * h /\ l < h
                       /\ h <= a /\ l + h < 2 * H

\* The middle of the bracket has a square that loses no bit, and replaces
\* either end: also at the widths where the lower end overtakes 2^n / 2.
LEMMA MiddleStep ==
  ASSUME NEW a \in Nat, NEW l \in Nat, NEW h \in Nat, NEW H \in Nat,
         H = 4 \/ H >= 8, a < 2 * H, Between(a, l, h, H), h - l > 1,
         NEW m \in Nat, m = (l + h) \div 2
  PROVE  /\ l < m /\ m < h /\ m < H
         /\ m * m < a => Between(a, m, h, H)
         /\ a < m * m => Between(a, l, m, H)
<1>1. 2 * m <= l + h /\ l + h <= 2 * m + 1
  OBVIOUS
<1>2. l < m /\ m < h /\ m < H
  BY <1>1 DEF Between
<1>3. a < m * m => Between(a, l, m, H)
  BY <1>2 DEF Between
<1>4. ASSUME m * m < a PROVE m + h < 2 * H
  <2>1. CASE h <= H
    BY <1>2, <2>1
  <2>2. CASE h > H
    <3>1. 2 * m >= H
      BY <1>1, <2>2
    <3>2. CASE H >= 8
      <4>1. m >= 4 /\ 4 * m <= m * m /\ m * m \in Nat
        <5>1. m >= 4
          BY <3>1, <3>2
        <5>2. 4 * m <= m * m /\ m * m \in Nat
          BY <5>1
        <5> QED BY <5>1, <5>2
      <4> QED BY <1>4, <3>1, <4>1
    <3>3. CASE H = 4
      <4>1. m = 2
        <5>1. m >= 2 /\ (m >= 3 => m * m >= 3 * m)
          BY <3>1, <3>3
        <5>2. ASSUME m >= 3 PROVE FALSE
          <6>1. m * m >= 9 /\ m * m \in Nat
            BY <5>1, <5>2
          <6> QED BY <1>4, <3>3, <6>1
        <5> QED BY <5>1, <5>2
      <4> QED BY <1>1, <3>3, <4>1
    <3> QED BY <3>2, <3>3
  <2> QED BY <2>1, <2>2
<1>5. m * m < a => Between(a, m, h, H)
  BY <1>2, <1>4 DEF Between
<1> QED BY <1>2, <1>3, <1>5

\* A round of sqrt4 halves the bracket; one that leaves it no wider than 1
\* has the root at its lower end.
LEMMA HalfKeeps == CallInv /\ Sqrt4Round => CallInv'
<1> SUFFICES ASSUME CallInv, Sqrt4Round PROVE CallInv'
  OBVIOUS
<1> DEFINE l == frame.min_
           h == frame.max_
           m == Middle
           H == pow2[nb_bits]
<1>1. /\ pc = "running" /\ routine = "sqrt4" /\ UNCHANGED <<routine, arg>>
      /\ frame = [min_ |-> l, max_ |-> h]
      /\ l \in Bits(W) /\ h \in Bits(W) /\ l \in Nat /\ h \in Nat /\ arg \in Nat
  BY DEF Sqrt4Round, InRoutine, CallInv, TypeOK, Locals, Bits
<1>2. m \in Bits(W) /\ m \in Nat
  <2>1. Low(l + h, W) \in Bits(W)
    <3>1. l + h \in Int
      BY <1>1
    <3> QED BY <3>1, IntRange
  <2> QED BY <2>1, IntRange DEF Middle
<1>3. ASSUME NEW f, f = [min_ |-> m, max_ |-> h] \/ f = [min_ |-> l, max_ |-> m] \/ f = frame
      PROVE  f \in Locals("sqrt4") /\ f \in Frames
  <2>1. f \in Locals("sqrt4")
    <3> HIDE DEF W, m, l, h
    <3> QED BY <1>1, <1>2, <1>3 DEF Locals
  <2> QED BY <2>1, LocalsAreFrames DEF Routines
<1>4. H \in Nat /\ (H = 4 \/ H >= 8) /\ pow2[W] = H * H /\ 4 * H <= H * H /\ W \in Nat
  <2>1. PICK g \in Nat : g >= 1 /\ H = 4 * g
    BY FirstBracket
  <2>2. H \in Nat /\ (H = 4 \/ H >= 8)
    <3> HIDE DEF H
    <3> QED BY <2>1
  <2>3. pow2[W] = H * H
    BY WidthsFit
  <2> HIDE DEF H
  <2> QED BY <2>2, <2>3
<1>5. ASSUME Domain(routine, arg)
      PROVE  /\ arg >= 2 /\ arg < 2 * H /\ h - l > 1 /\ Between(arg, l, h, H)
             /\ m = (l + h) \div 2 /\ l < m /\ m < h /\ Carre = m * m
             /\ m * m < arg => Between(arg, m, h, H)
             /\ arg < m * m => Between(arg, l, m, H)
  <2>1. /\ arg >= 2 /\ arg < 2 * H /\ h - l > 1 /\ Between(arg, l, h, H)
    BY <1>1, <1>5 DEF CallInv, HalvedBounded, Halved, Domain, Between
  <2>2. m = (l + h) \div 2
    <3>1. l + h \in Nat /\ l + h < pow2[W]
      <4> HIDE DEF l, h, m, H, W
      <4> QED BY <1>1, <1>4, <2>1 DEF Between
    <3>2. Low(l + h, W) = l + h
      <4> DEFINE b == l + h
      <4>1. b \in Nat /\ b < pow2[W]
        BY <3>1
      <4> HIDE DEF b, W
      <4>2. Low(b, W) = b
        BY <1>4, <4>1, LowFits
      <4> QED BY <4>2 DEF b
    <3> QED BY <3>2 DEF Middle
  <2> HIDE DEF l, h, m, H, W
  <2>3. /\ l < m /\ m < h /\ m < H
        /\ m * m < arg => Between(arg, m, h, H)
        /\ arg < m * m => Between(arg, l, m, H)
    BY <1>1, <1>2, <1>4, <2>1, <2>2, MiddleStep
  <2>4. Carre = m * m
    <3>1. m * m < pow2[W] /\ m * m \in Nat
      BY <1>2, <2>3, SquareFits DEF H
    <3> QED BY <1>4, <3>1, LowFits DEF Carre, m
  <2> QED BY <2>1, <2>2, <2>3, <2>4
<1>6. ASSUME NEW a \in Nat, NEW b \in Nat, a < b, b <= h,
             Narrow([min_ |-> a, max_ |-> b])
      PROVE  b = a + 1
  <2>1. b - a \in Nat /\ b - a < pow2[W]
    BY <1>1, <1>6, WidthsFit DEF Bits
  <2>2. Low(b - a, W) = b - a
    <3> HIDE DEF W
    <3> QED BY <1>4, <2>1, LowFits
  <2> QED BY <1>6, <2>2 DEF Narrow
<1>7. ASSUME NEW a \in Nat, NEW b \in Nat, a \in Bits(W), a < b, b <= h,
             frame' = [min_ |-> a, max_ |-> b], Domain(routine, arg) => Between(arg, a, b, H),
             frame' \in Locals("sqrt4"), frame' \in Frames,
             IF Narrow(frame') THEN Return(a) ELSE Continue
      PROVE  CallInv'
  <2>1. CASE Narrow(frame')
    <3>1. b = a + 1
      BY <1>6, <1>7, <2>1
    <3>2. Domain(routine, arg) => IsRoot(a, arg)
      BY <1>1, <1>7, <3>1 DEF Between, IsRoot
    <3> QED BY <1>1, <1>7, <2>1, <3>2, Returning
  <2>2. CASE ~ Narrow(frame')
    <3>1. pc' = "running" /\ ret' = ret /\ frame'.min_ = a /\ frame'.max_ = b
      BY <1>1, <1>7, <2>2 DEF Continue
    <3>2. b - a > 1
      <4>1. b - a # 1
        <5>1. 1 \in Nat /\ 1 < pow2[W]
          BY <1>7, <1>1, WidthsFit
        <5>2. Low(1, W) = 1
          BY <1>4, <5>1, LowFits
        <5> QED BY <2>2, <3>1, <5>2 DEF Narrow
      <4> QED BY <1>7, <4>1
    <3>3. Domain(routine, arg) => HalvedBounded'
      BY <1>1, <1>7, <3>1, <3>2 DEF HalvedBounded, Halved, Between
    <3>4. TypeOK' /\ frame' \in Locals(routine')
      BY <1>1, <1>7, <3>1 DEF CallInv, TypeOK
    <3> QED BY <1>1, <3>1, <3>3, <3>4 DEF CallInv, RootReturned, Domain
  <2> QED BY <2>1, <2>2
<1>8. /\ Carre < arg => /\ frame' = [min_ |-> m, max_ |-> h]
                        /\ IF Narrow(frame') THEN Return(m) ELSE Continue
      /\ arg < Carre => /\ frame' = [min_ |-> l, max_ |-> m]
                        /\ IF Narrow(frame') THEN Return(l) ELSE Continue
      /\ Carre = arg => Return(m) /\ frame' = frame
      /\ Carre \in Nat
  <2>1. Carre \in Nat
    <3>1. Carre \in Bits(W)
      <4>1. m * m \in Int
        BY <1>2
      <4> QED BY <4>1, IntRange DEF Carre
    <3> QED BY <3>1, IntRange
  <2>2. Carre < arg => /\ frame' = [min_ |-> m, max_ |-> h]
                       /\ IF Narrow(frame') THEN Return(m) ELSE Continue
    <3> SUFFICES ASSUME Carre < arg
                 PROVE  /\ frame' = [min_ |-> m, max_ |-> h]
                        /\ IF Narrow(frame') THEN Return(m) ELSE Continue
      OBVIOUS
    <3>1. ~(Carre > arg) /\ Carre # arg
      BY <1>1, <2>1
    <3>2. /\ frame' = [frame EXCEPT !.min_ = m]
          /\ IF Narrow(frame') THEN Return(frame'.min_) ELSE Continue
      BY <3>1 DEF Sqrt4Round
    <3> HIDE DEF m
    <3> QED BY <1>1, <3>2
  <2>3. arg < Carre => /\ frame' = [min_ |-> l, max_ |-> m]
                       /\ IF Narrow(frame') THEN Return(l) ELSE Continue
    <3> SUFFICES ASSUME arg < Carre
                 PROVE  /\ frame' = [min_ |-> l, max_ |-> m]
                        /\ IF Narrow(frame') THEN Return(l) ELSE Continue
      OBVIOUS
    <3>1. ~(Carre < arg) /\ Carre # arg
      BY <1>1, <2>1
    <3>2. /\ frame' = [frame EXCEPT !.max_ = m]
          /\ IF Narrow(frame') THEN Return(frame'.min_) ELSE Continue
      BY <3>1 DEF Sqrt4Round
    <3> HIDE DEF m
    <3> QED BY <1>1, <3>2
  <2>4. Carre = arg => Return(m) /\ frame' = frame
    BY <1>1, <2>1 DEF Sqrt4Round
  <2> QED BY <2>1, <2>2, <2>3, <2>4
<1>9. frame' \in Locals("sqrt4") /\ frame' \in Frames
  BY <1>1, <1>3, <1>8
<1>10. CASE ~ Domain(routine, arg)
  <2>1. CASE Continue
    BY <1>1, <1>9, <1>10, <2>1 DEF Continue, CallInv, TypeOK, RootReturned, Domain
  <2>2. CASE Return(m)
    BY <1>1, <1>2, <1>9, <1>10, <2>2, Returning
  <2>3. CASE Return(l)
    BY <1>1, <1>9, <1>10, <2>3, Returning
  <2> QED BY <1>1, <1>8, <2>1, <2>2, <2>3
<1>11. CASE Domain(routine, arg)
  <2>1. /\ arg >= 2 /\ arg < 2 * H /\ h - l > 1 /\ Between(arg, l, h, H)
        /\ l < m /\ m < h /\ Carre = m * m
        /\ m * m < arg => Between(arg, m, h, H)
        /\ arg < m * m => Between(arg, l, m, H)
    BY <1>5, <1>11
  <2> HIDE DEF l, h, m, H, W
  <2>2. CASE Carre < arg
    BY <1>1, <1>2, <1>7, <1>8, <1>9, <2>1, <2>2
  <2>3. CASE arg < Carre
    <3>1. m <= h
      BY <1>1, <1>2, <2>1
    <3> QED BY <1>1, <1>2, <1>7, <1>8, <1>9, <2>1, <2>3, <3>1
  <2>4. CASE Carre = arg
    <3>1. IsRoot(m, arg)
      <4>1. (m + 1) * (m + 1) = m * m + 2 * m + 1
        BY <1>2
      <4> QED BY <1>1, <1>2, <2>1, <2>4, <4>1 DEF IsRoot
    <3> QED BY <1>1, <1>2, <1>8, <1>9, <2>4, <3>1, Returning
  <2> QED BY <1>1, <1>8, <2>2, <2>3, <2>4
<1> QED BY <1>10, <1>11

-----------------------------------------------------------------------------
(* The routines *)

\* The invariant holds throughout every call.
LEMMA CallInvariant == Spec => []CallInv
<1>1. Init => CallInv
  <2> SUFFICES ASSUME Init PROVE CallInv
    OBVIOUS
  <2>1. arg \in Bits(W) /\ 0 \in Bits(W)
    BY ArgumentsAssumption, WidthsFit DEF Init, Bits
  <2>2. frame \in Locals(routine) /\ frame \in Frames
    BY <2>1, FrameTyped, LocalsAreFrames DEF Init
  <2> QED BY <2>1, <2>2 DEF Init, CallInv, TypeOK, RootReturned
<1>2. CallInv /\ [Step]_vars => CallInv'
  <2>1. ASSUME CallInv, UNCHANGED vars PROVE CallInv'
    BY <2>1 DEF vars, CallInv, TypeOK, RootReturned, Domain, Locals, Frame, SquareBracketed,
                DigitsKnown, NewtonBounded, NewtonAbove, HalvedBounded, Halved
  <2> QED BY <2>1, CallKeeps, NewtonKeeps, SquareKeeps, SquareEnds, DigitKeeps, DigitEnds,
             HalfKeeps DEF Step
<1> QED BY <1>1, <1>2, PTL DEF Spec

\* Between two rounds every loop keeps its invariant.
THEOREM LoopsKeepInvariant == Spec => []LoopInvariant
<1>1. CallInv => LoopInvariant
  BY DEF CallInv, LoopInvariant, NewtonBounded, HalvedBounded
<1> QED BY <1>1, CallInvariant, PTL

\* Every routine that returns has the integer square root, for every width
\* and every argument it can deal with; so they agree there.
THEOREM RoutinesReturnRoot == Spec => []RootReturned
<1>1. CallInv => RootReturned
  BY DEF CallInv
<1> QED BY <1>1, CallInvariant, PTL

-----------------------------------------------------------------------------
(* The timer: its inductive invariant *)

\* The steps of the program where the timer is the system clock, and of the
\* one that takes a timestamp.
MainSteps == {"period", "start_timer", "first_snap", "first_high", "first_low",
              "second_snap", "second_high", "second_low", "add", "end", "no_timestamp"}
StampSteps == {"stop", "periodl", "periodh", "start", "count", "ts_low", "ts_high", "timestamp"}

\* As the system is generated.
Generated == /\ internal_counter = LOAD_VALUE /\ period = Halves(LOAD_VALUE)
             /\ ~counter_is_running /\ ~force_reload

\* The system clock's timer counts its period down over and over.
Counting == /\ period = Halves(LOAD_VALUE) /\ internal_counter <= LOAD_VALUE
            /\ counter_is_running /\ ~force_reload /\ "CONT" \in control
            /\ ts_freq = 0
            /\ step = "period" => timer_period = 0
            /\ step # "period" => timer_period = LOAD_VALUE
            /\ step \notin {"period", "start_timer"} => "ITO" \notin control

\* The time reported when n periods more are to be counted as reloads.
Reported(n) == computation_time = (spent - reloads - n) % (Full + 1)

\* The value of the first snapshot: in the register, then in the variable.
FirstValue == IF step = "second_snap" THEN first_value ELSE Value(counter_snapshot)

\* Within a measurement the counter has counted down from the first snapshot
\* for age + 1 edges, with at most one reload, which counts as an edge but
\* restarts from the period.
CountedDown ==
  /\ FirstValue <= LOAD_VALUE
  /\ age <= (CASE step = "first_high" -> Longest - 3
               [] step = "first_low" -> Longest - 2
               [] step = "second_snap" -> Longest - 1)
  /\ step = "first_low" => read = counter_snapshot[1]
  /\ \E n \in {0, 1} :
       /\ FirstValue - internal_counter = age + 1 - n * (LOAD_VALUE + 1)
       /\ Reported(-n)

\* The value of the second snapshot.
SecondValue == IF step = "add" THEN second_value ELSE Value(counter_snapshot)

\* After a measurement the interval is what is missing in the sum.
IntervalKnown ==
  /\ step = "second_low" => read = counter_snapshot[1]
  /\ first_value <= LOAD_VALUE /\ SecondValue <= LOAD_VALUE
  /\ Reported(compute_time_interval(first_value, SecondValue))

\* The timestamp's timer: stopped, given the longest period, started.
Stamping ==
  /\ timer_period = 0 /\ computation_time = 0 /\ spent = 0 /\ reloads = 0
  /\ control = {} /\ ts_freq = TIMER_FREQ
  /\ step \in {"stop", "periodl", "periodh", "start"} => ~counter_is_running /\ age = 0
  /\ step \notin {"stop", "periodl"} => period[2] = Half - 1
  /\ step \notin {"stop", "periodl", "periodh"} => period[1] = Half - 1
  /\ step = "start" => force_reload \/ internal_counter = Full

\* What the timestamp will be, after n edges.
Stamp(n) == IF n <= Full THEN n ELSE 0

\* The single shot of the timestamp's timer.
ShotCounts ==
  /\ step = "count" => /\ internal_counter = Full - Stamp(age) /\ ~force_reload
                       /\ counter_is_running <=> age <= Full
  /\ step \in {"ts_low", "ts_high"} => Value(counter_snapshot) = Full - Stamp(age)
  /\ step = "ts_high" => read = counter_snapshot[2]
  /\ step = "timestamp" => read = Stamp(age)

TimerInv ==
  /\ TimerTypeOK
  /\ age \in Nat /\ read \in Nat /\ spent \in Nat /\ reloads \in Nat
  /\ step \in {"sys_init"} \cup MainSteps \cup StampSteps
  /\ step \in {"sys_init", "period", "start_timer"} =>
       computation_time = 0 /\ spent = 0 /\ reloads = 0
  /\ step = "sys_init" => Generated /\ ts_freq = 0 /\ timer_period = 0 /\ age = 0
                          /\ control = {}
  /\ step \in MainSteps => Counting
  /\ step \in {"first_snap", "end"} => Reported(0)
  /\ Measuring => CountedDown
  /\ step \in {"second_high", "second_low", "add"} => IntervalKnown
  /\ step \in StampSteps => Stamping /\ ShotCounts
  /\ step = "no_timestamp" => read = Full

-----------------------------------------------------------------------------
(* The timer: the device *)

Pairs == (0 .. Half - 1) \X (0 .. Half - 1)

\* The constants of the timer, without the product of the halves.
LEMMA TimerConstants ==
  /\ Half \in Nat /\ Half >= 2 /\ Full \in Nat /\ Full >= 3 /\ Full + 1 \in Nat \ {0}
  /\ LOAD_VALUE \in Nat /\ LOAD_VALUE >= 1 /\ LOAD_VALUE <= Full
  /\ Longest \in Nat /\ 4 <= Longest /\ Longest <= LOAD_VALUE
  /\ TIMER_FREQ \in Nat /\ TIMER_FREQ # 0
<1>1. Half \in Nat /\ Half >= 2
  BY TimerAssumption
<1>2. Half * Half >= 2 * Half /\ Half * Half \in Nat
  BY <1>1
<1> QED BY <1>1, <1>2, TimerAssumption DEF Full

\* The two halves of a register's value are the value.
LEMMA HalvesOfValue ==
  ASSUME NEW v \in 0 .. Full
  PROVE  Halves(v) \in Pairs /\ Value(Halves(v)) = v
<1>1. Half \in Nat /\ Half >= 2
  BY TimerConstants
<1> DEFINE q == v \div Half
           r == v % Half
<1>2. v \in Nat /\ v < Half * Half
  BY <1>1 DEF Full
<1>3. q \in Nat /\ r \in Nat /\ r < Half /\ v = q * Half + r
  <2>1. ASSUME NEW m \in Nat, m >= 1
        PROVE  /\ v \div m \in Nat /\ v % m \in Nat /\ v % m < m
               /\ v = (v \div m) * m + (v % m)
    BY <1>2, <2>1
  <2> QED BY <1>1, <2>1
<1> HIDE DEF q, r
<1>4. q < Half
  <2>1. ASSUME q >= Half PROVE FALSE
    <3>1. q * Half >= Half * Half /\ q * Half \in Nat
      BY <1>1, <1>3, <2>1
    <3> QED BY <1>1, <1>2, <1>3, <3>1
  <2> QED BY <1>1, <1>3, <2>1
<1> QED BY <1>1, <1>3, <1>4 DEF Halves, Value, Pairs, q, r

\* The value of two halves is a register's value, all ones where both are.
LEMMA ValueOfHalves ==
  ASSUME NEW r \in Pairs
  PROVE  /\ Value(r) \in 0 .. Full
         /\ r[1] = Half - 1 /\ r[2] = Half - 1 => Value(r) = Full
<1>1. Half \in Nat /\ Half >= 2
  BY TimerConstants
<1>2. r[1] \in Nat /\ r[2] \in Nat /\ r[1] <= Half - 1 /\ r[2] <= Half - 1
  BY <1>1 DEF Pairs
<1>3. r[1] * Half <= (Half - 1) * Half /\ (Half - 1) * Half = Half * Half - Half
      /\ r[1] * Half \in Nat
  BY <1>1, <1>2
<1>4. Half * Half \in Nat
  BY <1>1
<1> QED BY <1>1, <1>2, <1>3, <1>4 DEF Value, Full

\* An edge keeps the registers within their widths.
LEMMA EdgeTyped ==
  ASSUME TimerTypeOK, NEW y, Edge(y),
         y.to \in {"periodh", "periodl"} => y.data \in 0 .. Half - 1
  PROVE  /\ internal_counter' \in 0 .. Full /\ control' \subseteq {"ITO", "CONT"}
         /\ period' \in Pairs /\ counter_snapshot' \in Pairs
<1>1. internal_counter \in 0 .. Full /\ period \in Pairs /\ counter_snapshot \in Pairs
  BY DEF TimerTypeOK, Pairs
<1>2. internal_counter' \in 0 .. Full
  <2>1. Value(period) \in 0 .. Full /\ Full \in Nat
    BY <1>1, ValueOfHalves, TimerConstants
  <2> HIDE DEF Full
  <2> QED BY <1>1, <2>1 DEF Edge, Counter, Reload, counter_load_value, counter_is_zero
<1>3. period' \in Pairs
  <2>1. period[1] \in 0 .. Half - 1 /\ period[2] \in 0 .. Half - 1
    BY <1>1 DEF Pairs
  <2>2. CASE y.to = "periodh"
    BY <2>1, <2>2 DEF Edge, Pairs
  <2>3. CASE y.to = "periodl"
    BY <2>1, <2>3 DEF Edge, Pairs
  <2>4. CASE y.to \notin {"periodh", "periodl"}
    BY <1>1, <2>4 DEF Edge
  <2> QED BY <2>2, <2>3, <2>4
<1>4. counter_snapshot' \in Pairs
  BY <1>1, HalvesOfValue DEF Edge
<1>5. control' \subseteq {"ITO", "CONT"}
  BY DEF Edge, TimerTypeOK
<1> QED BY <1>2, <1>3, <1>4, <1>5

\* An edge of the running timer whose program starts it, if it writes to it.
LEMMA CountingEdge ==
  ASSUME TimerTypeOK, Counting, NEW y, Edge(y), y.to \notin {"periodh", "periodl"},
         y.to = "control" => "START" \in y.data /\ "CONT" \in y.data
  PROVE  /\ period' = period /\ Value(period) = LOAD_VALUE
         /\ internal_counter \in 0 .. LOAD_VALUE
         /\ internal_counter' = IF internal_counter = 0 THEN LOAD_VALUE ELSE internal_counter - 1
         /\ internal_counter' \in 0 .. LOAD_VALUE
         /\ Reload <=> internal_counter = 0
         /\ counter_is_running' /\ ~force_reload' /\ "CONT" \in control'
         /\ y.to # "control" => control' = control
         /\ counter_snapshot' = IF y.to = "snap" THEN Halves(internal_counter)
                                                 ELSE counter_snapshot
<1>1. /\ internal_counter \in 0 .. LOAD_VALUE /\ LOAD_VALUE \in Nat
      /\ Value(period) = LOAD_VALUE
  <2>1. LOAD_VALUE \in 0 .. Full
    BY TimerConstants
  <2> QED BY <2>1, TimerConstants, HalvesOfValue DEF Counting, TimerTypeOK
<1>2. counter_is_running /\ ~force_reload /\ "CONT" \in control
  BY DEF Counting
<1>3. Reload <=> internal_counter = 0
  BY <1>2 DEF Reload, counter_is_zero
<1>4. internal_counter' = IF internal_counter = 0 THEN LOAD_VALUE ELSE internal_counter - 1
  BY <1>1, <1>2, <1>3 DEF Edge, Counter, counter_load_value
<1>5. counter_is_running'
  BY <1>2 DEF Edge, Running, Strobe
<1>6. /\ ~force_reload' /\ "CONT" \in control' /\ period' = period
      /\ y.to # "control" => control' = control
      /\ counter_snapshot' = IF y.to = "snap" THEN Halves(internal_counter)
                                              ELSE counter_snapshot
  BY <1>2 DEF Edge
<1> QED BY <1>1, <1>2, <1>3, <1>4, <1>5, <1>6

-----------------------------------------------------------------------------
(* The timer: the measurements of main *)

\* What the edge of a step of main has to keep, the registers apart.
LEMMA MainStepKeeps ==
  ASSUME TimerInv, step \in MainSteps, step' \in MainSteps,
         NEW y, Edge(y), y.to \notin {"periodh", "periodl"},
         y.to = "control" => "START" \in y.data /\ "CONT" \in y.data,
         ts_freq' = ts_freq,
         {first_value', second_value', computation_time'} \subseteq 0 .. Full,
         age' \in Nat, read' \in Nat, spent' \in Nat, reloads' \in Nat,
         step' = "period" => timer_period' = 0,
         step' # "period" => timer_period' = LOAD_VALUE,
         step' \notin {"period", "start_timer"} => "ITO" \notin control',
         step' \in {"period", "start_timer"} => computation_time' = 0 /\ spent' = 0 /\ reloads' = 0,
         step' \in {"first_snap", "end"} => Reported(0)',
         step' \in {"first_high", "first_low", "second_snap"} => CountedDown',
         step' \in {"second_high", "second_low", "add"} => IntervalKnown',
         step' = "no_timestamp" => read' = Full
  PROVE  TimerInv'
<1>1. TimerTypeOK /\ Counting
  BY DEF TimerInv
<1>2. /\ period' = period /\ internal_counter' \in 0 .. LOAD_VALUE
      /\ counter_is_running' /\ ~force_reload' /\ "CONT" \in control'
  BY <1>1, CountingEdge
<1>3. Counting'
  BY <1>1, <1>2, TimerConstants DEF Counting
<1>4. TimerTypeOK'
  <2>1. /\ internal_counter' \in 0 .. Full /\ control' \subseteq {"ITO", "CONT"}
        /\ period' \in Pairs /\ counter_snapshot' \in Pairs
    BY <1>1, EdgeTyped
  <2> QED BY <2>1 DEF TimerTypeOK, Pairs
<1> HIDE DEF Full
<1> QED BY <1>3, <1>4 DEF TimerInv, MainSteps, StampSteps, Measuring

\* get_timer_period reads the period the system is generated with.
LEMMA PeriodKeeps == TimerInv /\ get_timer_period => TimerInv'
<1> SUFFICES ASSUME TimerInv, get_timer_period PROVE TimerInv'
  OBVIOUS
<1>1. /\ step = "period" /\ step' = "start_timer" /\ Edge(None) /\ timer_period' = Value(period)
      /\ UNCHANGED <<ts_freq, first_value, second_value, computation_time, spent, read, age, reloads>>
  BY DEF get_timer_period, Do, Config
<1>2. step \in MainSteps /\ step' \in MainSteps /\ Counting /\ TimerTypeOK
  BY <1>1 DEF MainSteps, TimerInv
<1>3. timer_period' = LOAD_VALUE
  BY <1>1, <1>2, CountingEdge DEF None
<1>4. /\ {first_value', second_value', computation_time'} \subseteq 0 .. Full
      /\ age' \in Nat /\ read' \in Nat /\ spent' \in Nat /\ reloads' \in Nat
      /\ computation_time' = 0 /\ spent' = 0 /\ reloads' = 0
  BY <1>1 DEF TimerInv, TimerTypeOK
<1> QED BY <1>1, <1>2, <1>3, <1>4, MainStepKeeps DEF None

\* start_timer leaves the timer running, and ends its interrupts.
LEMMA StartKeeps == TimerInv /\ start_timer => TimerInv'
<1> SUFFICES ASSUME TimerInv, start_timer PROVE TimerInv'
  OBVIOUS
<1> DEFINE y == [to |-> "control", data |-> {"START", "CONT"}]
<1>1. /\ step = "start_timer" /\ step' = "first_snap" /\ Edge(y)
      /\ UNCHANGED <<ts_freq, timer_period, first_value, second_value, computation_time,
                     spent, read, age, reloads>>
  BY DEF start_timer, Do, Started, Control, Config, measure
<1>2. step \in MainSteps /\ step' \in MainSteps /\ Counting /\ TimerTypeOK
  BY <1>1 DEF MainSteps, TimerInv
<1>3. "ITO" \notin control' /\ timer_period' = LOAD_VALUE
  BY <1>1, <1>2 DEF Edge, Counting
<1>4. /\ {first_value', second_value', computation_time'} \subseteq 0 .. Full
      /\ age' \in Nat /\ read' \in Nat /\ spent' \in Nat /\ reloads' \in Nat
      /\ computation_time' = 0 /\ spent' = 0 /\ reloads' = 0
  BY <1>1 DEF TimerInv, TimerTypeOK
<1>5. Reported(0)'
  <2>1. 0 % (Full + 1) = 0
    BY TimerConstants, ModSmall
  <2> QED BY <1>4, <2>1 DEF Reported
<1>6. y.to = "control" /\ "START" \in y.data /\ "CONT" \in y.data
  OBVIOUS
<1> HIDE DEF y
<1> QED BY <1>1, <1>2, <1>3, <1>4, <1>5, <1>6, MainStepKeeps

\* An edge within a measurement counts down once more.
LEMMA AgedCountsDown ==
  ASSUME TimerInv, step \in MainSteps, NEW y, Edge(y), y.to \notin {"periodh", "periodl", "control"},
         NEW f \in Nat, NEW n \in {0, 1}, NEW m \in Int, m = -1 \/ m \in Nat, m < Longest,
         f <= LOAD_VALUE, f - internal_counter = m + 1 - n * (LOAD_VALUE + 1),
         reloads' = IF Reload THEN reloads + 1 ELSE reloads,
         UNCHANGED <<computation_time, spent>>, Reported(-n), m = -1 => n = 0
  PROVE  \E p \in {0, 1} : /\ f - internal_counter' = (m + 1) + 1 - p * (LOAD_VALUE + 1)
                           /\ Reported(-p)'
<1>1. TimerTypeOK /\ Counting /\ reloads \in Nat /\ spent \in Nat /\ Full + 1 \in Nat \ {0}
  BY TimerConstants DEF TimerInv
<1>2. /\ internal_counter \in 0 .. LOAD_VALUE /\ (Reload <=> internal_counter = 0)
      /\ internal_counter' = IF internal_counter = 0 THEN LOAD_VALUE ELSE internal_counter - 1
  BY <1>1, CountingEdge
<1> HIDE DEF Full
<1>3. CASE internal_counter = 0
  <2>1. n = 0
    BY <1>2, <1>3, TimerConstants
  <2>2. /\ f - internal_counter' = (m + 1) + 1 - 1 * (LOAD_VALUE + 1)
        /\ reloads' = reloads + 1
    BY <1>2, <1>3, <2>1, TimerConstants
  <2>3. Reported(-1)'
    <3>1. spent - reloads - (-n) = spent' - reloads' - (-1)
      BY <1>1, <2>1, <2>2
    <3> QED BY <3>1 DEF Reported
  <2> QED BY <2>2, <2>3
<1>4. CASE internal_counter # 0
  <2>1. /\ f - internal_counter' = (m + 1) + 1 - n * (LOAD_VALUE + 1)
        /\ reloads' = reloads
    BY <1>2, <1>4, TimerConstants
  <2>2. Reported(-n)'
    BY <2>1 DEF Reported
  <2> QED BY <2>1, <2>2
<1> QED BY <1>3, <1>4

\* get_timer_value: the first snapshot starts the count, the reads of its
\* halves are edges of the measurement.
LEMMA FirstValueKeeps == TimerInv /\ get_timer_value => TimerInv'
<1> SUFFICES ASSUME TimerInv, get_timer_value PROVE TimerInv'
  OBVIOUS
<1>1. UNCHANGED <<ts_freq, timer_period, second_value, computation_time, spent>>
  BY DEF get_timer_value, Config
<1>2. /\ TimerTypeOK /\ age \in Nat /\ read \in Nat /\ spent \in Nat /\ reloads \in Nat
      /\ {first_value, second_value, computation_time} \subseteq 0 .. Full
      /\ counter_snapshot \in Pairs
  BY DEF TimerInv, TimerTypeOK, Pairs
<1>3. CASE step = "first_snap"
  <2> DEFINE y == [to |-> "snap", data |-> 0]
  <2>1. /\ step' = "first_high" /\ Edge(y) /\ age' = 0
        /\ reloads' = (IF Reload THEN reloads + 1 ELSE reloads)
        /\ UNCHANGED <<read, first_value>>
    BY <1>3 DEF get_timer_value, Do
  <2>2. step \in MainSteps /\ step' \in MainSteps /\ y.to = "snap"
    BY <1>3, <2>1 DEF MainSteps
  <2>3. Counting /\ Reported(0) /\ "ITO" \notin control /\ timer_period = LOAD_VALUE
    BY <1>3, <2>2 DEF TimerInv, Counting
  <2> HIDE DEF y, Full
  <2>4. /\ counter_snapshot' = Halves(internal_counter) /\ internal_counter \in 0 .. LOAD_VALUE
        /\ control' = control
    BY <1>2, <2>1, <2>2, <2>3, CountingEdge
  <2>5. FirstValue' = internal_counter
    <3>1. internal_counter \in 0 .. Full
      BY <2>4, TimerConstants
    <3> QED BY <2>1, <2>4, <3>1, HalvesOfValue DEF FirstValue
  <2>6. \E p \in {0, 1} :
          /\ internal_counter - internal_counter' = ((-1) + 1) + 1 - p * (LOAD_VALUE + 1)
          /\ Reported(-p)'
    <3>1. internal_counter - internal_counter = (-1) + 1 - 0 * (LOAD_VALUE + 1)
      BY <2>4, TimerConstants
    <3>2. Reported(-0) /\ internal_counter \in Nat /\ internal_counter <= LOAD_VALUE
          /\ -1 \in Int /\ -1 < Longest
      BY <2>3, <2>4, TimerConstants
    <3> QED BY <1>1, <2>1, <2>2, <3>1, <3>2, AgedCountsDown
  <2>7. CountedDown'
    <3>1. 0 <= Longest - 3 /\ internal_counter <= LOAD_VALUE
      BY <2>4, TimerConstants
    <3> QED BY <2>1, <2>5, <2>6, <3>1 DEF CountedDown
  <2> QED BY <1>1, <1>2, <2>1, <2>2, <2>3, <2>4, <2>7, MainStepKeeps
<1>4. ASSUME step \in {"first_high", "first_low"} PROVE TimerInv'
  <2>1. /\ Edge(None) /\ Aged
        /\ step = "first_high" => /\ step' = "first_low" /\ first_value' = first_value
                                  /\ read' = counter_snapshot[1]
        /\ step = "first_low" => /\ step' = "second_snap" /\ read' = read
                                 /\ first_value' = read * Half + counter_snapshot[2]
    BY <1>4 DEF get_timer_value, Do, snap_read_value
  <2>2. step \in MainSteps /\ step' \in MainSteps /\ Measuring
    BY <1>4, <2>1 DEF MainSteps, Measuring
  <2>3. Counting /\ CountedDown /\ "ITO" \notin control /\ timer_period = LOAD_VALUE
    BY <1>4, <2>2 DEF TimerInv, Counting
  <2>4. control' = control /\ counter_snapshot' = counter_snapshot
    BY <1>2, <2>1, <2>3, CountingEdge DEF None
  <2>5. counter_snapshot[1] \in Nat /\ Value(counter_snapshot) \in 0 .. Full
    BY <1>2, ValueOfHalves, TimerConstants DEF Pairs
  <2>6. /\ FirstValue = Value(counter_snapshot) /\ FirstValue' = FirstValue
        /\ first_value' \in 0 .. Full /\ read' \in Nat
    <3>1. step = "first_low" => first_value' = Value(counter_snapshot)
      BY <1>4, <2>1, <2>3 DEF CountedDown, Value
    <3>2. FirstValue = Value(counter_snapshot)
      BY <1>4 DEF FirstValue
    <3>3. FirstValue' = Value(counter_snapshot)
      BY <1>4, <2>1, <2>4, <3>1 DEF FirstValue
    <3> QED BY <1>2, <1>4, <2>1, <2>5, <3>1, <3>2, <3>3
  <2> HIDE DEF Full
  <2>7. FirstValue \in Nat /\ FirstValue <= LOAD_VALUE
    BY <2>3, <2>5, <2>6, TimerConstants DEF CountedDown
  <2>8. age < Longest /\ age' = age + 1
        /\ age' <= (CASE step' = "first_low" -> Longest - 2 [] step' = "second_snap" -> Longest - 1)
    BY <1>2, <1>4, <2>1, <2>3, TimerConstants DEF CountedDown, Aged
  <2>9. PICK n \in {0, 1} : /\ FirstValue - internal_counter = age + 1 - n * (LOAD_VALUE + 1)
                            /\ Reported(-n)
    BY <2>3 DEF CountedDown
  <2>10. \E p \in {0, 1} :
          /\ FirstValue - internal_counter' = (age + 1) + 1 - p * (LOAD_VALUE + 1)
          /\ Reported(-p)'
    BY <1>1, <1>2, <2>1, <2>2, <2>7, <2>8, <2>9, AgedCountsDown DEF None, Aged
  <2>11. CountedDown'
    BY <1>4, <2>1, <2>4, <2>6, <2>7, <2>8, <2>10 DEF CountedDown
  <2>12. reloads' \in Nat /\ age' \in Nat
    BY <1>2, <2>1 DEF Aged
  <2> QED BY <1>1, <1>2, <1>4, <2>1, <2>2, <2>3, <2>4, <2>6, <2>11, <2>12, MainStepKeeps DEF None
<1> QED BY <1>3, <1>4 DEF get_timer_value, Do

\* GetSecondValue: the second snapshot ends the count, the reads of its halves
\* are not part of it.
LEMMA SecondValueKeeps == TimerInv /\ GetSecondValue => TimerInv'
<1> SUFFICES ASSUME TimerInv, GetSecondValue PROVE TimerInv'
  OBVIOUS
<1>1. UNCHANGED <<ts_freq, timer_period, first_value, computation_time, reloads>>
  BY DEF GetSecondValue, Config
<1>2. /\ TimerTypeOK /\ age \in Nat /\ read \in Nat /\ spent \in Nat /\ reloads \in Nat
      /\ {first_value, second_value, computation_time} \subseteq 0 .. Full
      /\ counter_snapshot \in Pairs
  BY DEF TimerInv, TimerTypeOK, Pairs
<1>3. CASE step = "second_snap"
  <2> DEFINE y == [to |-> "snap", data |-> 0]
  <2>1. /\ step' = "second_high" /\ Edge(y) /\ age' = 0 /\ spent' = spent + age + 1
        /\ UNCHANGED <<read, second_value>>
    BY <1>3 DEF GetSecondValue, Do
  <2>2. step \in MainSteps /\ step' \in MainSteps /\ Measuring /\ y.to = "snap"
    BY <1>3, <2>1 DEF MainSteps, Measuring
  <2>3. /\ Counting /\ CountedDown /\ "ITO" \notin control /\ timer_period = LOAD_VALUE
        /\ FirstValue = first_value /\ age <= Longest - 1 /\ first_value <= LOAD_VALUE
    BY <1>3, <2>2 DEF TimerInv, Counting, CountedDown, FirstValue
  <2> HIDE DEF y, Full
  <2>4. /\ counter_snapshot' = Halves(internal_counter) /\ internal_counter \in 0 .. LOAD_VALUE
        /\ control' = control
    BY <1>2, <2>1, <2>2, <2>3, CountingEdge
  <2>5. SecondValue' = internal_counter
    <3>1. internal_counter \in 0 .. Full
      BY <2>4, TimerConstants
    <3> QED BY <2>1, <2>4, <3>1, HalvesOfValue DEF SecondValue
  <2>6. PICK n \in {0, 1} : /\ first_value - internal_counter = age + 1 - n * (LOAD_VALUE + 1)
                            /\ Reported(-n)
    BY <2>3 DEF CountedDown
  <2>7. compute_time_interval(first_value, internal_counter) = age + 1 - n
    BY <1>2, <2>3, <2>4, <2>6, TimerConstants DEF compute_time_interval
  <2>8. IntervalKnown'
    <3>1. compute_time_interval(first_value, SecondValue)' = age + 1 - n
      BY <1>1, <2>5, <2>7 DEF compute_time_interval
    <3>2. spent' - reloads' - (age + 1 - n) = spent - reloads - (-n)
      BY <1>1, <1>2, <2>1, <2>6
    <3>3. Reported(compute_time_interval(first_value, SecondValue))'
      BY <1>1, <2>6, <3>1, <3>2 DEF Reported
    <3> QED BY <1>1, <2>1, <2>3, <2>4, <2>5, <3>3 DEF IntervalKnown
  <2>9. spent' \in Nat
    BY <1>2, <2>1
  <2> QED BY <1>1, <1>2, <2>1, <2>2, <2>3, <2>4, <2>8, <2>9, MainStepKeeps
<1>4. ASSUME step \in {"second_high", "second_low"} PROVE TimerInv'
  <2>1. /\ Edge(None) /\ UNCHANGED <<age, spent>>
        /\ step = "second_high" => /\ step' = "second_low" /\ second_value' = second_value
                                   /\ read' = counter_snapshot[1]
        /\ step = "second_low" => /\ step' = "add" /\ read' = read
                                  /\ second_value' = read * Half + counter_snapshot[2]
    BY <1>4 DEF GetSecondValue, Do, snap_read_value
  <2>2. step \in MainSteps /\ step' \in MainSteps
    BY <1>4, <2>1 DEF MainSteps
  <2>3. Counting /\ IntervalKnown /\ "ITO" \notin control /\ timer_period = LOAD_VALUE
    BY <1>4, <2>2 DEF TimerInv, Counting
  <2>4. control' = control /\ counter_snapshot' = counter_snapshot
    BY <1>2, <2>1, <2>3, CountingEdge DEF None
  <2>5. counter_snapshot[1] \in Nat /\ Value(counter_snapshot) \in 0 .. Full
    BY <1>2, ValueOfHalves, TimerConstants DEF Pairs
  <2>6. /\ SecondValue' = SecondValue /\ second_value' \in 0 .. Full /\ read' \in Nat
    <3>1. step = "second_low" => second_value' = Value(counter_snapshot)
      BY <1>4, <2>1, <2>3 DEF IntervalKnown, Value
    <3>2. SecondValue = Value(counter_snapshot)
      BY <1>4 DEF SecondValue
    <3>3. SecondValue' = Value(counter_snapshot)
      BY <1>4, <2>1, <2>4, <3>1 DEF SecondValue
    <3> QED BY <1>2, <1>4, <2>1, <2>5, <3>1, <3>2, <3>3
  <2> HIDE DEF Full
  <2>7. IntervalKnown'
    BY <1>1, <1>4, <2>1, <2>3, <2>4, <2>6 DEF IntervalKnown, Reported, compute_time_interval
  <2> QED BY <1>1, <1>2, <1>4, <2>1, <2>2, <2>3, <2>4, <2>6, <2>7, MainStepKeeps DEF None
<1> QED BY <1>3, <1>4 DEF GetSecondValue, Do

\* main adds the interval, modulo the range of its variable.
LEMMA SumIsReported ==
  ASSUME TimerInv, step = "add"
  PROVE  TimeAdded = (spent - reloads) % (Full + 1)
<1> DEFINE F == Full + 1
           I == compute_time_interval(first_value, second_value)
           v == spent - reloads - I
<1>1. /\ F \in Nat \ {0} /\ spent \in Nat /\ reloads \in Nat
      /\ first_value \in 0 .. Full /\ second_value \in 0 .. Full /\ timer_period = LOAD_VALUE
  BY TimerConstants DEF TimerInv, TimerTypeOK, Counting, MainSteps
<1>2. I \in Int /\ v \in Int
  <2> HIDE DEF Full
  <2>1. I \in Int
    BY <1>1, TimerConstants DEF compute_time_interval
  <2> QED BY <1>1, <2>1
<1>3. computation_time = v % F
  <2>1. IntervalKnown /\ SecondValue = second_value
    BY DEF TimerInv, SecondValue
  <2> QED BY <2>1 DEF IntervalKnown, Reported
<1>4. TimeAdded = ((v % F) + I) % F
  BY <1>3 DEF TimeAdded
<1>5. v + I = spent - reloads
  <2> HIDE DEF I
  <2> QED BY <1>1, <1>2
<1> HIDE DEF F, I, v
<1>6. ((v % F) + I) % F = (v + I) % F
  BY <1>1, <1>2, ModPlus
<1> QED BY <1>4, <1>5, <1>6 DEF F

\* A round of main ends with the time reported so far.
LEMMA MainKeeps == TimerInv /\ main => TimerInv'
<1> SUFFICES ASSUME TimerInv, main PROVE TimerInv'
  OBVIOUS
<1>1. /\ step = "add" /\ step' \in {"first_snap", "end"} /\ Edge(None)
      /\ computation_time' = TimeAdded /\ first_value' = 0 /\ second_value' = 0
      /\ UNCHANGED <<ts_freq, timer_period, spent, read, age, reloads>>
  BY DEF main, Config
<1>2. /\ step \in MainSteps /\ step' \in MainSteps /\ Counting /\ TimerTypeOK
      /\ timer_period = LOAD_VALUE /\ "ITO" \notin control
  BY <1>1 DEF MainSteps, TimerInv, Counting
<1>3. control' = control
  BY <1>1, <1>2, CountingEdge DEF None
<1>4. computation_time' = (spent - reloads) % (Full + 1)
  BY <1>1, SumIsReported
<1>5. /\ {first_value', second_value', computation_time'} \subseteq 0 .. Full
      /\ age' \in Nat /\ read' \in Nat /\ spent' \in Nat /\ reloads' \in Nat
      /\ Reported(0)'
  <2>1. spent \in Nat /\ reloads \in Nat /\ age \in Nat /\ read \in Nat
    BY DEF TimerInv
  <2> HIDE DEF Full
  <2>2. (spent - reloads) % (Full + 1) \in 0 .. Full /\ 0 \in 0 .. Full
    BY <2>1, TimerConstants
  <2>3. spent' - reloads' - 0 = spent - reloads
    BY <1>1, <2>1
  <2> QED BY <1>1, <1>4, <2>1, <2>2, <2>3 DEF Reported
<1> QED BY <1>1, <1>2, <1>3, <1>5, MainStepKeeps DEF None

-----------------------------------------------------------------------------
(* The timer: the timestamp *)

\* What the edge of a step towards a timestamp has to keep.
LEMMA StampStepKeeps ==
  ASSUME TimerInv, step' \in StampSteps, NEW y, Edge(y),
         y.to \in {"periodh", "periodl"} => y.data \in 0 .. Half - 1,
         UNCHANGED measure, age' \in Nat, read' \in Nat, UNCHANGED reloads,
         Stamping', ShotCounts'
  PROVE  TimerInv'
<1>1. TimerTypeOK /\ spent \in Nat /\ reloads \in Nat
  BY DEF TimerInv
<1>2. TimerTypeOK'
  <2>1. /\ internal_counter' \in 0 .. Full /\ control' \subseteq {"ITO", "CONT"}
        /\ period' \in Pairs /\ counter_snapshot' \in Pairs
    BY <1>1, EdgeTyped
  <2> QED BY <1>1, <2>1 DEF TimerTypeOK, Pairs, measure
<1> HIDE DEF Full
<1> QED BY <1>1, <1>2 DEF TimerInv, MainSteps, StampSteps, Measuring, measure

\* The INIT macro makes the timer either the system clock or the timestamp.
LEMMA MacroKeeps == TimerInv /\ ALTERA_AVALON_TIMER_INIT => TimerInv'
<1> SUFFICES ASSUME TimerInv, ALTERA_AVALON_TIMER_INIT PROVE TimerInv'
  OBVIOUS
<1>1. /\ step = "sys_init" /\ TimerTypeOK /\ Generated /\ ts_freq = 0 /\ timer_period = 0
      /\ age = 0 /\ computation_time = 0 /\ spent = 0 /\ reloads = 0 /\ control = {}
      /\ read \in Nat /\ {first_value, second_value, computation_time} \subseteq 0 .. Full
      /\ UNCHANGED <<measure, read, age, reloads>>
  BY DEF ALTERA_AVALON_TIMER_INIT, TimerInv, TimerTypeOK
<1>2. CASE system_clock
  <2> DEFINE y == [to |-> "control", data |-> {"ITO", "CONT", "START"}]
  <2>1. Edge(y) /\ step' = "period" /\ ts_freq' = 0
    BY <1>1, <1>2 DEF ALTERA_AVALON_TIMER_INIT, FreeRunning, Control
  <2>2. y.to = "control" /\ "START" \in y.data /\ "CONT" \in y.data
    OBVIOUS
  <2> HIDE DEF y
  <2>3. Counting'
    <3>1. /\ counter_is_running' /\ ~force_reload' /\ "CONT" \in control' /\ period' = period
      BY <2>1, <2>2 DEF Edge, Running, Strobe
    <3>2. internal_counter' = internal_counter
      BY <1>1, <2>1 DEF Edge, Counter, Reload, Generated
    <3> QED BY <1>1, <2>1, <3>1, <3>2, TimerConstants DEF Counting, Generated, measure
  <2>4. TimerTypeOK'
    <3>1. /\ internal_counter' \in 0 .. Full /\ control' \subseteq {"ITO", "CONT"}
          /\ period' \in Pairs /\ counter_snapshot' \in Pairs
      BY <1>1, <2>1, <2>2, EdgeTyped
    <3> QED BY <1>1, <3>1 DEF TimerTypeOK, Pairs, measure
  <2> HIDE DEF Full
  <2> QED BY <1>1, <2>1, <2>3, <2>4 DEF TimerInv, MainSteps, StampSteps, Measuring, measure
<1>3. CASE ~ system_clock
  <2>1. Edge(None) /\ step' = "stop" /\ ts_freq' = TIMER_FREQ
    BY <1>1, <1>3 DEF ALTERA_AVALON_TIMER_INIT
  <2>2. ~counter_is_running' /\ control' = {}
    BY <1>1, <2>1 DEF Edge, Running, Strobe, None, Generated
  <2>3. Stamping' /\ ShotCounts'
    BY <1>1, <2>1, <2>2 DEF Stamping, ShotCounts, measure
  <2> HIDE DEF Full
  <2> QED BY <1>1, <2>1, <2>3, StampStepKeeps DEF StampSteps, None
<1> QED BY <1>2, <1>3

\* alt_timestamp_start: however long it takes, the counter holds all ones by
\* the edge that starts it.
LEMMA StampStartKeeps == TimerInv /\ alt_timestamp_start => TimerInv'
<1> SUFFICES ASSUME TimerInv, alt_timestamp_start PROVE TimerInv'
  OBVIOUS
<1>1. /\ step \in {"stop", "periodl", "periodh", "start"}
      /\ UNCHANGED <<ts_freq, measure, read, age, reloads>>
  BY DEF alt_timestamp_start, Do, Config
<1>2. /\ TimerTypeOK /\ Stamping /\ age = 0 /\ ~counter_is_running /\ read \in Nat
      /\ period \in Pairs
  BY <1>1 DEF TimerInv, StampSteps, Stamping, TimerTypeOK, Pairs
<1>3. Half \in Nat /\ Half >= 2 /\ Full \in Nat
  BY TimerConstants
<1>4. CASE step = "stop"
  <2> DEFINE y == [to |-> "control", data |-> {"STOP"}]
  <2>1. Edge(y) /\ step' = "periodl"
    BY <1>4 DEF alt_timestamp_start, Do, Control
  <2>2. ~counter_is_running' /\ control' = {} /\ y.to = "control"
    BY <1>2, <2>1 DEF Edge, Running, Strobe
  <2>3. Stamping' /\ ShotCounts'
    BY <1>1, <1>2, <2>1, <2>2 DEF Stamping, ShotCounts, measure
  <2> HIDE DEF y
  <2> QED BY <1>1, <1>2, <2>1, <2>2, <2>3, StampStepKeeps DEF StampSteps
<1>5. CASE step = "periodl"
  <2> DEFINE y == [to |-> "periodl", data |-> Half - 1]
  <2>1. Edge(y) /\ step' = "periodh"
    BY <1>5 DEF alt_timestamp_start, Do
  <2>2. /\ ~counter_is_running' /\ control' = {} /\ period'[2] = Half - 1
    BY <1>2, <2>1 DEF Edge, Running, Strobe, Stamping
  <2>3. y.data \in 0 .. Half - 1
    BY <1>3
  <2>4. Stamping' /\ ShotCounts'
    BY <1>1, <1>2, <2>1, <2>2 DEF Stamping, ShotCounts, measure
  <2> HIDE DEF y
  <2> QED BY <1>1, <1>2, <2>1, <2>3, <2>4, StampStepKeeps DEF StampSteps
<1>6. CASE step = "periodh"
  <2> DEFINE y == [to |-> "periodh", data |-> Half - 1]
  <2>1. Edge(y) /\ step' = "start"
    BY <1>6 DEF alt_timestamp_start, Do
  <2>2. /\ ~counter_is_running' /\ control' = {} /\ force_reload'
        /\ period'[1] = Half - 1 /\ period'[2] = Half - 1
    BY <1>2, <1>6, <2>1 DEF Edge, Running, Strobe, Stamping
  <2>3. y.data \in 0 .. Half - 1
    BY <1>3
  <2>4. Stamping' /\ ShotCounts'
    BY <1>1, <1>2, <2>1, <2>2 DEF Stamping, ShotCounts, measure
  <2> HIDE DEF y
  <2> QED BY <1>1, <1>2, <2>1, <2>3, <2>4, StampStepKeeps DEF StampSteps
<1>7. CASE step = "start"
  <2> DEFINE y == [to |-> "control", data |-> {"START"}]
  <2>1. Edge(y) /\ step' = "count"
    BY <1>7 DEF alt_timestamp_start, Do, Control
  <2>2. /\ counter_is_running' /\ control' = {} /\ ~force_reload' /\ period' = period
    BY <1>2, <2>1 DEF Edge, Running, Strobe
  <2>3. internal_counter' = Full
    <3>1. Value(period) = Full
      BY <1>2, <1>7, ValueOfHalves DEF Stamping
    <3> HIDE DEF Full
    <3> QED BY <1>2, <1>7, <2>1, <3>1
            DEF Edge, Counter, Reload, counter_load_value, counter_is_zero, Stamping
  <2> HIDE DEF Full
  <2>4. Stamping' /\ ShotCounts'
    BY <1>1, <1>2, <1>3, <1>7, <2>1, <2>2, <2>3 DEF Stamping, ShotCounts, Stamp, measure
  <2>5. y.to = "control"
    OBVIOUS
  <2> HIDE DEF y
  <2> QED BY <1>1, <1>2, <2>1, <2>4, <2>5, StampStepKeeps DEF StampSteps
<1> QED BY <1>1, <1>4, <1>5, <1>6, <1>7

\* A period in which the program does not write to the timer leaves what
\* is set up for the timestamp as it is.
LEMMA StampIdle ==
  ASSUME TimerInv, step \in StampSteps, NEW y, Edge(y), y.to \in {"none", "snap"}
  PROVE  /\ control' = {} /\ period' = period /\ ~force_reload'
         /\ y.to = "none" => counter_snapshot' = counter_snapshot
         /\ step \in {"stop", "periodl", "periodh", "start"} => ~counter_is_running'
         /\ step = "start" => internal_counter' = Full
         /\ step = "count" =>
              /\ internal_counter' = Full - Stamp(age + 1)
              /\ counter_is_running' <=> age + 1 <= Full
<1>1. /\ TimerTypeOK /\ Stamping /\ ShotCounts /\ age \in Nat /\ period \in Pairs
      /\ Full \in Nat /\ Full >= 3
  BY TimerConstants DEF TimerInv, TimerTypeOK, Pairs
<1>2. /\ control' = {} /\ period' = period /\ ~force_reload'
      /\ y.to = "none" => counter_snapshot' = counter_snapshot
      /\ counter_is_running' <=> /\ counter_is_running /\ ~force_reload
                                 /\ internal_counter # 0
  BY <1>1 DEF Edge, Stamping, Running, Strobe, counter_is_zero
<1>3. step \in {"start", "count"} => Value(period) = Full
  BY <1>1, ValueOfHalves DEF Stamping
<1> HIDE DEF Full
<1>4. step = "start" => internal_counter' = Full
  BY <1>1, <1>3 DEF Edge, Counter, Reload, counter_load_value, counter_is_zero, Stamping
<1>5. ASSUME step = "count"
      PROVE  /\ internal_counter' = Full - Stamp(age + 1)
             /\ counter_is_running' <=> age + 1 <= Full
  <2>1. /\ internal_counter = Full - Stamp(age) /\ ~force_reload
        /\ counter_is_running <=> age <= Full
    BY <1>1, <1>5 DEF ShotCounts
  <2>2. CASE age < Full
    BY <1>1, <1>2, <2>1, <2>2 DEF Edge, Counter, Reload, counter_is_zero, Stamp
  <2>3. CASE age = Full
    BY <1>1, <1>2, <1>3, <1>5, <2>1, <2>3
       DEF Edge, Counter, Reload, counter_load_value, counter_is_zero, Stamp
  <2>4. CASE age > Full
    BY <1>1, <1>2, <2>1, <2>4 DEF Edge, Counter, Reload, counter_is_zero, Stamp
  <2> QED BY <1>1, <2>2, <2>3, <2>4
<1> QED BY <1>1, <1>2, <1>4, <1>5 DEF Stamping

\* alt_timestamp: the snapshot holds one moment, and it is that of the call.
LEMMA StampKeeps == TimerInv /\ alt_timestamp => TimerInv'
<1> SUFFICES ASSUME TimerInv, alt_timestamp PROVE TimerInv'
  OBVIOUS
<1>1. UNCHANGED <<ts_freq, measure, age, reloads>> /\ age \in Nat /\ read \in Nat
  BY DEF alt_timestamp, Config, TimerInv
<1>2. CASE step = "end"
  <2>1. step' = "no_timestamp" /\ Edge(None) /\ read' = Full
    BY <1>2 DEF alt_timestamp, Do
  <2>2. /\ step \in MainSteps /\ step' \in MainSteps /\ Counting /\ TimerTypeOK
        /\ timer_period = LOAD_VALUE /\ "ITO" \notin control /\ Full \in Nat
        /\ {first_value, second_value, computation_time} \subseteq 0 .. Full
        /\ spent \in Nat /\ reloads \in Nat
    BY <1>2, <2>1, TimerConstants DEF MainSteps, TimerInv, Counting, TimerTypeOK
  <2>3. control' = control
    BY <2>1, <2>2, CountingEdge DEF None
  <2> HIDE DEF Full
  <2> QED BY <1>1, <2>1, <2>2, <2>3, MainStepKeeps DEF None, measure
<1>3. CASE step = "count"
  <2> DEFINE y == [to |-> "snap", data |-> 0]
  <2>1. step' = "ts_low" /\ Edge(y) /\ read' = read
    BY <1>3 DEF alt_timestamp, Do
  <2>2. /\ Stamping /\ ShotCounts /\ internal_counter \in 0 .. Full
    BY <1>3 DEF TimerInv, StampSteps, TimerTypeOK
  <2>3. control' = {} /\ period' = period
    BY <1>3, <2>1, StampIdle DEF StampSteps
  <2>4. Value(counter_snapshot') = Full - Stamp(age)
    <3>1. counter_snapshot' = Halves(internal_counter)
      BY <2>1 DEF Edge
    <3> QED BY <1>3, <2>2, <3>1, HalvesOfValue DEF ShotCounts
  <2> HIDE DEF y, Full
  <2>5. Stamping' /\ ShotCounts'
    BY <1>1, <1>3, <2>1, <2>2, <2>3, <2>4 DEF Stamping, ShotCounts, Stamp, measure
  <2>6. y.to = "snap"
    BY DEF y
  <2> QED BY <1>1, <2>1, <2>5, <2>6, StampStepKeeps DEF StampSteps
<1>4. CASE step = "ts_low"
  <2>1. step' = "ts_high" /\ Edge(None) /\ read' = counter_snapshot[2]
    BY <1>4 DEF alt_timestamp, Do, snap_read_value
  <2>2. Stamping /\ ShotCounts /\ counter_snapshot \in Pairs /\ Half \in Nat
    BY <1>4, TimerConstants DEF TimerInv, StampSteps, TimerTypeOK, Pairs
  <2>3. control' = {} /\ period' = period /\ counter_snapshot' = counter_snapshot
    BY <1>4, <2>1, StampIdle DEF StampSteps, None
  <2>4. read' \in Nat
    BY <2>1, <2>2 DEF Pairs
  <2> HIDE DEF Full
  <2>5. Stamping' /\ ShotCounts'
    BY <1>1, <1>4, <2>1, <2>2, <2>3 DEF Stamping, ShotCounts, Stamp, measure
  <2> QED BY <1>1, <2>1, <2>4, <2>5, StampStepKeeps DEF StampSteps, None
<1>5. CASE step = "ts_high"
  <2>1. /\ step' = "timestamp" /\ Edge(None)
        /\ read' = Full - (counter_snapshot[1] * Half + read)
    BY <1>5 DEF alt_timestamp, Do, snap_read_value
  <2>2. Stamping /\ ShotCounts
    BY <1>5 DEF TimerInv, StampSteps
  <2>3. control' = {} /\ period' = period
    BY <1>5, <2>1, StampIdle DEF StampSteps, None
  <2>4. read' = Stamp(age) /\ read' \in Nat
    <3>1. Value(counter_snapshot) = counter_snapshot[1] * Half + read
      BY <1>5, <2>2 DEF ShotCounts, Value
    <3>2. read' = Full - (Full - Stamp(age))
      BY <1>5, <2>1, <2>2, <3>1 DEF ShotCounts
    <3> HIDE DEF Full
    <3> QED BY <1>1, <3>2, TimerConstants DEF Stamp
  <2> HIDE DEF Full
  <2>5. Stamping' /\ ShotCounts'
    BY <1>1, <1>5, <2>1, <2>2, <2>3, <2>4 DEF Stamping, ShotCounts, Stamp, measure
  <2> QED BY <1>1, <2>1, <2>4, <2>5, StampStepKeeps DEF StampSteps, None
<1> QED BY <1>2, <1>3, <1>4, <1>5 DEF alt_timestamp, Do

-----------------------------------------------------------------------------
(* The timer: what is measured *)

\* A period without an access, within a measurement or elsewhere in main.
LEMMA MainIdleKeeps == TimerInv /\ step \in MainSteps /\ Elsewhere => TimerInv'
<1> SUFFICES ASSUME TimerInv, step \in MainSteps, Elsewhere PROVE TimerInv'
  OBVIOUS
<1>1. /\ Edge(None) /\ step \notin {"end", "no_timestamp"}
      /\ UNCHANGED <<ts_freq, step, measure, read>>
      /\ Measuring => age < Longest - 3 /\ Aged
      /\ ~Measuring => UNCHANGED <<age, reloads>>
  BY DEF Elsewhere, Config, MainSteps, Measuring
<1>2. /\ Counting /\ TimerTypeOK /\ counter_snapshot \in Pairs
      /\ {first_value, second_value, computation_time} \subseteq 0 .. Full
      /\ age \in Nat /\ read \in Nat /\ spent \in Nat /\ reloads \in Nat
  BY DEF TimerInv, TimerTypeOK, Pairs
<1>3. control' = control /\ counter_snapshot' = counter_snapshot
  BY <1>1, <1>2, CountingEdge DEF None
<1>4. age' \in Nat /\ reloads' \in Nat
  BY <1>1, <1>2 DEF Aged
<1>5. FirstValue' = FirstValue /\ SecondValue' = SecondValue
  BY <1>1, <1>3 DEF FirstValue, SecondValue, measure
<1>6. Measuring => CountedDown'
  <2> SUFFICES ASSUME Measuring PROVE CountedDown'
    OBVIOUS
  <2>1. CountedDown /\ FirstValue \in 0 .. Full
    BY <1>2, ValueOfHalves DEF TimerInv, FirstValue
  <2>2. FirstValue \in Nat /\ FirstValue <= LOAD_VALUE /\ age < Longest /\ age < Longest - 3
        /\ Aged
    BY <1>1, <1>2, <2>1, TimerConstants DEF CountedDown
  <2>3. PICK n \in {0, 1} : /\ FirstValue - internal_counter = age + 1 - n * (LOAD_VALUE + 1)
                            /\ Reported(-n)
    BY <2>1 DEF CountedDown
  <2> HIDE DEF Full
  <2>4. \E p \in {0, 1} :
          /\ FirstValue - internal_counter' = (age + 1) + 1 - p * (LOAD_VALUE + 1)
          /\ Reported(-p)'
    BY <1>1, <1>2, <2>2, <2>3, AgedCountsDown DEF None, Aged, measure
  <2>5. age' = age + 1 /\ age' <= Longest - 3 /\ age' <= Longest - 2 /\ age' <= Longest - 1
    BY <1>2, <2>2, TimerConstants DEF Aged
  <2> QED BY <1>1, <1>3, <1>5, <2>1, <2>2, <2>4, <2>5 DEF CountedDown, Measuring
<1>7. step \in {"second_high", "second_low", "add"} => IntervalKnown'
  BY <1>1, <1>3, <1>5
     DEF TimerInv, IntervalKnown, Reported, compute_time_interval, measure, Measuring
<1>8. step \in {"first_snap", "end"} => Reported(0)'
  BY <1>1 DEF TimerInv, Reported, measure, Measuring
<1>9. /\ step = "period" => timer_period' = 0
      /\ step # "period" => timer_period' = LOAD_VALUE
      /\ step \notin {"period", "start_timer"} => "ITO" \notin control'
      /\ step \in {"period", "start_timer"} =>
           computation_time' = 0 /\ spent' = 0 /\ reloads' = 0
  BY <1>1, <1>2, <1>3 DEF TimerInv, Counting, measure, Measuring
<1>10. {first_value', second_value', computation_time'} \subseteq 0 .. Full
  BY <1>1, <1>2 DEF measure
<1> HIDE DEF Full
<1> QED BY <1>1, <1>2, <1>4, <1>6, <1>7, <1>8, <1>9, <1>10, MainStepKeeps DEF None, measure, Measuring

\* The same for a timestamp: only the periods after the start are counted.
LEMMA StampIdleKeeps == TimerInv /\ step \in StampSteps /\ Elsewhere => TimerInv'
<1> SUFFICES ASSUME TimerInv, step \in StampSteps, Elsewhere PROVE TimerInv'
  OBVIOUS
<1>1. /\ Edge(None) /\ step # "timestamp"
      /\ UNCHANGED <<ts_freq, step, measure, read, reloads>>
      /\ step = "count" => age' = age + 1
      /\ step # "count" => age' = age
  BY DEF Elsewhere, Config, StampSteps, Measuring
<1>2. /\ Stamping /\ ShotCounts /\ age \in Nat /\ read \in Nat
  BY DEF TimerInv
<1>3. /\ control' = {} /\ period' = period /\ ~force_reload'
      /\ counter_snapshot' = counter_snapshot
      /\ step \in {"stop", "periodl", "periodh", "start"} => ~counter_is_running'
      /\ step = "start" => internal_counter' = Full
      /\ step = "count" => /\ internal_counter' = Full - Stamp(age + 1)
                           /\ counter_is_running' <=> age + 1 <= Full
  BY <1>1, StampIdle DEF None
<1> HIDE DEF Full
<1>4. Stamping'
  BY <1>1, <1>2, <1>3 DEF Stamping, measure
<1>5. ShotCounts'
  <2>1. CASE step = "count"
    <3>1. Stamp(age)' = Stamp(age + 1)
      BY <1>1, <2>1 DEF Stamp
    <3>2. age' <= Full <=> age + 1 <= Full
      BY <1>1, <2>1
    <3> HIDE DEF Stamp
    <3> QED BY <1>1, <1>3, <2>1, <3>1, <3>2 DEF ShotCounts
  <2>2. CASE step # "count"
    <3>1. Stamp(age)' = Stamp(age)
      BY <1>1, <2>2 DEF Stamp
    <3> QED BY <1>1, <1>2, <1>3, <2>2, <3>1 DEF ShotCounts
  <2> QED BY <2>1, <2>2
<1>6. age' \in Nat
  BY <1>1, <1>2
<1> QED BY <1>1, <1>2, <1>4, <1>5, <1>6, StampStepKeeps DEF None

\* The invariant of the timer and its programs.
LEMMA TimerInvariant == TimerSpec => []TimerInv
<1>1. TimerInit => TimerInv
  <2> SUFFICES ASSUME TimerInit PROVE TimerInv
    OBVIOUS
  <2>1. LOAD_VALUE \in 0 .. Full /\ 0 \in 0 .. Full /\ <<0, 0>> \in Pairs
    BY TimerConstants DEF Pairs
  <2>2. period \in Pairs /\ counter_snapshot \in Pairs
    BY <2>1, HalvesOfValue DEF TimerInit
  <2>3. TimerTypeOK
    BY <2>1, <2>2 DEF TimerInit, TimerTypeOK, Pairs
  <2> QED BY <2>3 DEF TimerInit, TimerInv, Generated, MainSteps, StampSteps, Measuring
<1>2. TimerInv /\ [TimerNext]_timerVars => TimerInv'
  <2>1. ASSUME TimerInv, UNCHANGED timerVars PROVE TimerInv'
    BY <2>1 DEF timerVars, device, measure, TimerInv, TimerTypeOK, Generated, Counting, Reported,
                CountedDown, FirstValue, IntervalKnown, SecondValue, compute_time_interval,
                Stamping, ShotCounts, Measuring
  <2>2. ASSUME TimerInv, Elsewhere PROVE TimerInv'
    BY <2>2, MainIdleKeeps, StampIdleKeeps DEF TimerInv, Elsewhere
  <2> QED BY <2>1, <2>2, MacroKeeps, StampStartKeeps, StampKeeps, PeriodKeeps, StartKeeps,
             FirstValueKeeps, SecondValueKeeps, MainKeeps DEF TimerNext
<1> QED BY <1>1, <1>2, PTL DEF TimerSpec

\* main reports the clock periods between the two snapshots of every
\* measurement, less one for each reload, and no interrupt disturbs one.
THEOREM TimeIsMeasured == TimerSpec => []MeasuredTime
<1>1. TimerInv => MeasuredTime
  <2> SUFFICES ASSUME TimerInv PROVE MeasuredTime
    OBVIOUS
  <2>1. TimerTypeOK /\ spent \in Nat /\ reloads \in Nat
    BY DEF TimerInv
  <2>2. Undisturbed
    BY DEF TimerInv, Undisturbed, irq, Counting, Stamping, MainSteps
  <2>3. step \in {"first_snap", "end"} => computation_time = (spent - reloads) % (Full + 1)
    <3>1. spent - reloads - 0 = spent - reloads
      BY <2>1
    <3> QED BY <3>1 DEF TimerInv, Reported
  <2> QED BY <2>1, <2>2, <2>3, SumIsReported DEF MeasuredTime
<1> QED BY <1>1, TimerInvariant, PTL

\* A timestamp counts the clock periods since alt_timestamp_start, up to the
\* end of the timer's only period, however the accesses are spaced.
THEOREM StampCounts == TimerSpec => []TimestampCounts
<1>1. TimerInv => TimestampCounts
  BY DEF TimerInv, TimestampCounts, ShotCounts, Stamp, StampSteps
<1> QED BY <1>1, TimerInvariant, PTL

\* Times measured and timestamps are true together.
THEOREM TimesAreTrue == TimerSpec => []TimesTrue
<1>1. MeasuredTime /\ TimestampCounts => TimesTrue
  BY DEF TimesTrue
<1> QED BY <1>1, TimeIsMeasured, StampCounts, PTL

HIDE WidthAssumption DEF W

-----------------------------------------------------------------------------
(* Quotients and induction along them.                                     *)

\* The quotient and the rest are what puts the number together again, ...
LEMMA QuotientRest ==
  ASSUME NEW b \in Nat \ {0}, NEW x \in Nat
  PROVE  /\ x \div b \in Nat /\ x % b \in 0 .. b - 1 /\ x % b \in Nat
         /\ x = b * (x \div b) + (x % b)
OBVIOUS

\* ... and nothing else is.
LEMMA QuotientUnique ==
  ASSUME NEW b \in Nat \ {0}, NEW q \in Nat, NEW r \in Nat, r < b
  PROVE  (b * q + r) \div b = q /\ (b * q + r) % b = r
<1> DEFINE x == b * q + r
<1>1. PICK p \in Nat, s \in Nat : p = x \div b /\ s = x % b /\ s < b /\ x = b * p + s
  <2>1. x \in Nat
    OBVIOUS
  <2> HIDE DEF x
  <2> QED BY <2>1, QuotientRest
<1>2. b * q + r = b * p + s
  BY <1>1
<1>3. ~(p < q)
  <2>1. p < q => b * (p + 1) <= b * q
    OBVIOUS
  <2>2. b * (p + 1) = b * p + b
    OBVIOUS
  <2> QED BY <1>1, <1>2, <2>1, <2>2
<1>4. ~(q < p)
  <2>1. q < p => b * (q + 1) <= b * p
    OBVIOUS
  <2>2. b * (q + 1) = b * q + b
    OBVIOUS
  <2> QED BY <1>1, <1>2, <2>1, <2>2
<1>5. p = q
  BY <1>3, <1>4
<1> QED BY <1>1, <1>2, <1>5

\* A quotient is smaller.
LEMMA QuotientSmaller ==
  ASSUME NEW b \in Nat, b >= 2, NEW x \in Nat \ {0}
  PROVE  x \div b \in Nat /\ x \div b < x
<1>1. PICK q \in Nat, r \in Nat : q = x \div b /\ x = b * q + r
  BY QuotientRest
<1>2. 2 * q <= b * q
  OBVIOUS
<1> QED BY <1>1, <1>2

\* What holds below t, and of a number when it holds of its quotient, holds.
LEMMA QuotientInduction ==
  ASSUME NEW b \in Nat, b >= 2, NEW t \in Nat \ {0}, NEW S,
         \A x \in Nat : x < t => x \in S,
         \A x \in Nat : x >= t /\ x \div b \in S => x \in S
  PROVE  Nat \subseteq S
<1> DEFINE T == Nat \ S
<1>1. SUFFICES ASSUME T # {} PROVE FALSE
  OBVIOUS
<1>2. PICK x \in T : \A y \in T : x <= y
  BY <1>1, LeastElement
<1>3. x \in Nat \ {0} /\ x >= t
  BY <1>2
<1>4. x \div b \in Nat /\ x \div b < x
  BY <1>3, QuotientSmaller
<1>5. x \div b \in S
  BY <1>2, <1>3, <1>4
<1> QED BY <1>2, <1>3, <1>5

\* To divide by n is to divide by b and then by p.
InSteps(n, b, p) ==
  /\ n \in Nat \ {0} /\ n \div b = p
  /\ \A x \in Nat : /\ (x \div b) \div p = x \div n
                    /\ (x % n) \div b = (x \div b) % p
                    /\ (x % n) % b = x % b

LEMMA QuotientTwice ==
  ASSUME NEW b \in Nat \ {0}, NEW p \in Nat \ {0}
  PROVE  InSteps(b * p, b, p)
<1>1. b * p \in Nat \ {0}
  OBVIOUS
<1>2. (b * p) \div b = p
  BY QuotientUnique, b * p + 0 = b * p
<1>3. ASSUME NEW x \in Nat
      PROVE  /\ (x \div b) \div p = x \div (b * p)
             /\ (x % (b * p)) \div b = (x \div b) % p
             /\ (x % (b * p)) % b = x % b
  <2>1. PICK q \in Nat, r \in Nat : q = x \div b /\ r = x % b /\ x = b * q + r /\ r < b
    BY QuotientRest
  <2>2. PICK u \in Nat, v \in Nat : u = q \div p /\ v = q % p /\ q = p * u + v /\ v < p
    BY QuotientRest
  <2>3. x = (b * p) * u + (b * v + r)
    <3>1. b * (p * u + v) = (b * p) * u + b * v
      OBVIOUS
    <3>2. x = b * (p * u + v) + r
      BY <2>1, <2>2
    <3>3. PICK m \in Nat, n \in Nat : m = (b * p) * u /\ n = b * v
      OBVIOUS
    <3>4. x = (m + n) + r
      BY <3>1, <3>2, <3>3
    <3>5. x = m + (n + r)
      BY <3>4
    <3> QED BY <3>3, <3>5
  <2>4. b * v + r \in Nat /\ b * v + r < b * p
    <3>1. b * (v + 1) <= b * p /\ b * (v + 1) = b * v + b
      BY <2>2
    <3> QED BY <2>1, <3>1
  <2>5. b * p \in Nat \ {0}
    OBVIOUS
  <2>6. x \div (b * p) = u /\ x % (b * p) = b * v + r
    <3> DEFINE m == b * p
               s == b * v + r
    <3>1. m \in Nat \ {0} /\ s \in Nat /\ s < m /\ x = m * u + s
      BY <2>3, <2>4, <2>5
    <3> HIDE DEF m, s
    <3>2. x \div m = u /\ x % m = s
      BY <3>1, QuotientUnique
    <3> QED BY <3>2 DEF m, s
  <2>7. (b * v + r) \div b = v /\ (b * v + r) % b = r
    BY <2>1, QuotientUnique
  <2> QED BY <2>1, <2>2, <2>6, <2>7
<1> QED BY <1>1, <1>2, <1>3 DEF InSteps

\* A function defined at x from its value at the quotient of x, up to n.
Recurs(f, n, b, t, z, s) ==
  \A x \in 0 .. n : f[x] = IF x < t THEN z[x] ELSE s[f[x \div b]][x]

\* There is one, however far it is to go; ...
LEMMA RecursExist ==
  ASSUME NEW b \in Nat, b >= 2, NEW t \in Nat \ {0}, NEW z, NEW s
  PROVE  \A n \in Nat : \E f : Recurs(f, n, b, t, z, s)
<1> DEFINE S == {n \in Nat : \E f : Recurs(f, n, b, t, z, s)}
<1>1. 0 \in S
  <2> DEFINE g == [i \in 0 .. 0 |-> z[i]]
  <2>1. Recurs(g, 0, b, t, z, s)
    BY DEF Recurs
  <2> QED BY <2>1
<1>2. ASSUME NEW n \in Nat, n \in S PROVE n + 1 \in S
  <2>1. PICK f : Recurs(f, n, b, t, z, s)
    BY <1>2
  <2> DEFINE last == IF n + 1 < t THEN z[n + 1] ELSE s[f[(n + 1) \div b]][n + 1]
             g == [i \in 0 .. n + 1 |-> IF i = n + 1 THEN last ELSE f[i]]
  <2>2. \A x \in 0 .. n : x \div b \in 0 .. n
    <3>1. 0 \div b = 0
      OBVIOUS
    <3>2. \A x \in Nat \ {0} : x \div b \in Nat /\ x \div b < x
      BY QuotientSmaller
    <3> QED BY <3>1, <3>2
  <2>3. (n + 1) \div b \in 0 .. n
    BY QuotientSmaller
  <2>4. \A x \in 0 .. n : g[x] = f[x]
    OBVIOUS
  <2>5. g[n + 1] = last
    OBVIOUS
  <2> HIDE DEF g
  <2>6. ASSUME NEW x \in 0 .. n + 1
        PROVE  g[x] = IF x < t THEN z[x] ELSE s[g[x \div b]][x]
    <3>1. CASE x = n + 1
      BY <2>3, <2>4, <2>5, <3>1
    <3>2. CASE x # n + 1
      <4>1. x \in 0 .. n /\ x \div b \in 0 .. n
        BY <2>2, <3>2
      <4>2. f[x] = IF x < t THEN z[x] ELSE s[f[x \div b]][x]
        BY <2>1, <4>1 DEF Recurs
      <4> QED BY <2>4, <4>1, <4>2
    <3> QED BY <3>1, <3>2
  <2>7. Recurs(g, n + 1, b, t, z, s)
    BY <2>6 DEF Recurs
  <2> QED BY <2>7
<1>3. Nat \subseteq S
  <2> HIDE DEF S
  <2> QED BY <1>1, <1>2, SetInduction
<1> QED BY <1>3

\* ... two of them agree as far as both go; ...
LEMMA RecursAgree ==
  ASSUME NEW b \in Nat, b >= 2, NEW t \in Nat \ {0}, NEW z, NEW s,
         NEW n \in Nat, NEW m \in 0 .. n, NEW f, NEW g,
         Recurs(f, n, b, t, z, s), Recurs(g, m, b, t, z, s)
  PROVE  f[m] = g[m]
<1> DEFINE S == {x \in Nat : x <= m => f[x] = g[x]}
<1>1. ASSUME NEW x \in Nat, x < t PROVE x \in S
  BY <1>1 DEF Recurs
<1>2. ASSUME NEW x \in Nat, x >= t, x \div b \in S PROVE x \in S
  <2>1. x \div b \in Nat /\ x \div b < x
    BY <1>2, QuotientSmaller
  <2>2. CASE x <= m
    <3>1. f[x \div b] = g[x \div b]
      BY <1>2, <2>1, <2>2
    <3>2. x \in 0 .. n /\ x \in 0 .. m /\ ~(x < t)
      BY <1>2, <2>2
    <3>3. f[x] = s[f[x \div b]][x] /\ g[x] = s[g[x \div b]][x]
      BY <3>2 DEF Recurs
    <3> QED BY <3>1, <3>3
  <2>3. CASE ~(x <= m)
    BY <2>3
  <2> QED BY <2>2, <2>3
<1>3. Nat \subseteq S
  <2> HIDE DEF S
  <2> QED BY <1>1, <1>2, QuotientInduction
<1> QED BY <1>3

\* ... so the recursive definition defines one, with values where they should be.
Recursive(f, b, t, T, z, s) ==
  /\ f \in [Nat -> T]
  /\ f = [x \in Nat |-> IF x < t THEN z[x] ELSE s[f[x \div b]][x]]

LEMMA RecursiveQuotient ==
  ASSUME NEW b \in Nat, b >= 2, NEW t \in Nat \ {0},
         NEW T, NEW z \in [Nat -> T], NEW s \in [T -> [Nat -> T]]
  PROVE  \E f : Recursive(f, b, t, T, z, s)
<1> DEFINE F(n) == CHOOSE f : Recurs(f, n, b, t, z, s)
           p == [x \in Nat |-> F(x)[x]]
           once(f) == [x \in Nat |-> IF x < t THEN z[x] ELSE s[f[x \div b]][x]]
<1>1. \A n \in Nat : Recurs(F(n), n, b, t, z, s)
  BY RecursExist
<1>2. ASSUME NEW x \in Nat
      PROVE  p[x] = IF x < t THEN z[x] ELSE s[p[x \div b]][x]
  <2>1. p[x] = F(x)[x] /\ (x \div b \in Nat => p[x \div b] = F(x \div b)[x \div b])
    OBVIOUS
  <2>2. Recurs(F(x), x, b, t, z, s)
    BY <1>1
  <2> HIDE DEF p
  <2>3. F(x)[x] = IF x < t THEN z[x] ELSE s[F(x)[x \div b]][x]
    <3> HIDE DEF F
    <3> QED BY <2>2 DEF Recurs
  <2>4. CASE x >= t
    <3>1. x \div b \in Nat /\ x \div b < x
      <4>1. x \in Nat \ {0}
        BY <2>4
      <4> QED BY <4>1, QuotientSmaller
    <3>2. Recurs(F(x \div b), x \div b, b, t, z, s)
      BY <1>1, <3>1
    <3> DEFINE f == F(x)
               g == F(x \div b)
               q == x \div b
    <3>3. f[q] = g[q]
      <4>1. Recurs(f, x, b, t, z, s) /\ Recurs(g, q, b, t, z, s) /\ q \in 0 .. x
        BY <2>2, <3>1, <3>2
      <4> HIDE DEF f, g, q
      <4> QED BY <4>1, RecursAgree
    <3>4. F(x)[x \div b] = F(x \div b)[x \div b]
      BY <3>3
    <3> HIDE DEF F, f, g, q
    <3> QED BY <2>1, <2>3, <3>1, <3>4
  <2>5. CASE ~(x >= t)
    <3> HIDE DEF F
    <3> QED BY <2>1, <2>3, <2>5
  <2> QED BY <2>4, <2>5
<1> HIDE DEF F
<1>3. p = once(p)
  <2>1. p = [x \in Nat |-> p[x]]
    OBVIOUS
  <2> HIDE DEF p
  <2> QED BY <1>2, <2>1
<1>4. p \in [Nat -> T]
  <2> DEFINE S == {x \in Nat : p[x] \in T}
  <2>1. DOMAIN p = Nat /\ p = [x \in Nat |-> p[x]]
    OBVIOUS
  <2> HIDE DEF p
  <2>2. ASSUME NEW x \in Nat, x < t PROVE x \in S
    BY <1>2, <2>2
  <2>3. ASSUME NEW x \in Nat, x >= t, x \div b \in S PROVE x \in S
    BY <1>2, <2>3
  <2>4. Nat \subseteq S
    <3> HIDE DEF S
    <3> QED BY <2>2, <2>3, QuotientInduction
  <2> QED BY <2>1, <2>4
<1> HIDE DEF p
<1> QED BY <1>3, <1>4 DEF Recursive
-----------------------------------------------------------------------------
(* Numerals.                                                               *)

\* How many digits, ...
CountOfDigits(f, b) ==
  f \in [Nat -> Nat] /\ \A x \in Nat : f[x] = IF x < b THEN 1 ELSE 1 + f[x \div b]

LEMMA DigitCountIs ==
  ASSUME NEW b \in Nat, b >= 2
  PROVE  \E f : CountOfDigits(f, b) /\ \A v \in Nat : DigitCount(v, b) = f[v]
<1> DEFINE once(f) == [x \in Nat |-> IF x < b THEN 1 ELSE 1 + f[x \div b]]
           z == [x \in Nat |-> 1]
           s == [n \in Nat |-> [x \in Nat |-> 1 + n]]
           f == CHOOSE g : g = once(g)
<1>1. \E p : p = once(p)
  <2>1. z \in [Nat -> Nat] /\ s \in [Nat -> [Nat -> Nat]]
    OBVIOUS
  <2>2. \A x \in Nat : z[x] = 1
    OBVIOUS
  <2>3. \A n \in Nat : \A x \in Nat : s[n][x] = 1 + n
    OBVIOUS
  <2> HIDE DEF z, s
  <2>4. b \in Nat \ {0}
    OBVIOUS
  <2>9. PICK p : Recursive(p, b, b, Nat, z, s)
    BY <2>1, <2>4, RecursiveQuotient
  <2>5. /\ p \in [Nat -> Nat]
        /\ p = [x \in Nat |-> IF x < b THEN z[x] ELSE s[p[x \div b]][x]]
    BY <2>9 DEF Recursive
  <2>6. ASSUME NEW x \in Nat
        PROVE  (IF x < b THEN z[x] ELSE s[p[x \div b]][x]) = IF x < b THEN 1 ELSE 1 + p[x \div b]
    <3>1. x \div b \in Nat /\ p[x \div b] \in Nat
      BY <2>4, <2>5, QuotientRest
    <3> QED BY <2>2, <2>3, <3>1
  <2>7. p = once(p)
    BY <2>5, <2>6
  <2> QED BY <2>7
<1>2. f = once(f)
  <2> HIDE DEF once
  <2> QED BY <1>1
<1>3. \A v \in Nat : DigitCount(v, b) = f[v]
  BY DEF DigitCount
<1> HIDE DEF f
<1>4. \A x \in Nat : f[x] = IF x < b THEN 1 ELSE 1 + f[x \div b]
  BY <1>2
<1>5. DOMAIN f = Nat /\ f = [x \in Nat |-> f[x]]
  BY <1>2
<1>6. f \in [Nat -> Nat]
  <2> DEFINE S == {x \in Nat : f[x] \in Nat}
  <2>1. Nat \subseteq S
    <3>1. ASSUME NEW x \in Nat, x < b PROVE x \in S
      BY <1>4, <3>1
    <3>2. ASSUME NEW x \in Nat, x >= b, x \div b \in S PROVE x \in S
      BY <1>4, <3>2
    <3>3. b \in Nat \ {0}
      OBVIOUS
    <3> HIDE DEF S
    <3> QED BY <3>1, <3>2, <3>3, QuotientInduction
  <2> QED BY <1>5, <2>1
<1> QED BY <1>3, <1>4, <1>6 DEF CountOfDigits

\* ... the weight of the first, ...
PlaceOfFirst(f, b) ==
  f \in [Nat -> Nat \ {0}] /\ \A x \in Nat : f[x] = IF x < b THEN 1 ELSE b * f[x \div b]

LEMMA PlaceValueIs ==
  ASSUME NEW b \in Nat, b >= 2
  PROVE  \E f : PlaceOfFirst(f, b) /\ \A v \in Nat : PlaceValue(v, b) = f[v]
<1> DEFINE T == Nat \ {0}
           once(f) == [x \in Nat |-> IF x < b THEN 1 ELSE b * f[x \div b]]
           z == [x \in Nat |-> 1]
           s == [n \in T |-> [x \in Nat |-> b * n]]
           f == CHOOSE g : g = once(g)
<1>1. \E p : p = once(p)
  <2>1. z \in [Nat -> T] /\ s \in [T -> [Nat -> T]]
    OBVIOUS
  <2>2. \A x \in Nat : z[x] = 1
    OBVIOUS
  <2>3. \A n \in T : \A x \in Nat : s[n][x] = b * n
    OBVIOUS
  <2> HIDE DEF z, s, T
  <2>4. b \in Nat \ {0}
    OBVIOUS
  <2>9. PICK p : Recursive(p, b, b, T, z, s)
    BY <2>1, <2>4, RecursiveQuotient
  <2>5. /\ p \in [Nat -> T]
        /\ p = [x \in Nat |-> IF x < b THEN z[x] ELSE s[p[x \div b]][x]]
    BY <2>9 DEF Recursive
  <2>6. ASSUME NEW x \in Nat
        PROVE  (IF x < b THEN z[x] ELSE s[p[x \div b]][x]) = IF x < b THEN 1 ELSE b * p[x \div b]
    <3>1. x \div b \in Nat /\ p[x \div b] \in T
      BY <2>4, <2>5, QuotientRest
    <3> QED BY <2>2, <2>3, <3>1
  <2>7. p = once(p)
    BY <2>5, <2>6
  <2> QED BY <2>7
<1>2. f = once(f)
  <2> HIDE DEF once
  <2> QED BY <1>1
<1>3. \A v \in Nat : PlaceValue(v, b) = f[v]
  BY DEF PlaceValue
<1> HIDE DEF f
<1>4. \A x \in Nat : f[x] = IF x < b THEN 1 ELSE b * f[x \div b]
  BY <1>2
<1>5. DOMAIN f = Nat /\ f = [x \in Nat |-> f[x]]
  BY <1>2
<1>6. f \in [Nat -> T]
  <2> DEFINE S == {x \in Nat : f[x] \in T}
  <2>1. Nat \subseteq S
    <3>1. ASSUME NEW x \in Nat, x < b PROVE x \in S
      BY <1>4, <3>1
    <3>2. ASSUME NEW x \in Nat, x >= b, x \div b \in S PROVE x \in S
      BY <1>4, <3>2
    <3>3. b \in Nat \ {0}
      OBVIOUS
    <3> HIDE DEF S
    <3> QED BY <3>1, <3>2, <3>3, QuotientInduction
  <2> QED BY <1>5, <2>1
<1> QED BY <1>3, <1>4, <1>6 DEF PlaceOfFirst

\* A digit set holds whatever is looked up.
HasDigits(digit, S) == \A i \in Nat : digit[i] \in S

\* ... the numeral, a digit after those of the quotient, ...
NumeralFrom(f, b, digit, S) ==
  /\ f \in [Nat -> Seq(S)]
  /\ \A x \in Nat : f[x] = IF x < b THEN <<digit[x + 1]>>
                           ELSE Append(f[x \div b], digit[(x % b) + 1])

LEMMA NumeralIs ==
  ASSUME NEW b \in Nat, b >= 2, NEW digit, NEW S, HasDigits(digit, S)
  PROVE  \E f : NumeralFrom(f, b, digit, S) /\ \A v \in Nat : Numeral(v, b, digit) = f[v]
<1> USE DEF HasDigits
<1> DEFINE T == Seq(S)
           once(f) == [x \in Nat |-> IF x < b THEN <<digit[x + 1]>>
                                     ELSE Append(f[x \div b], digit[(x % b) + 1])]
           z == [x \in Nat |-> <<digit[x + 1]>>]
           s == [n \in T |-> [x \in Nat |-> Append(n, digit[(x % b) + 1])]]
           f == CHOOSE g : g = once(g)
<1>a. b \in Nat \ {0} /\ \A x \in Nat : x % b \in Nat /\ x \div b \in Nat
  <2>1. b \in Nat \ {0}
    OBVIOUS
  <2> QED BY <2>1, QuotientRest
<1>1. \E p : p = once(p)
  <2>1. z \in [Nat -> T] /\ s \in [T -> [Nat -> T]]
    <3>1. \A x \in Nat : <<digit[x + 1]>> \in T /\ digit[(x % b) + 1] \in S
      BY <1>a
    <3>2. ASSUME NEW n \in T, NEW x \in Nat PROVE Append(n, digit[(x % b) + 1]) \in T
      <4>1. PICK e \in S : e = digit[(x % b) + 1]
        BY <3>1
      <4> QED BY <4>1
    <3> QED BY <3>1, <3>2
  <2>2. \A x \in Nat : z[x] = <<digit[x + 1]>>
    OBVIOUS
  <2>3. \A n \in T : \A x \in Nat : s[n][x] = Append(n, digit[(x % b) + 1])
    OBVIOUS
  <2> HIDE DEF z, s, T
  <2>9. PICK p : Recursive(p, b, b, T, z, s)
    BY <2>1, <1>a, RecursiveQuotient
  <2>5. /\ p \in [Nat -> T]
        /\ p = [x \in Nat |-> IF x < b THEN z[x] ELSE s[p[x \div b]][x]]
    BY <2>9 DEF Recursive
  <2>6. ASSUME NEW x \in Nat
        PROVE  (IF x < b THEN z[x] ELSE s[p[x \div b]][x])
                 = IF x < b THEN <<digit[x + 1]>> ELSE Append(p[x \div b], digit[(x % b) + 1])
    <3>1. x \div b \in Nat /\ p[x \div b] \in T
      BY <1>a, <2>5
    <3> QED BY <2>2, <2>3, <3>1
  <2>7. p = once(p)
    BY <2>5, <2>6
  <2> QED BY <2>7
<1>2. f = once(f)
  <2> HIDE DEF once
  <2> QED BY <1>1
<1>3. \A v \in Nat : Numeral(v, b, digit) = f[v]
  BY DEF Numeral
<1> HIDE DEF f
<1>4. \A x \in Nat : f[x] = IF x < b THEN <<digit[x + 1]>>
                            ELSE Append(f[x \div b], digit[(x % b) + 1])
  BY <1>2
<1>5. DOMAIN f = Nat /\ f = [x \in Nat |-> f[x]]
  BY <1>2
<1>6. f \in [Nat -> T]
  <2> DEFINE R == {x \in Nat : f[x] \in T}
  <2>1. Nat \subseteq R
    <3>1. ASSUME NEW x \in Nat, x < b PROVE x \in R
      <4>1. PICK e \in S : e = digit[x + 1]
        OBVIOUS
      <4>2. f[x] = <<e>>
        BY <1>4, <3>1, <4>1
      <4>3. <<e>> \in Seq(S)
        OBVIOUS
      <4> QED BY <4>2, <4>3
    <3>2. ASSUME NEW x \in Nat, x >= b, x \div b \in R PROVE x \in R
      <4>1. PICK e \in S : e = digit[(x % b) + 1]
        BY <1>a
      <4>2. f[x] = Append(f[x \div b], e)
        <5>1. ~(x < b)
          BY <3>2
        <5>2. f[x] = Append(f[x \div b], digit[(x % b) + 1])
          BY <1>4, <5>1, Zenon
        <5> QED BY <4>1, <5>2
      <4>3. PICK n \in Seq(S) : n = f[x \div b]
        BY <3>2
      <4>4. Append(n, e) \in Seq(S)
        OBVIOUS
      <4> QED BY <4>2, <4>3, <4>4
    <3> HIDE DEF R
    <3> QED BY <3>1, <3>2, <1>a, QuotientInduction
  <2> QED BY <1>5, <2>1
<1> QED BY <1>3, <1>4, <1>6 DEF NumeralFrom

\* ... and what comes out digit by digit from a place on.
DigitsFrom(f, b, digit, S) ==
  /\ f \in [Nat -> [Nat -> Seq(S)]]
  /\ \A p \in Nat, x \in Nat :
       f[p][x] = IF p = 0 THEN <<>> ELSE <<digit[(x \div p) + 1]>> \o f[p \div b][x % p]

LEMMA PlaceDigitsIs ==
  ASSUME NEW b \in Nat, b >= 2, NEW digit, NEW S, HasDigits(digit, S)
  PROVE  \E f : /\ DigitsFrom(f, b, digit, S)
                /\ \A v \in Nat : PlaceDigits(v, b, digit) = f[PlaceValue(v, b)][v]
<1> USE DEF HasDigits
<1> DEFINE T == [Nat -> Seq(S)]
           none == [x \in Nat |-> <<>>]
           more(g, p) == [x \in Nat |-> <<digit[(x \div p) + 1]>> \o g[x % p]]
           once(f) == [p \in Nat |-> IF p = 0 THEN none ELSE more(f[p \div b], p)]
           z == [p \in Nat |-> none]
           s == [g \in T |-> [p \in Nat |-> IF p = 0 THEN none ELSE more(g, p)]]
           f == CHOOSE g : g = once(g)
<1>a. b \in Nat \ {0} /\ 1 \in Nat \ {0}
  OBVIOUS
<1>1. none \in T
  OBVIOUS
<1>2. ASSUME NEW g \in T, NEW p \in Nat \ {0} PROVE more(g, p) \in T
  <2>1. ASSUME NEW x \in Nat PROVE <<digit[(x \div p) + 1]>> \o g[x % p] \in Seq(S)
    <3>1. x \div p \in Nat /\ x % p \in Nat
      BY QuotientRest
    <3>2. PICK e \in S : e = digit[(x \div p) + 1]
      BY <3>1
    <3>3. PICK r \in Seq(S) : r = g[x % p]
      BY <3>1
    <3>4. <<e>> \o r \in Seq(S)
      OBVIOUS
    <3> QED BY <3>2, <3>3, <3>4
  <2> QED BY <2>1
<1> HIDE DEF T, none, more
<1>3. z \in [Nat -> T] /\ s \in [T -> [Nat -> T]]
  BY <1>1, <1>2
<1>4. \E g : g = once(g)
  <2>1. \A p \in Nat : z[p] = none
    OBVIOUS
  <2>2. \A g \in T, p \in Nat : s[g][p] = IF p = 0 THEN none ELSE more(g, p)
    OBVIOUS
  <2> HIDE DEF z, s
  <2>3. PICK g : Recursive(g, b, 1, T, z, s)
    BY <1>3, <1>a, RecursiveQuotient
  <2>4. /\ g \in [Nat -> T]
        /\ g = [p \in Nat |-> IF p < 1 THEN z[p] ELSE s[g[p \div b]][p]]
    BY <2>3 DEF Recursive
  <2>5. ASSUME NEW p \in Nat
        PROVE  (IF p < 1 THEN z[p] ELSE s[g[p \div b]][p])
                 = IF p = 0 THEN none ELSE more(g[p \div b], p)
    <3>1. p \div b \in Nat /\ g[p \div b] \in T
      BY <2>4, <1>a, QuotientRest
    <3> QED BY <2>1, <2>2, <3>1
  <2>6. g = once(g)
    BY <2>4, <2>5
  <2> QED BY <2>6
<1>5. f = once(f)
  <2> HIDE DEF once
  <2> QED BY <1>4
<1>6. \A v \in Nat : PlaceDigits(v, b, digit) = f[PlaceValue(v, b)][v]
  BY DEF PlaceDigits, none, more
<1> HIDE DEF f
<1>7. \A p \in Nat : f[p] = IF p = 0 THEN none ELSE more(f[p \div b], p)
  BY <1>5
<1>8. DOMAIN f = Nat /\ f = [p \in Nat |-> f[p]]
  BY <1>5
<1>9. f \in [Nat -> T]
  <2> DEFINE R == {p \in Nat : f[p] \in T}
  <2>1. Nat \subseteq R
    <3>1. ASSUME NEW p \in Nat, p < 1 PROVE p \in R
      BY <1>1, <1>7, <3>1
    <3>2. ASSUME NEW p \in Nat, p >= 1, p \div b \in R PROVE p \in R
      BY <1>2, <1>7, <3>2
    <3> HIDE DEF R
    <3> QED BY <3>1, <3>2, <1>a, QuotientInduction
  <2> QED BY <1>8, <2>1
<1>10. ASSUME NEW p \in Nat, NEW x \in Nat
       PROVE  f[p][x] = IF p = 0 THEN <<>> ELSE <<digit[(x \div p) + 1]>> \o f[p \div b][x % p]
  <2>1. none[x] = <<>>
    BY DEF none
  <2>2. more(f[p \div b], p)[x] = <<digit[(x \div p) + 1]>> \o f[p \div b][x % p]
    BY DEF more
  <2> QED BY <1>7, <2>1, <2>2
<1>11. DigitsFrom(f, b, digit, S)
  BY <1>9, <1>10 DEF DigitsFrom, T
<1> QED BY <1>6, <1>11

\* From one place further to the left, a digit follows those of the quotient.
FollowsQuotient(f, place, b, digit) ==
  \A y \in Nat : \A x \in Nat :
    f[b * place[y]][x] = Append(f[place[y]][x \div b], digit[(x % b) + 1])

LEMMA OnePlaceMore ==
  ASSUME NEW b \in Nat, b >= 2, NEW digit, NEW S, HasDigits(digit, S),
         NEW place, PlaceOfFirst(place, b), NEW f, DigitsFrom(f, b, digit, S)
  PROVE  FollowsQuotient(f, place, b, digit)
<1> USE DEF HasDigits
<1> DEFINE R == {y \in Nat : \A x \in Nat :
                   f[b * place[y]][x] = Append(f[place[y]][x \div b], digit[(x % b) + 1])}
<1>1. b \in Nat \ {0} /\ 1 \in Nat \ {0} /\ 1 \div b = 0 /\ b * 1 = b /\ b \div b = 1
  <2>1. (b * 0 + 1) \div b = 0 /\ (b * 1 + 0) \div b = 1
    BY QuotientUnique
  <2> QED BY <2>1
<1>2. \A p \in Nat : \A x \in Nat : p \div b \in Nat /\ f[p][x] \in Seq(S)
  BY <1>1, QuotientRest DEF DigitsFrom
<1>3. ASSUME NEW p \in Nat \ {0}, NEW x \in Nat
      PROVE  /\ x \div p \in Nat /\ x % p \in Nat /\ digit[(x \div p) + 1] \in S
             /\ f[p][x] = <<digit[(x \div p) + 1]>> \o f[p \div b][x % p]
  <2>1. x \div p \in Nat /\ x % p \in Nat
    BY QuotientRest
  <2>2. f[p][x] = <<digit[(x \div p) + 1]>> \o f[p \div b][x % p]
    <3>1. p \in Nat /\ p # 0
      OBVIOUS
    <3> QED BY <3>1, Zenon DEF DigitsFrom
  <2> QED BY <2>1, <2>2
<1>4. \A y \in Nat : place[y] \in Nat \ {0} /\ b * place[y] \in Nat \ {0}
  BY DEF PlaceOfFirst
<1>5. ASSUME NEW y \in Nat, y < b PROVE y \in R
  <2>1. place[y] = 1
    BY <1>5 DEF PlaceOfFirst
  <2>2. ASSUME NEW x \in Nat
        PROVE  f[b][x] = Append(f[1][x \div b], digit[(x % b) + 1])
    <3>1. PICK q \in Nat, r \in Nat : q = x \div b /\ r = x % b
      BY <1>1, QuotientRest
    <3>2. PICK c \in S, d \in S : c = digit[q + 1] /\ d = digit[r + 1]
      OBVIOUS
    <3>3. q \div 1 = q /\ r \div 1 = r
      OBVIOUS
    <3>4. \A i \in Nat : f[0][i] = <<>>
      BY DEF DigitsFrom
    <3>5. f[1][q] = <<c>> /\ f[1][r] = <<d>>
      <4>1. f[1][q] = <<c>> \o f[0][q % 1] /\ q % 1 \in Nat
        BY <1>1, <1>3, <3>2, <3>3
      <4>2. f[1][r] = <<d>> \o f[0][r % 1] /\ r % 1 \in Nat
        BY <1>1, <1>3, <3>2, <3>3
      <4>3. <<c>> \o <<>> = <<c>> /\ <<d>> \o <<>> = <<d>>
        OBVIOUS
      <4>4. f[0][q % 1] = <<>> /\ f[0][r % 1] = <<>>
        BY <3>4, <4>1, <4>2
      <4> QED BY <4>1, <4>2, <4>3, <4>4
    <3>6. f[b][x] = <<c>> \o f[1][r]
      BY <1>1, <1>3, <3>1, <3>2
    <3>7. <<c>> \o <<d>> = Append(<<c>>, d)
      OBVIOUS
    <3> QED BY <3>1, <3>2, <3>5, <3>6, <3>7
  <2> QED BY <1>1, <2>1, <2>2
<1>6. ASSUME NEW y \in Nat, y >= b, y \div b \in R PROVE y \in R
  <2>1. PICK m \in Nat \ {0} : m = place[y \div b]
    BY <1>1, <1>4, QuotientRest
  <2> DEFINE p == b * m
             n == b * p
  <2>2. place[y] = p
    BY <1>6, <2>1 DEF PlaceOfFirst
  <2>3. p \in Nat \ {0} /\ n \in Nat \ {0} /\ p \div b = m /\ n \div b = p
    <3>1. p \in Nat \ {0}
      OBVIOUS
    <3>2. n \in Nat \ {0}
      BY <3>1
    <3>3. InSteps(p, b, m)
      BY <1>1, QuotientTwice
    <3>4. InSteps(n, b, p)
      BY <1>1, <3>1, QuotientTwice
    <3> QED BY <3>1, <3>2, <3>3, <3>4 DEF InSteps
  <2>4. \A x \in Nat : f[p][x] = Append(f[m][x \div b], digit[(x % b) + 1])
    BY <1>6, <2>1
  <2> HIDE DEF p, n
  <2>5. ASSUME NEW x \in Nat
        PROVE  f[n][x] = Append(f[p][x \div b], digit[(x % b) + 1])
    <3>1. PICK q \in Nat, r \in Nat : q = x \div b /\ r = x % b
      BY <1>1, QuotientRest
    <3>2. PICK u \in Nat, v \in Nat : u = x \div n /\ v = x % n
      BY <2>3, QuotientRest
    <3>3. q \div p = u /\ v \div b = q % p /\ v % b = r
      <4>1. InSteps(n, b, p)
        BY <1>1, <2>3, QuotientTwice DEF n
      <4>2. /\ (x \div b) \div p = x \div n
            /\ (x % n) \div b = (x \div b) % p
            /\ (x % n) % b = x % b
        BY <4>1 DEF InSteps
      <4> QED BY <3>1, <3>2, <4>2
    <3>4. q % p \in Nat
      BY <2>3, QuotientRest
    <3>5. PICK c \in S, d \in S : c = digit[u + 1] /\ d = digit[r + 1]
      OBVIOUS
    <3>6. f[n][x] = <<c>> \o f[p][v]
      BY <1>3, <2>3, <3>2, <3>5
    <3>7. f[p][v] = Append(f[m][q % p], d)
      BY <2>4, <3>3, <3>5
    <3>8. f[p][q] = <<c>> \o f[m][q % p]
      BY <1>3, <2>3, <3>3, <3>5
    <3>9. PICK s \in Seq(S) : s = f[m][q % p]
      BY <1>2, <3>4
    <3>10. <<c>> \o Append(s, d) = Append(<<c>> \o s, d)
      OBVIOUS
    <3> QED BY <3>1, <3>5, <3>6, <3>7, <3>8, <3>9, <3>10
  <2> QED BY <2>2, <2>5 DEF n
<1>8. Nat \subseteq R
  <2> HIDE DEF R
  <2> QED BY <1>1, <1>5, <1>6, QuotientInduction
<1> QED BY <1>8 DEF FollowsQuotient

\* The digits come out as the numeral has them, and there are as many as counted.
LEMMA PrintsNumeral ==
  ASSUME NEW b \in Nat, b >= 2, NEW digit, NEW S, HasDigits(digit, S), NEW v \in Nat
  PROVE  /\ PlaceDigits(v, b, digit) = Numeral(v, b, digit)
         /\ DigitCount(v, b) = Len(Numeral(v, b, digit))
         /\ Numeral(v, b, digit) \in Seq(S)
<1>1. PICK place : PlaceOfFirst(place, b) /\ \A x \in Nat : PlaceValue(x, b) = place[x]
  BY PlaceValueIs
<1>2. PICK f : /\ DigitsFrom(f, b, digit, S)
               /\ \A x \in Nat : PlaceDigits(x, b, digit) = f[PlaceValue(x, b)][x]
  BY PlaceDigitsIs
<1>3. PICK num : NumeralFrom(num, b, digit, S) /\ \A x \in Nat : Numeral(x, b, digit) = num[x]
  BY NumeralIs
<1>4. PICK width : CountOfDigits(width, b) /\ \A x \in Nat : DigitCount(x, b) = width[x]
  BY DigitCountIs
<1>5. b \in Nat \ {0} /\ FollowsQuotient(f, place, b, digit)
  <2>1. PlaceOfFirst(place, b) /\ DigitsFrom(f, b, digit, S)
    BY <1>1, <1>2
  <2>2. FollowsQuotient(f, place, b, digit)
    BY <2>1, OnePlaceMore
  <2> QED BY <2>2
<1> DEFINE R == {x \in Nat : f[place[x]][x] = num[x] /\ width[x] = Len(num[x])}
<1>6. ASSUME NEW x \in Nat, x < b PROVE x \in R
  <2>1. PICK d \in S : d = digit[x + 1]
    BY DEF HasDigits
  <2>2. num[x] = <<d>> /\ place[x] = 1 /\ width[x] = 1
    BY <1>1, <1>3, <1>4, <1>6, <2>1 DEF PlaceOfFirst, NumeralFrom, CountOfDigits
  <2>3. f[1][x] = <<d>>
    <3>1. 1 \div b = 0 /\ x \div 1 = x /\ x % 1 \in Nat
      <4>1. (b * 0 + 1) \div b = 0
        BY <1>5, QuotientUnique
      <4> QED BY <4>1
    <3>2. f[1][x] = <<digit[(x \div 1) + 1]>> \o f[1 \div b][x % 1]
      <4>1. 1 \in Nat /\ 1 # 0
        OBVIOUS
      <4> QED BY <1>2, <4>1, Zenon DEF DigitsFrom
    <3>3. f[0][x % 1] = <<>>
      <4>1. 0 \in Nat
        OBVIOUS
      <4> QED BY <1>2, <3>1, <4>1, Zenon DEF DigitsFrom
    <3>4. <<d>> \o <<>> = <<d>>
      OBVIOUS
    <3> QED BY <2>1, <3>1, <3>2, <3>3, <3>4
  <2> QED BY <2>2, <2>3
<1>7. ASSUME NEW x \in Nat, x >= b, x \div b \in R PROVE x \in R
  <2>1. PICK q \in Nat, r \in Nat : q = x \div b /\ r = x % b
    BY <1>5, QuotientRest
  <2>2. PICK d \in S : d = digit[r + 1]
    BY DEF HasDigits
  <2>3. num[x] = Append(num[q], d) /\ place[x] = b * place[q] /\ width[x] = 1 + width[q]
    <3>1. ~(x < b)
      BY <1>7
    <3>2. num[x] = Append(num[q], d)
      BY <1>3, <2>1, <2>2, <3>1 DEF NumeralFrom
    <3>3. place[x] = b * place[q] /\ width[x] = 1 + width[q]
      BY <1>1, <1>4, <2>1, <3>1 DEF PlaceOfFirst, CountOfDigits
    <3> QED BY <3>2, <3>3
  <2>4. f[b * place[q]][x] = Append(f[place[q]][q], d)
    <3>1. f[b * place[q]][x] = Append(f[place[q]][x \div b], digit[(x % b) + 1])
      BY <1>5, <2>1 DEF FollowsQuotient
    <3> QED BY <2>1, <2>2, <3>1
  <2>5. f[place[q]][q] = num[q] /\ width[q] = Len(num[q]) /\ num[q] \in Seq(S)
    BY <1>3, <1>7, <2>1 DEF NumeralFrom
  <2>6. Len(Append(num[q], d)) = 1 + Len(num[q])
    BY <2>5
  <2> QED BY <2>3, <2>4, <2>5, <2>6
<1>8. Nat \subseteq R
  <2> HIDE DEF R
  <2> QED BY <1>5, <1>6, <1>7, QuotientInduction
<1>9. f[place[v]][v] = num[v] /\ width[v] = Len(num[v]) /\ num[v] \in Seq(S)
  BY <1>3, <1>8 DEF NumeralFrom
<1> QED BY <1>1, <1>2, <1>3, <1>4, <1>9
-----------------------------------------------------------------------------
(* A sequence of values, each made from the one before.                    *)

Iterates(f, n, a, s) == f[0] = a /\ \A i \in 0 .. n - 1 : f[i + 1] = s[i][f[i]]

\* There are as many as are asked for, ...
LEMMA IteratesExist ==
  ASSUME NEW a, NEW s
  PROVE  \A n \in Nat : \E f : Iterates(f, n, a, s)
<1> DEFINE S == {n \in Nat : \E f : Iterates(f, n, a, s)}
<1>1. 0 \in S
  <2>1. Iterates([i \in 0 .. 0 |-> a], 0, a, s)
    BY DEF Iterates
  <2> QED BY <2>1
<1>2. ASSUME NEW n \in Nat, n \in S PROVE n + 1 \in S
  <2>1. PICK f : Iterates(f, n, a, s)
    BY <1>2
  <2> DEFINE g == [i \in 0 .. n + 1 |-> IF i = n + 1 THEN s[n][f[n]] ELSE f[i]]
  <2>2. g[0] = a /\ g[n + 1] = s[n][f[n]] /\ \A i \in 0 .. n : g[i] = f[i]
    BY <2>1 DEF Iterates
  <2> HIDE DEF g
  <2>3. ASSUME NEW i \in 0 .. (n + 1) - 1 PROVE g[i + 1] = s[i][g[i]]
    <3>1. CASE i = n
      BY <2>2, <3>1
    <3>2. CASE i # n
      <4>1. i \in 0 .. n - 1 /\ i \in 0 .. n /\ i + 1 \in 0 .. n
        BY <3>2
      <4>2. f[i + 1] = s[i][f[i]]
        BY <2>1, <4>1 DEF Iterates
      <4> QED BY <2>2, <4>1, <4>2
    <3> QED BY <3>1, <3>2
  <2>4. Iterates(g, n + 1, a, s)
    BY <2>2, <2>3 DEF Iterates
  <2> QED BY <2>4
<1>3. Nat \subseteq S
  <2> HIDE DEF S
  <2> QED BY <1>1, <1>2, SetInduction
<1> QED BY <1>3

\* ... they are the same however many are asked for, ...
LEMMA IteratesAgree ==
  ASSUME NEW a, NEW s, NEW n \in Nat, NEW m \in 0 .. n,
         NEW f, NEW g, Iterates(f, n, a, s), Iterates(g, m, a, s)
  PROVE  f[m] = g[m]
<1> DEFINE S == {i \in Nat : i <= m => f[i] = g[i]}
<1>1. 0 \in S
  BY DEF Iterates
<1>2. ASSUME NEW i \in Nat, i \in S PROVE i + 1 \in S
  <2>1. CASE i + 1 <= m
    <3>1. i \in 0 .. n - 1 /\ i \in 0 .. m - 1
      BY <2>1
    <3>2. f[i + 1] = s[i][f[i]] /\ g[i + 1] = s[i][g[i]]
      BY <3>1 DEF Iterates
    <3> QED BY <1>2, <2>1, <3>2
  <2>2. CASE ~(i + 1 <= m)
    BY <2>2
  <2> QED BY <2>1, <2>2
<1>3. Nat \subseteq S
  <2> HIDE DEF S
  <2> QED BY <1>1, <1>2, SetInduction
<1> QED BY <1>3

\* ... so there is a sequence of them all.
Iteration(f, T, a, s) ==
  f \in [Nat -> T] /\ f[0] = a /\ \A i \in Nat : f[i + 1] = s[i][f[i]]

LEMMA IterationExists ==
  ASSUME NEW T, NEW a \in T, NEW s \in [Nat -> [T -> T]]
  PROVE  \E f : Iteration(f, T, a, s)
<1> DEFINE F(n) == CHOOSE f : Iterates(f, n, a, s)
           p == [n \in Nat |-> F(n)[n]]
<1>1. \A n \in Nat : Iterates(F(n), n, a, s)
  BY IteratesExist
<1> HIDE DEF F
<1>2. \A n \in Nat : p[n] = F(n)[n]
  OBVIOUS
<1>3. p = [n \in Nat |-> p[n]]
  OBVIOUS
<1> HIDE DEF p
<1>4. p[0] = a
  BY <1>1, <1>2 DEF Iterates
<1>5. ASSUME NEW i \in Nat PROVE p[i + 1] = s[i][p[i]]
  <2> DEFINE f == F(i + 1)
             g == F(i)
  <2>1. Iterates(f, i + 1, a, s) /\ Iterates(g, i, a, s)
    BY <1>1
  <2>2. p[i + 1] = f[i + 1] /\ p[i] = g[i]
    BY <1>2
  <2> HIDE DEF f, g
  <2>3. f[i] = g[i]
    <3>1. i + 1 \in Nat /\ i \in 0 .. i + 1
      OBVIOUS
    <3> QED BY <2>1, <3>1, IteratesAgree
  <2>4. f[i + 1] = s[i][f[i]]
    <3>1. i \in 0 .. (i + 1) - 1
      OBVIOUS
    <3> QED BY <2>1, <3>1 DEF Iterates
  <2> QED BY <2>2, <2>3, <2>4
<1>6. p \in [Nat -> T]
  <2> DEFINE S == {n \in Nat : p[n] \in T}
  <2>1. 0 \in S
    BY <1>4
  <2>2. ASSUME NEW n \in Nat, n \in S PROVE n + 1 \in S
    BY <1>5, <2>2
  <2>3. Nat \subseteq S
    <3> HIDE DEF S
    <3> QED BY <2>1, <2>2, SetInduction
  <2> QED BY <1>3, <2>3
<1> QED BY <1>4, <1>5, <1>6 DEF Iteration
-----------------------------------------------------------------------------
(* Hexadecimal digits by shifting.                                         *)

\* A nibble further is sixteen times the weight.
LEMMA WeightIs ==
  /\ Weight \in [Nat -> Nat \ {0}] /\ Weight[0] = 1
  /\ \A i \in Nat : Weight[i + 1] = 16 * Weight[i]
<1> DEFINE T == Nat \ {0}
           s == [i \in Nat |-> [x \in T |-> 16 * x]]
           once(f) == [i \in Nat |-> IF i = 0 THEN 1 ELSE 16 * f[i - 1]]
           f == CHOOSE g : g = once(g)
<1>1. \E g : g = once(g)
  <2>1. s \in [Nat -> [T -> T]] /\ \A i \in Nat : \A x \in T : s[i][x] = 16 * x
    OBVIOUS
  <2>2. 1 \in T
    OBVIOUS
  <2> HIDE DEF s, T
  <2>3. PICK g : Iteration(g, T, 1, s)
    BY <2>1, <2>2, IterationExists
  <2>4. g \in [Nat -> T] /\ g[0] = 1 /\ \A i \in Nat : g[i + 1] = s[i][g[i]]
    BY <2>3 DEF Iteration
  <2>5. ASSUME NEW i \in Nat PROVE g[i] = IF i = 0 THEN 1 ELSE 16 * g[i - 1]
    <3>1. CASE i # 0
      <4>1. i - 1 \in Nat /\ (i - 1) + 1 = i
        BY <3>1
      <4> QED BY <2>1, <2>4, <3>1, <4>1
    <3> QED BY <2>4, <3>1
  <2>6. g = [i \in Nat |-> g[i]]
    BY <2>4
  <2>7. g = once(g)
    BY <2>5, <2>6
  <2> QED BY <2>7
<1>2. f = once(f)
  <2> HIDE DEF once
  <2> QED BY <1>1
<1>3. Weight = f
  BY DEF Weight
<1> HIDE DEF f
<1>4. f[0] = 1 /\ DOMAIN f = Nat /\ f = [i \in Nat |-> f[i]]
  BY <1>2
<1>5. ASSUME NEW i \in Nat PROVE f[i + 1] = 16 * f[i]
  <2>1. i + 1 \in Nat /\ i + 1 # 0 /\ (i + 1) - 1 = i
    OBVIOUS
  <2>2. f[i + 1] = IF i + 1 = 0 THEN 1 ELSE 16 * f[(i + 1) - 1]
    BY <1>2, <2>1
  <2> QED BY <2>1, <2>2
<1>6. f \in [Nat -> Nat \ {0}]
  <2> DEFINE S == {n \in Nat : f[n] \in T}
  <2>1. 0 \in S
    BY <1>4
  <2>2. ASSUME NEW n \in Nat, n \in S PROVE n + 1 \in S
    BY <1>5, <2>2
  <2>3. Nat \subseteq S
    <3> HIDE DEF S
    <3> QED BY <2>1, <2>2, SetInduction
  <2> QED BY <1>4, <2>3
<1> QED BY <1>3, <1>4, <1>5, <1>6

\* The nibble at a weight.
Nibble(v, i) == (v \div Weight[i]) % 16

LEMMA NibbleOf ==
  ASSUME NEW v \in Nat, NEW i \in Nat
  PROVE  /\ Nibble(v, i) \in 0 .. 15 /\ Nibble(v, 0) = v % 16
         /\ v \div 16 \in Nat /\ Nibble(v, i + 1) = Nibble(v \div 16, i)
<1>1. 16 \in Nat \ {0} /\ Weight[i] \in Nat \ {0} /\ Weight[0] = 1 /\ Weight[i + 1] = 16 * Weight[i]
  BY WeightIs
<1>2. v \div 16 \in Nat /\ v \div 1 = v
  OBVIOUS
<1>3. v \div Weight[i] \in Nat
  BY <1>1, QuotientRest
<1>4. (v \div Weight[i]) % 16 \in 0 .. 15
  <2>1. PICK q \in Nat : q = v \div Weight[i]
    BY <1>3
  <2> QED BY <2>1
<1>5. (v \div 16) \div Weight[i] = v \div (16 * Weight[i])
  <2>1. PICK p \in Nat \ {0} : p = Weight[i]
    BY <1>1
  <2>2. InSteps(16 * p, 16, p)
    BY <1>1, QuotientTwice
  <2>3. (v \div 16) \div p = v \div (16 * p)
    BY <2>2 DEF InSteps
  <2> QED BY <2>1, <2>3
<1> QED BY <1>1, <1>2, <1>4, <1>5 DEF Nibble

\* The digits from the nibble at a weight down.
HexFrom(v, t) == [i \in 1 .. t + 1 |-> Lower[Nibble(v, t + 1 - i) + 1]]

\* A numeral and what precedes its last digit.
LEMMA NumeralStep ==
  ASSUME NEW b \in Nat, b >= 2, NEW digit, NEW S, HasDigits(digit, S), NEW v \in Nat
  PROVE  /\ v < b => Numeral(v, b, digit) = <<digit[v + 1]>>
         /\ v >= b => Numeral(v, b, digit)
                        = Append(Numeral(v \div b, b, digit), digit[(v % b) + 1])
<1>1. PICK f : NumeralFrom(f, b, digit, S) /\ \A x \in Nat : Numeral(x, b, digit) = f[x]
  BY NumeralIs
<1>2. b \in Nat \ {0}
  OBVIOUS
<1>3. v \div b \in Nat
  BY <1>2, QuotientRest
<1>4. f[v] = IF v < b THEN <<digit[v + 1]>> ELSE Append(f[v \div b], digit[(v % b) + 1])
  BY <1>1 DEF NumeralFrom
<1>5. f[v] = Numeral(v, b, digit) /\ f[v \div b] = Numeral(v \div b, b, digit)
  BY <1>1, <1>3
<1>6. CASE v < b
  <2>1. ~(v >= b)
    BY <1>6
  <2> QED BY <1>4, <1>5, <1>6, <2>1, Zenon
<1>7. CASE ~(v < b)
  BY <1>4, <1>5, <1>7, Zenon
<1> QED BY <1>6, <1>7

\* From the first nibble that is not zero they are the numeral.
LEMMA HexNumeral ==
  ASSUME NEW S, HasDigits(Lower, S)
  PROVE  \A t \in Nat : \A v \in Nat :
           Weight[t] <= v /\ v < Weight[t + 1] => HexFrom(v, t) = Numeral(v, 16, Lower)
<1> DEFINE R == {t \in Nat : \A v \in Nat :
                   Weight[t] <= v /\ v < Weight[t + 1] => HexFrom(v, t) = Numeral(v, 16, Lower)}
<1>1. /\ Weight[0] = 1 /\ 16 \in Nat /\ 16 >= 2 /\ 16 \in Nat \ {0}
      /\ \A i \in Nat : Weight[i + 1] = 16 * Weight[i] /\ Weight[i] \in Nat \ {0}
  BY WeightIs
<1>2a. 0 \in Nat
  OBVIOUS
<1>2. 0 \in R
  <2>1. ASSUME NEW v \in Nat, Weight[0] <= v, v < Weight[0 + 1]
        PROVE  HexFrom(v, 0) = Numeral(v, 16, Lower)
    <3>1. Weight[0 + 1] = 16 * Weight[0] /\ v < 16
      BY <1>1, <2>1
    <3>2. Nibble(v, 0) = v
      <4>1. v % 16 = v
        BY <3>1
      <4>2. Nibble(v, 0) = v % 16
        BY <1>2a, NibbleOf
      <4> QED BY <4>1, <4>2
    <3>3. Numeral(v, 16, Lower) = <<Lower[v + 1]>>
      BY <1>1, <3>1, NumeralStep
    <3>4. HexFrom(v, 0) = <<Lower[v + 1]>>
      <4>1. HexFrom(v, 0) = [i \in 1 .. 0 + 1 |-> Lower[Nibble(v, 0 + 1 - i) + 1]]
        BY DEF HexFrom
      <4>2. \A i \in 1 .. 0 + 1 : Lower[Nibble(v, 0 + 1 - i) + 1] = Lower[v + 1]
        BY <3>2
      <4>3. HexFrom(v, 0) = [i \in 1 .. 1 |-> Lower[v + 1]]
        BY <4>1, <4>2
      <4> QED BY <4>3
    <3> QED BY <3>3, <3>4
  <2> QED BY <2>1
<1>3. ASSUME NEW t \in Nat, t \in R PROVE t + 1 \in R
  <2>1. ASSUME NEW v \in Nat, Weight[t + 1] <= v, v < Weight[(t + 1) + 1]
        PROVE  HexFrom(v, t + 1) = Numeral(v, 16, Lower)
    <3>1. PICK q \in Nat, r \in Nat : q = v \div 16 /\ r = v % 16 /\ v = 16 * q + r /\ r < 16
      OBVIOUS
    <3>2. PICK m \in Nat \ {0} : Weight[t] = m /\ Weight[t + 1] = 16 * m /\ Weight[t + 1 + 1] = 16 * (16 * m)
      BY <1>1
    <3>3. Weight[t] <= q /\ q < Weight[t + 1] /\ v >= 16
      BY <2>1, <3>1, <3>2
    <3>4. HexFrom(q, t) = Numeral(q, 16, Lower)
      BY <1>3, <3>3
    <3>5. PICK d \in S : d = Lower[r + 1]
      BY DEF HasDigits
    <3>6. Numeral(v, 16, Lower) = Append(Numeral(q, 16, Lower), d)
      <4>1. Numeral(v, 16, Lower) = Append(Numeral(v \div 16, 16, Lower), Lower[(v % 16) + 1])
        BY <1>1, <3>3, NumeralStep
      <4> QED BY <3>1, <3>5, <4>1
    <3>7. HexFrom(v, t + 1) = Append(HexFrom(q, t), d)
      <4>1. HexFrom(q, t) \in Seq(S) /\ Len(HexFrom(q, t)) = t + 1
        <5>1. ASSUME NEW i \in 1 .. t + 1 PROVE Lower[Nibble(q, t + 1 - i) + 1] \in S
          <6>1. PICK j \in Nat : j = t + 1 - i
            OBVIOUS
          <6>2. Nibble(q, j) \in 0 .. 15
            BY NibbleOf
          <6>3. Nibble(q, j) + 1 \in Nat
            BY <6>2
          <6> QED BY <6>1, <6>3 DEF HasDigits
        <5>2. HexFrom(q, t) \in [1 .. t + 1 -> S]
          BY <5>1 DEF HexFrom
        <5> QED BY <5>2
      <4>2. PICK a \in Seq(S) : a = HexFrom(q, t) /\ Len(a) = t + 1
        BY <4>1
      <4>3. /\ Append(a, d) \in Seq(S) /\ Len(Append(a, d)) = t + 1 + 1
            /\ \A i \in 1 .. t + 1 + 1 : Append(a, d)[i] = IF i = t + 1 + 1 THEN d ELSE a[i]
        BY <4>2
      <4>4. ASSUME NEW i \in 1 .. t + 1 + 1
            PROVE  /\ Lower[Nibble(v, t + 1 + 1 - i) + 1] = Append(a, d)[i]
                   /\ Append(a, d)[i] \in S
        <5>1. CASE i = t + 1 + 1
          <6>1. t + 1 + 1 - i = 0
            BY <5>1
          <6>2. Nibble(v, 0) = r
            BY <3>1, NibbleOf
          <6> QED BY <3>5, <4>3, <5>1, <6>1, <6>2
        <5>2. CASE i # t + 1 + 1
          <6>1. PICK j \in Nat : j = t + 1 - i /\ t + 1 + 1 - i = j + 1 /\ i \in 1 .. t + 1
            BY <5>2
          <6>2. Nibble(v, j + 1) = Nibble(q, j)
            BY <3>1, NibbleOf
          <6>3. HexFrom(q, t)[i] = Lower[Nibble(q, j) + 1]
            BY <6>1 DEF HexFrom
          <6>4. Append(a, d)[i] = a[i] /\ a[i] \in S
            BY <4>2, <4>3, <5>2, <6>1
          <6> QED BY <4>2, <6>1, <6>2, <6>3, <6>4
        <5> QED BY <5>1, <5>2
      <4>5. HexFrom(v, t + 1) = [i \in 1 .. t + 1 + 1 |-> Append(a, d)[i]]
        BY <4>4 DEF HexFrom
      <4>6. Append(a, d) = [i \in 1 .. t + 1 + 1 |-> Append(a, d)[i]]
        <5>1. PICK n \in Seq(S) : n = Append(a, d) /\ Len(n) = t + 1 + 1
          BY <4>3
        <5>2. n \in [1 .. t + 1 + 1 -> S]
          <6>1. n \in [1 .. Len(n) -> S]
            BY LenProperties
          <6> QED BY <5>1, <6>1
        <5>3. n = [i \in 1 .. t + 1 + 1 |-> n[i]]
          BY <5>2
        <5> QED BY <5>1, <5>3
      <4> QED BY <4>2, <4>5, <4>6
    <3> QED BY <3>4, <3>6, <3>7
  <2> QED BY <2>1
<1>4. Nat \subseteq R
  <2> HIDE DEF R
  <2> QED BY <1>2, <1>3, SetInduction
<1> QED BY <1>4

\* An unsigned int has a first nibble that is not zero, unless it is zero.
LEMMA FirstNibble ==
  ASSUME NEW v \in 1 .. UInt - 1, UInt = Weight[Nibbles], Nibbles \in Nat \ {0}
  PROVE  \E t \in 0 .. Nibbles - 1 :
           /\ Weight[t] <= v /\ v < Weight[t + 1] /\ Nibble(v, t) # 0
           /\ \A i \in 0 .. Nibbles - 1 : i > t => Nibble(v, i) = 0
<1>1. /\ Weight[0] = 1
      /\ \A i \in Nat : Weight[i + 1] = 16 * Weight[i] /\ Weight[i] \in Nat \ {0}
  BY WeightIs
<1> DEFINE T == {i \in Nat : v < Weight[i + 1]}
<1>2. v \in Nat /\ Nibbles - 1 \in T
  <2>1. Nibbles - 1 \in Nat /\ (Nibbles - 1) + 1 = Nibbles /\ Weight[Nibbles] \in Nat
    BY <1>1
  <2> QED BY <2>1
<1>3. PICK t \in T : \A i \in T : t <= i
  <2> HIDE DEF T
  <2>1. T \subseteq Nat
    BY DEF T
  <2> QED BY <1>2, <2>1, LeastElement
<1>4. t \in 0 .. Nibbles - 1 /\ v < Weight[t + 1]
  BY <1>2, <1>3
<1>5. Weight[t] <= v
  <2>1. CASE t = 0
    BY <1>1, <2>1
  <2>2. CASE t # 0
    <3>1. t - 1 \in Nat /\ (t - 1) + 1 = t /\ t - 1 \notin T
      BY <1>3, <2>2
    <3>2. ~(v < Weight[t]) /\ Weight[t] \in Nat
      BY <1>1, <3>1
    <3> QED BY <1>2, <3>2
  <2> QED BY <2>1, <2>2
<1>6. Nibble(v, t) # 0
  <2>1. PICK m \in Nat \ {0} : m = Weight[t] /\ v < 16 * m /\ m <= v
    <3>1. t \in Nat
      BY <1>4
    <3>2. Weight[t] \in Nat \ {0} /\ v < 16 * Weight[t]
      BY <1>1, <1>4, <3>1
    <3> QED BY <1>5, <3>2
  <2>2. PICK q \in Nat, r \in Nat : q = v \div m /\ v = m * q + r /\ r < m
    <3>1. PICK x \in Nat : x = v
      BY <1>2
    <3>2. x \div m \in Nat /\ x % m \in 0 .. m - 1 /\ x = m * (x \div m) + (x % m)
      BY QuotientRest
    <3> QED BY <3>1, <3>2
  <2>3. q # 0
    BY <2>1, <2>2
  <2>4. q < 16
    <3>1. q >= 16 => m * q >= m * 16
      OBVIOUS
    <3> QED BY <2>1, <2>2, <3>1
  <2>5. q % 16 = q
    BY <2>4
  <2> QED BY <2>1, <2>2, <2>3, <2>5 DEF Nibble
<1>7. \A i \in Nat : v < Weight[t + 1 + i]
  <2> DEFINE R == {i \in Nat : v < Weight[t + 1 + i]}
  <2>1. 0 \in R
    BY <1>4
  <2>2. ASSUME NEW i \in Nat, i \in R PROVE i + 1 \in R
    <3>1. t + 1 + i \in Nat /\ t + 1 + (i + 1) = (t + 1 + i) + 1
      BY <1>4
    <3>2. PICK m \in Nat : m = Weight[t + 1 + i] /\ Weight[t + 1 + (i + 1)] = 16 * m
      BY <1>1, <3>1
    <3> QED BY <1>2, <2>2, <3>2
  <2>3. Nat \subseteq R
    <3> HIDE DEF R
    <3> QED BY <2>1, <2>2, SetInduction
  <2> QED BY <2>3
<1>8. ASSUME NEW i \in 0 .. Nibbles - 1, i > t PROVE Nibble(v, i) = 0
  <2>1. PICK j \in Nat : i = t + 1 + j
    <3>1. i - (t + 1) \in Nat /\ i = t + 1 + (i - (t + 1))
      BY <1>4, <1>8
    <3> QED BY <3>1
  <2>2. PICK m \in Nat \ {0} : m = Weight[i] /\ v < m
    <3>1. i \in Nat /\ v < Weight[i]
      BY <1>7, <2>1
    <3> QED BY <1>1, <3>1
  <2>3. v \div m = 0
    <3>1. m * 0 + v = v
      OBVIOUS
    <3>2. (m * 0 + v) \div m = 0
      BY <1>2, <2>2, QuotientUnique
    <3> QED BY <3>1, <3>2
  <2> QED BY <2>2, <2>3 DEF Nibble
<1> QED BY <1>4, <1>5, <1>6, <1>8

\* alt_printf prints the shortest hexadecimal numeral.
LEMMA PrintsHex ==
  ASSUME NEW S, HasDigits(Lower, S), NEW v \in 0 .. UInt - 1, Nibbles \in Nat \ {0}
  PROVE  HexDigits(v) = Numeral(v, 16, Lower)
<1>1. CASE v = 0
  <2>1. Numeral(0, 16, Lower) = <<Lower[0 + 1]>>
    <3>1. 16 \in Nat /\ 16 >= 2 /\ 0 \in Nat /\ 0 < 16
      OBVIOUS
    <3> QED BY <3>1, NumeralStep
  <2>2. Lower[0 + 1] = "0"
    BY DEF Lower
  <2> QED BY <1>1, <2>1, <2>2 DEF HexDigits
<1>2. CASE v # 0
  <2>1. PICK t \in 0 .. Nibbles - 1 :
          /\ Weight[t] <= v /\ v < Weight[t + 1] /\ Nibble(v, t) # 0
          /\ \A i \in 0 .. Nibbles - 1 : i > t => Nibble(v, i) = 0
    <3>1. v \in 1 .. UInt - 1 /\ UInt = Weight[Nibbles]
      BY <1>2 DEF UInt
    <3> QED BY <3>1, FirstNibble
  <2> DEFINE I == {i \in 0 .. Nibbles - 1 : Nibble(v, i) # 0}
  <2>2. Max(I) = t
    <3>1. t \in I /\ \A i \in I : t >= i
      BY <2>1
    <3>2. \A x \in I : (\A i \in I : x >= i) => x = t
      <4>1. \A i \in I : i \in Int
        OBVIOUS
      <4> HIDE DEF I
      <4> QED BY <3>1, <4>1
    <3> HIDE DEF I
    <3> QED BY <3>1, <3>2 DEF Max
  <2>3. HexDigits(v) = HexFrom(v, Max(I))
    BY <1>2 DEF HexDigits, HexFrom, Nibble
  <2>4. HexFrom(v, t) = Numeral(v, 16, Lower)
    <3>1. v \in Nat /\ t \in Nat
      OBVIOUS
    <3> QED BY <2>1, <3>1, HexNumeral
  <2> QED BY <2>2, <2>3, <2>4
<1> QED BY <1>1, <1>2
-----------------------------------------------------------------------------
(* Parts joined to a sequence.                                             *)

\* It does not matter which of three sequences are joined first.
LEMMA Together ==
  \A S : \A a, b, c \in Seq(S) : (a \o b) \o c = a \o (b \o c)
BY ConcatAssociative

\* The first i parts, one after the other.
Joined(parts, i) == FlattenSeq([h \in 1 .. i |-> parts[h]])

OneByOne(f, parts, S, n) ==
  /\ f \in [Nat -> Seq(S)] /\ f[0] = <<>>
  /\ \A i \in 1 .. n : f[i] = f[i - 1] \o parts[i]

Joins(f, parts, S, n) ==
  OneByOne(f, parts, S, n) /\ \A i \in 0 .. n : Joined(parts, i) = f[i]

\* Joining takes one part more at a time.
LEMMA JoinedPrefixes ==
  ASSUME NEW S, NEW n \in Nat, NEW parts \in [1 .. n -> Seq(S)]
  PROVE  \E f : Joins(f, parts, S, n)
<1> DEFINE T == Seq(S)
           s == [i \in Nat |-> [t \in T |-> IF i < n THEN t \o parts[i + 1] ELSE t]]
<1>1. \A i \in Nat : i < n => i + 1 \in 1 .. n
  OBVIOUS
<1>2. ASSUME NEW i \in Nat, NEW t \in T, i < n PROVE t \o parts[i + 1] \in T
  <2>1. parts[i + 1] \in Seq(S)
    BY <1>1, <1>2
  <2> QED BY <2>1, ConcatProperties
<1>3. s \in [Nat -> [T -> T]]
  <2> HIDE DEF T
  <2> QED BY <1>2
<1>4. <<>> \in T
  OBVIOUS
<1>5. \A i \in Nat, t \in T : i < n => s[i][t] = t \o parts[i + 1]
  OBVIOUS
<1> HIDE DEF s, T
<1>6. PICK f : Iteration(f, T, <<>>, s)
  BY <1>3, <1>4, IterationExists
<1>7. f \in [Nat -> T] /\ f[0] = <<>> /\ \A i \in Nat : f[i + 1] = s[i][f[i]]
  BY <1>6 DEF Iteration
<1>8. ASSUME NEW i \in 1 .. n PROVE f[i] = f[i - 1] \o parts[i]
  <2>1. i - 1 \in Nat /\ i - 1 < n /\ (i - 1) + 1 = i
    OBVIOUS
  <2>2. f[(i - 1) + 1] = s[i - 1][f[i - 1]] /\ f[i - 1] \in T
    BY <1>7, <2>1
  <2>3. s[i - 1][f[i - 1]] = f[i - 1] \o parts[(i - 1) + 1]
    BY <1>5, <2>1, <2>2
  <2> QED BY <2>1, <2>2, <2>3
<1>9. OneByOne(f, parts, S, n)
  BY <1>7, <1>8 DEF OneByOne, T
<1>10. ASSUME NEW i \in 0 .. n PROVE Joined(parts, i) = f[i]
  <2> DEFINE p == [j \in 1 .. i |-> parts[j]]
  <2>1. p \in Seq(Seq(S)) /\ Len(p) = i
    <3>1. \A j \in 1 .. i : parts[j] \in Seq(S)
      OBVIOUS
    <3> QED BY <3>1
  <2>2. CASE i = 0
    <3>1. Joined(parts, i) = p
      BY <2>1, <2>2 DEF Joined, FlattenSeq
    <3>2. p = <<>>
      BY <2>1, <2>2
    <3> QED BY <1>7, <2>2, <3>1, <3>2
  <2>3. CASE i # 0
    <3> DEFINE once(h) == [j \in 1 .. Len(p) |-> IF j = 1 THEN p[j] ELSE h[j - 1] \o p[j]]
               h == CHOOSE g : g = once(g)
               e == [j \in 1 .. i |-> f[j]]
    <3>1. \A j \in 1 .. i : p[j] = parts[j] /\ parts[j] \in Seq(S)
      OBVIOUS
    <3>2. e = once(e)
      <4>1. ASSUME NEW j \in 1 .. i PROVE f[j] = IF j = 1 THEN p[j] ELSE e[j - 1] \o p[j]
        <5>1. f[j] = f[j - 1] \o p[j] /\ p[j] \in Seq(S)
          <6>1. j \in 1 .. n
            OBVIOUS
          <6>2. f[j] = f[j - 1] \o parts[j]
            BY <1>8, <6>1
          <6> QED BY <3>1, <6>2
        <5>2. CASE j = 1
          <6>1. f[j - 1] = <<>>
            BY <1>7, <5>2
          <6>2. <<>> \o p[j] = p[j]
            BY <5>1, ConcatEmptySeq
          <6> QED BY <5>1, <5>2, <6>1, <6>2
        <5>3. CASE j # 1
          <6>1. j - 1 \in 1 .. i
            BY <5>3
          <6> QED BY <5>1, <5>3, <6>1
        <5> QED BY <5>2, <5>3
      <4> HIDE DEF p
      <4> QED BY <2>1, <4>1
    <3>3. h = once(h)
      <4> HIDE DEF once, e
      <4> QED BY <3>2
    <3>4. Joined(parts, i) = h[i]
      <4>1. Joined(parts, i) = h[Len(p)]
        BY <2>1, <2>3 DEF Joined, FlattenSeq
      <4> QED BY <2>1, <4>1
    <3> HIDE DEF h, p
    <3>5. \A j \in 1 .. i : h[j] = IF j = 1 THEN p[j] ELSE h[j - 1] \o p[j]
      BY <2>1, <3>3
    <3> DEFINE R == {j \in Nat : j + 1 <= i => h[j + 1] = f[j + 1]}
    <3>6. 0 \in R
      <4>1. 1 \in 1 .. i /\ 0 + 1 = 1
        BY <2>3
      <4>2. h[1] = p[1]
        BY <3>5, <4>1
      <4>3. f[1] = p[1]
        <5>1. f[1] = f[1 - 1] \o p[1] /\ p[1] \in Seq(S) /\ 1 - 1 = 0
          <6>1. 1 \in 1 .. n
            BY <4>1
          <6>2. f[1] = f[1 - 1] \o parts[1]
            BY <1>8, <6>1
          <6>3. p[1] = parts[1] /\ parts[1] \in Seq(S)
            BY <3>1, <4>1
          <6>4. 1 - 1 = 0
            OBVIOUS
          <6> QED BY <6>2, <6>3, <6>4
        <5>2. <<>> \o p[1] = p[1]
          BY <5>1, ConcatEmptySeq
        <5> QED BY <1>7, <5>1, <5>2
      <4> QED BY <4>1, <4>2, <4>3
    <3>7. ASSUME NEW j \in Nat, j \in R PROVE j + 1 \in R
      <4>1. CASE j + 1 + 1 <= i
        <5>1. j + 1 + 1 \in 1 .. i /\ j + 1 + 1 # 1 /\ (j + 1 + 1) - 1 = j + 1 /\ j + 1 <= i
          BY <4>1
        <5>2. h[j + 1 + 1] = h[j + 1] \o p[j + 1 + 1]
          BY <3>5, <5>1
        <5>3. f[j + 1 + 1] = f[j + 1] \o p[j + 1 + 1]
          <6>1. j + 1 + 1 \in 1 .. n
            BY <5>1
          <6>2. f[j + 1 + 1] = f[(j + 1 + 1) - 1] \o parts[j + 1 + 1]
            BY <1>8, <6>1
          <6> QED BY <3>1, <5>1, <6>2
        <5>4. h[j + 1] = f[j + 1]
          BY <3>7, <5>1
        <5>5. h[j + 1 + 1] = f[j + 1 + 1]
          BY <5>2, <5>3, <5>4
        <5> QED BY <5>5
      <4>2. CASE ~(j + 1 + 1 <= i)
        BY <4>2
      <4> QED BY <4>1, <4>2
    <3>8. Nat \subseteq R
      <4> HIDE DEF R
      <4> QED BY <3>6, <3>7, SetInduction
    <3>9. i - 1 \in Nat /\ (i - 1) + 1 = i
      BY <2>3
    <3>10. i - 1 \in R
      BY <3>8, <3>9
    <3>11. h[(i - 1) + 1] = f[(i - 1) + 1]
      BY <3>9, <3>10
    <3> QED BY <3>4, <3>9, <3>11
  <2> QED BY <2>2, <2>3
<1>11. Joins(f, parts, S, n)
  BY <1>9, <1>10 DEF Joins
<1> QED BY <1>11

LEMMA JoinedOneMore ==
  ASSUME NEW S, NEW n \in Nat, NEW parts \in [1 .. n -> Seq(S)]
  PROVE  /\ Joined(parts, 0) = <<>>
         /\ \A i \in 0 .. n : Joined(parts, i) \in Seq(S)
         /\ \A i \in 0 .. n - 1 : Joined(parts, i + 1) = Joined(parts, i) \o parts[i + 1]
         /\ Joined(parts, n) = FlattenSeq(parts)
<1>0. PICK f : Joins(f, parts, S, n)
  BY JoinedPrefixes
<1>1. OneByOne(f, parts, S, n) /\ \A i \in 0 .. n : Joined(parts, i) = f[i]
  BY <1>0 DEF Joins
<1>2. /\ f \in [Nat -> Seq(S)] /\ f[0] = <<>>
      /\ \A i \in 1 .. n : f[i] = f[i - 1] \o parts[i]
  BY <1>1 DEF OneByOne
<1>3. ASSUME NEW i \in 0 .. n - 1 PROVE Joined(parts, i + 1) = Joined(parts, i) \o parts[i + 1]
  <2>1. i \in 0 .. n /\ i + 1 \in 0 .. n /\ i + 1 \in 1 .. n /\ (i + 1) - 1 = i
    OBVIOUS
  <2>2. f[i + 1] = f[(i + 1) - 1] \o parts[i + 1]
    BY <1>2, <2>1
  <2> QED BY <1>1, <2>1, <2>2
<1>4. Joined(parts, n) = FlattenSeq(parts)
  <2>1. [h \in 1 .. n |-> parts[h]] = parts
    OBVIOUS
  <2> QED BY <2>1 DEF Joined
<1>5. 0 \in 0 .. n /\ \A i \in 0 .. n : f[i] \in Seq(S)
  BY <1>2
<1> QED BY <1>1, <1>2, <1>3, <1>4, <1>5

BeginsWithNext(parts, S, n, i, rest) ==
  /\ rest = <<>> => i = n
  /\ rest # <<>> => /\ i < n
                    /\ \E u \in Seq(S) : /\ rest = parts[i + 1] \o u
                                         /\ Joined(parts, i + 1) \o u = Joined(parts, n)

\* What is left of non-empty parts after the first i begins with the next one.
LEMMA NextPart ==
  ASSUME NEW S, NEW n \in Nat, NEW parts \in [1 .. n -> Seq(S)],
         \A h \in 1 .. n : parts[h] # <<>>,
         NEW i \in 0 .. n, NEW rest \in Seq(S), Joined(parts, i) \o rest = Joined(parts, n)
  PROVE  BeginsWithNext(parts, S, n, i, rest)
<1> DEFINE J(h) == Joined(parts, h)
           R == {h \in Nat : h <= n => \E u \in Seq(S) : J(n - h) \o u = J(n)}
<1>1. /\ \A h \in 0 .. n : J(h) \in Seq(S)
      /\ \A h \in 0 .. n - 1 : J(h + 1) = J(h) \o parts[h + 1]
  BY JoinedOneMore
<1> HIDE DEF J
<1>0. \A a, b, c \in Seq(S) : (a \o b) \o c = a \o (b \o c)
  BY Together
<1>2. 0 \in R
  <2>1. J(n) \in Seq(S) /\ n - 0 = n
    BY <1>1
  <2>2. J(n) \o <<>> = J(n) /\ <<>> \in Seq(S)
    BY <2>1, ConcatEmptySeq
  <2> QED BY <2>1, <2>2
<1>3. ASSUME NEW h \in Nat, h \in R PROVE h + 1 \in R
  <2>1. CASE h + 1 <= n
    <3>1. PICK m \in 0 .. n - 1 : m = n - (h + 1) /\ n - h = m + 1 /\ h <= n /\ m + 1 \in 1 .. n
      BY <2>1
    <3>2. PICK u \in Seq(S) : J(m + 1) \o u = J(n)
      BY <1>3, <3>1
    <3>3. J(m) \in Seq(S) /\ parts[m + 1] \in Seq(S) /\ J(m + 1) = J(m) \o parts[m + 1]
      <4>1. m \in 0 .. n
        OBVIOUS
      <4> QED BY <1>1, <3>1, <4>1
    <3>4. parts[m + 1] \o u \in Seq(S)
      BY <3>3, ConcatProperties
    <3>5. J(m) \o (parts[m + 1] \o u) = J(n)
      <4>1. PICK a \in Seq(S), b \in Seq(S) : a = J(m) /\ b = parts[m + 1]
        BY <3>3
      <4>2. (a \o b) \o u = a \o (b \o u)
        BY <1>0
      <4>3. (J(m) \o parts[m + 1]) \o u = J(m) \o (parts[m + 1] \o u)
        BY <4>1, <4>2
      <4> QED BY <3>2, <3>3, <4>3
    <3>6. \E t \in Seq(S) : J(n - (h + 1)) \o t = J(n)
      BY <3>1, <3>4, <3>5
    <3>7. h + 1 \in Nat
      OBVIOUS
    <3> QED BY <3>6, <3>7
  <2>2. CASE ~(h + 1 <= n)
    BY <2>2
  <2> QED BY <2>1, <2>2
<1>4. Nat \subseteq R
  <2> HIDE DEF R
  <2> QED BY <1>2, <1>3, SetInduction
<1>5. J(i) \o rest = J(n) /\ J(i) \in Seq(S) /\ J(n) \in Seq(S)
  <2>1. n \in 0 .. n
    OBVIOUS
  <2> QED BY <1>1, <2>1 DEF J
<1>6. ASSUME i < n
      PROVE  \E u \in Seq(S) : /\ rest = parts[i + 1] \o u /\ rest # <<>>
                               /\ J(i + 1) \o u = J(n)
  <2>1. n - (i + 1) \in Nat /\ n - (i + 1) <= n /\ n - (n - (i + 1)) = i + 1
    BY <1>6
  <2>2. PICK u \in Seq(S) : J(i + 1) \o u = J(n)
    BY <1>4, <2>1
  <2>3. /\ J(i + 1) = J(i) \o parts[i + 1]
        /\ parts[i + 1] \in Seq(S) /\ parts[i + 1] # <<>>
    <3>1. i \in 0 .. n - 1 /\ i + 1 \in 1 .. n
      BY <1>6
    <3> QED BY <1>1, <3>1
  <2>4. J(i) \o (parts[i + 1] \o u) = J(n) /\ parts[i + 1] \o u \in Seq(S)
    <3>1. (J(i) \o parts[i + 1]) \o u = J(i) \o (parts[i + 1] \o u)
      <4>1. PICK a \in Seq(S), b \in Seq(S) : a = J(i) /\ b = parts[i + 1]
        BY <1>5, <2>3
      <4>2. (a \o b) \o u = a \o (b \o u)
        BY Together
      <4> QED BY <4>1, <4>2
    <3>2. parts[i + 1] \o u \in Seq(S)
      BY <2>3, ConcatProperties
    <3> QED BY <2>2, <2>3, <3>1, <3>2
  <2>5. rest = parts[i + 1] \o u
    <3>1. J(i) \o rest = J(i) \o (parts[i + 1] \o u)
      BY <1>5, <2>4
    <3> QED BY <1>5, <2>4, <3>1, ConcatSimplifications
  <2>6. rest # <<>>
    BY <2>3, <2>5, ConcatSimplifications
  <2> QED BY <2>2, <2>5, <2>6
<1>7. ASSUME i = n PROVE rest = <<>>
  <2>1. J(n) \o rest = J(n)
    BY <1>5, <1>7
  <2> QED BY <1>5, <2>1, ConcatSimplifications
<1>8. CASE i = n
  BY <1>7, <1>8 DEF BeginsWithNext
<1>9. CASE i # n
  <2>1. i < n
    BY <1>9
  <2>2. PICK u \in Seq(S) : rest = parts[i + 1] \o u /\ rest # <<>> /\ J(i + 1) \o u = J(n)
    BY <1>6, <2>1
  <2>3. Joined(parts, i + 1) \o u = Joined(parts, n)
    BY <2>2 DEF J
  <2> QED BY <2>1, <2>2, <2>3 DEF BeginsWithNext
<1> QED BY <1>8, <1>9

-----------------------------------------------------------------------------
(* A number as alt_log prints it.                                          *)

\* The characters a formatter sees and prints.
Symbols ==
  STRING \cup {Lower[i] : i \in Nat} \cup {Upper[i] : i \in Nat}
  \cup {"0", "%", ".", "-", "l", Blank}

LEMMA DigitsAreSymbols == HasDigits(Lower, Symbols) /\ HasDigits(Upper, Symbols)
BY DEF HasDigits, Symbols

LEMMA PunctuationIs == "0" \in Symbols /\ "%" \in Symbols /\ "." \in Symbols /\ "-" \in Symbols
                       /\ "l" \in Symbols /\ Blank \in Symbols
BY DEF Symbols

LEMMA DigitIsNat ==
  ASSUME NEW c \in Decimal
  PROVE  DigitOf(c) \in Nat
<1> DEFINE I == {i \in 1 .. Len(Lower) : Lower[i] = c}
<1>1. Len(Lower) = 16
  BY DEF Lower
<1>2. PICK i \in 1 .. 10 : Lower[i] = c
  BY DEF Decimal
<1>3. I \subseteq Nat \ {0} /\ I # {}
  BY <1>1, <1>2
<1>4. PICK x \in I : \A y \in I : x <= y
  <2> HIDE DEF I
  <2> QED BY <1>3, LeastElement
<1>5. Min(I) \in I
  <2> HIDE DEF I
  <2> QED BY <1>4 DEF Min
<1>6. DigitOf(c) = Min(I) - 1
  BY <1>3 DEF DigitOf, SelectInSeq
<1>7. PICK m \in Nat \ {0} : m = Min(I)
  <2> HIDE DEF I
  <2> QED BY <1>3, <1>5
<1> HIDE DEF I
<1> QED BY <1>6, <1>7

\* Blanks or zeros in front.
LEMMA Padding ==
  ASSUME NEW c \in Symbols, NEW a \in Int, NEW b \in Int, a = b \/ (a <= 0 /\ b <= 0)
  PROVE  alt_log_repchar(c, a) = [i \in 1 .. b |-> c] /\ [i \in 1 .. b |-> c] \in Seq(Symbols)
<1>1. (1 .. (IF a > 0 THEN a ELSE 0)) = 1 .. b
  OBVIOUS
<1>2. alt_log_repchar(c, a) = [i \in 1 .. b |-> c]
  BY <1>1 DEF alt_log_repchar
<1>3. CASE b >= 0
  BY <1>2, <1>3
<1>4. CASE b < 0
  <2>1. (1 .. b) = 1 .. 0
    BY <1>4
  <2> QED BY <1>2, <2>1
<1> QED BY <1>2, <1>3, <1>4

LEMMA UIntIs ==
  ASSUME Nibbles \in Nat \ {0}
  PROVE  UInt \in Nat /\ UInt >= 16
<1>1. PICK h \in Nat : Nibbles = h + 1
  <2>1. Nibbles - 1 \in Nat /\ Nibbles = (Nibbles - 1) + 1
    OBVIOUS
  <2> QED BY <2>1
<1>2. PICK x \in Nat \ {0} : x = Weight[h]
  BY WeightIs
<1>3. Weight[h + 1] = 16 * x
  BY <1>2, WeightIs
<1> QED BY <1>1, <1>3 DEF UInt

\* The width of a directive as the formatter keeps it.
Width(item) == IF item.width = <<>> THEN -1 ELSE DigitOf(item.width[1])

LEMMA WidthIs ==
  ASSUME NEW item \in Item
  PROVE  /\ Width(item) \in Int
         /\ item.width = <<>> => Width(item) = -1
         /\ item.width # <<>> => /\ Width(item) = DigitOf(item.width[1])
                                 /\ Width(item) \in Nat
<1>1. CASE item.width = <<>>
  BY <1>1 DEF Width
<1>2. CASE item.width # <<>>
  <2>1. item.width[1] \in Decimal
    BY <1>2 DEF Item
  <2> QED BY <1>2, <2>1, DigitIsNat DEF Width
<1> QED BY <1>1, <1>2

WidensTo(item, sign, body, pad) ==
  /\ Widened(item, sign, body) =
       IF item.zero # <<>> /\ item.type \notin {"c", "s"}
       THEN sign \o alt_log_repchar("0", pad) \o body
       ELSE alt_log_repchar(Blank, pad) \o sign \o body
  /\ Widened(item, sign, body) \in Seq(Symbols)

\* What is missing is what the formatter counts, or there is nothing missing.
LEMMA Widens ==
  ASSUME NEW item \in Item, NEW sign \in Seq(Symbols), NEW body \in Seq(Symbols),
         NEW pad, pad = Width(item) - Len(body) - Len(sign)
  PROVE  WidensTo(item, sign, body, pad)
<1> DEFINE width == IF item.width = <<>> THEN 0 ELSE DigitOf(item.width[1])
           lack == width - Len(sign \o body)
<1>1. Len(sign) \in Nat /\ Len(body) \in Nat /\ Len(sign \o body) = Len(sign) + Len(body)
  BY LenProperties, ConcatProperties
<1>2. /\ width \in Nat /\ Width(item) \in Int
      /\ Width(item) = width \/ (Width(item) = -1 /\ width = 0)
  BY WidthIs
<1> HIDE DEF width
<1>3. pad \in Int /\ lack \in Int /\ (pad = lack \/ (pad <= 0 /\ lack <= 0))
  BY <1>1, <1>2
<1>4. "0" \in Symbols /\ Blank \in Symbols
  BY PunctuationIs
<1> HIDE DEF lack
<1>5. /\ alt_log_repchar("0", pad) = [i \in 1 .. lack |-> "0"]
      /\ alt_log_repchar("0", pad) \in Seq(Symbols)
  BY <1>3, <1>4, Padding
<1>6. /\ alt_log_repchar(Blank, pad) = [i \in 1 .. lack |-> Blank]
      /\ alt_log_repchar(Blank, pad) \in Seq(Symbols)
  BY <1>3, <1>4, Padding
<1>7. Widened(item, sign, body) =
        IF item.zero # <<>> /\ item.type \notin {"c", "s"}
        THEN sign \o [i \in 1 .. lack |-> "0"] \o body
        ELSE [i \in 1 .. lack |-> Blank] \o sign \o body
  BY DEF Widened, lack, width
<1>8. /\ sign \o alt_log_repchar("0", pad) \o body \in Seq(Symbols)
      /\ alt_log_repchar(Blank, pad) \o sign \o body \in Seq(Symbols)
  BY <1>5, <1>6, ConcatProperties
<1>9. /\ Widened(item, sign, body) =
           IF item.zero # <<>> /\ item.type \notin {"c", "s"}
           THEN sign \o alt_log_repchar("0", pad) \o body
           ELSE alt_log_repchar(Blank, pad) \o sign \o body
      /\ Widened(item, sign, body) \in Seq(Symbols)
  BY <1>5, <1>6, <1>7, <1>8
<1> QED BY <1>9 DEF WidensTo

PrintsAs(v, signed, b, digit, item, s) ==
  /\ signed /\ 2 * v >= UInt =>
       IntegerPrint(v, signed, b, digit, s) = Widened(item, <<"-">>, Numeral(UInt - v, b, digit))
  /\ ~(signed /\ 2 * v >= UInt) =>
       IntegerPrint(v, signed, b, digit, s) = Widened(item, <<>>, Numeral(v, b, digit))

\* doIntegerPrint prints the numeral at its width.
LEMMA IntegerPrints ==
  ASSUME Nibbles \in Nat \ {0}, NEW v \in 0 .. UInt - 1, NEW signed \in BOOLEAN,
         NEW b \in Nat, b >= 2, NEW digit, HasDigits(digit, Symbols),
         NEW item \in Item, item.type \notin {"c", "s"},
         NEW s, s.zero = (item.zero # <<>>), s.before = Width(item)
  PROVE  PrintsAs(v, signed, b, digit, item, s)
<1> DEFINE sign == signed /\ 2 * v >= UInt
           size == IF sign THEN (UInt - v) % UInt ELSE v
           minus == IF sign THEN <<"-">> ELSE <<>>
           body == Numeral(size, b, digit)
           pad == s.before - DigitCount(size, b) - (IF sign THEN 1 ELSE 0)
<1>1. UInt \in Nat /\ UInt >= 16
  BY UIntIs
<1>2. size \in Nat /\ (sign => size = UInt - v)
  <2>1. CASE sign
    <3>1. UInt - v \in 0 .. UInt - 1
      BY <1>1, <2>1
    <3>2. (UInt - v) % UInt = UInt - v
      BY <1>1, <3>1
    <3> QED BY <2>1, <3>1, <3>2
  <2>2. CASE ~sign
    BY <1>1, <2>2
  <2> QED BY <2>1, <2>2
<1>3. "-" \in Symbols
  BY PunctuationIs
<1>4. minus \in Seq(Symbols) /\ Len(minus) = IF sign THEN 1 ELSE 0
  BY <1>3
<1> HIDE DEF sign
<1>5. /\ PlaceDigits(size, b, digit) = body /\ DigitCount(size, b) = Len(body)
      /\ body \in Seq(Symbols)
  <2> HIDE DEF size
  <2> QED BY <1>2, PrintsNumeral
<1>6. pad = Width(item) - Len(body) - Len(minus)
  BY <1>4, <1>5
<1>7. IntegerPrint(v, signed, b, digit, s) =
        IF s.zero THEN minus \o alt_log_repchar("0", pad) \o body
        ELSE alt_log_repchar(Blank, pad) \o minus \o body
  BY <1>5 DEF IntegerPrint, sign
<1> HIDE DEF minus, body, pad
<1>8. /\ Widened(item, minus, body) = IF item.zero # <<>> /\ item.type \notin {"c", "s"}
                                     THEN minus \o alt_log_repchar("0", pad) \o body
                                     ELSE alt_log_repchar(Blank, pad) \o minus \o body
      /\ Widened(item, minus, body) \in Seq(Symbols)
  <2>1. PICK m \in Seq(Symbols), c \in Seq(Symbols) : m = minus /\ c = body
    BY <1>4, <1>5
  <2>2. PICK p : p = pad
    OBVIOUS
  <2>3. p = Width(item) - Len(c) - Len(m)
    BY <1>6, <2>1, <2>2
  <2>4. WidensTo(item, m, c, p)
    BY <2>3, Widens
  <2>5. WidensTo(item, minus, body, pad)
    BY <2>1, <2>2, <2>4
  <2> QED BY <2>5 DEF WidensTo
<1>9. IntegerPrint(v, signed, b, digit, s) = Widened(item, minus, body)
  <2>1. CASE item.zero # <<>>
    <3>1. s.zero
      BY <2>1
    <3> QED BY <1>7, <1>8, <2>1, <3>1, Zenon
  <2>2. CASE item.zero = <<>>
    <3>1. ~s.zero
      BY <2>2
    <3> QED BY <1>7, <1>8, <2>2, <3>1, Zenon
  <2> QED BY <2>1, <2>2
<1>10. ASSUME sign
       PROVE  IntegerPrint(v, signed, b, digit, s) = Widened(item, <<"-">>, Numeral(UInt - v, b, digit))
  <2>1. minus = <<"-">> /\ body = Numeral(UInt - v, b, digit)
    BY <1>2, <1>10 DEF minus, body
  <2> QED BY <1>9, <1>10, <2>1
<1>11. ASSUME ~sign
       PROVE  IntegerPrint(v, signed, b, digit, s) = Widened(item, <<>>, Numeral(v, b, digit))
  <2>1. minus = <<>> /\ body = Numeral(v, b, digit)
    BY <1>11 DEF minus, body, size
  <2> QED BY <1>9, <1>11, <2>1
<1>12. /\ sign => IntegerPrint(v, signed, b, digit, s) = Widened(item, <<"-">>, Numeral(UInt - v, b, digit))
       /\ ~sign => IntegerPrint(v, signed, b, digit, s) = Widened(item, <<>>, Numeral(v, b, digit))
  BY <1>10, <1>11
<1> QED BY <1>12, Zenon DEF PrintsAs, sign

-----------------------------------------------------------------------------
(* What an item means.                                                     *)

Argument == [n : 0 .. UInt - 1, s : Seq(STRING)]

\* What an item means is characters, ...
LEMMA MeaningIsPrinted ==
  ASSUME Nibbles \in Nat \ {0}, NEW item \in Item, NEW val,
         Takes(item) => val \in Argument
  PROVE  Meaning(item, val) \in Seq(Symbols)
<1> DEFINE Text(body) == Widened(item, <<>>, body) \in Seq(Symbols) /\ Widened(item, <<"-">>, body) \in Seq(Symbols)
<1>1. ASSUME NEW body \in Seq(Symbols) PROVE Text(body)
  <2>1. <<>> \in Seq(Symbols) /\ <<"-">> \in Seq(Symbols)
    BY PunctuationIs
  <2>2. PICK p, q : p = Width(item) - Len(body) - Len(<<>>) /\ q = Width(item) - Len(body) - Len(<<"-">>)
    OBVIOUS
  <2>3. WidensTo(item, <<>>, body, p) /\ WidensTo(item, <<"-">>, body, q)
    BY <2>1, <2>2, Widens
  <2> QED BY <2>3 DEF WidensTo
<1>2. ASSUME NEW v \in Nat, NEW b \in Nat, b >= 2, NEW digit, HasDigits(digit, Symbols)
      PROVE  Text(Numeral(v, b, digit))
  <2>1. Numeral(v, b, digit) \in Seq(Symbols)
    BY <1>2, PrintsNumeral
  <2> HIDE DEF Text
  <2> QED BY <1>1, <2>1
<1>3. HasDigits(Lower, Symbols) /\ HasDigits(Upper, Symbols)
  BY DigitsAreSymbols
<1>4. CASE item.type \in {"c", "s"}
  <2>1. val.s \in Seq(Symbols)
    <3>1. val.s \in Seq(STRING)
      BY <1>4 DEF Takes, Letters, Argument
    <3>2. STRING \subseteq Symbols
      BY DEF Symbols
    <3>3. PICK t \in Seq(STRING) : t = val.s
      BY <3>1
    <3> QED BY <3>2, <3>3, SeqMonotonic
  <2>2. Text(val.s)
    <3> HIDE DEF Text
    <3> QED BY <1>1, <2>1
  <2> QED BY <1>4, <2>2 DEF Meaning
<1>5. CASE item.type \in {"d", "i"}
  <2>1. val.n \in Nat /\ UInt \in Nat /\ UInt - val.n \in Nat
    BY <1>5, UIntIs DEF Takes, Letters, Argument
  <2>2. Text(Numeral(val.n, 10, Lower)) /\ Text(Numeral(UInt - val.n, 10, Lower))
    <3> HIDE DEF Text
    <3> QED BY <1>2, <1>3, <2>1
  <2> QED BY <1>5, <2>2 DEF Meaning
<1>6. CASE item.type \in {"u", "o", "x", "X"}
  <2>1. val.n \in Nat
    BY <1>6, UIntIs DEF Takes, Letters, Argument
  <2>2. /\ Text(Numeral(val.n, 10, Lower)) /\ Text(Numeral(val.n, 8, Lower))
        /\ Text(Numeral(val.n, 16, Lower)) /\ Text(Numeral(val.n, 16, Upper))
    <3> HIDE DEF Text
    <3> QED BY <1>2, <1>3, <2>1
  <2>3. CASE item.type = "u"
    BY <2>2, <2>3 DEF Meaning
  <2>4. CASE item.type = "o"
    BY <2>2, <2>4 DEF Meaning
  <2>5. CASE item.type = "x"
    BY <2>2, <2>5 DEF Meaning
  <2>6. CASE item.type = "X"
    BY <2>2, <2>6 DEF Meaning
  <2> QED BY <1>6, <2>3, <2>4, <2>5, <2>6
<1>7. CASE item.type = "char"
  <2>1. item.c \in Symbols
    BY DEF Item, Symbols
  <2> QED BY <1>7, <2>1 DEF Meaning
<1>8. CASE item.type = "%"
  BY <1>8, PunctuationIs DEF Meaning
<1>9. CASE item.type \notin {"c", "s", "d", "i", "u", "o", "x", "X", "char", "%"}
  BY <1>9 DEF Meaning
<1> QED BY <1>4, <1>5, <1>6, <1>7, <1>8, <1>9

\* ... and what the directive converts its argument to.
LEMMA ConvertsToMeaning ==
  ASSUME Nibbles \in Nat \ {0}, NEW item \in Item, item.type \in Letters, NEW val \in Argument,
         item.type = "c" => Len(val.s) = 1,
         spec.zero = (item.zero # <<>>), spec.before = Width(item)
  PROVE  Convert(item.type, val) = Meaning(item, val)
<1>1. HasDigits(Lower, Symbols) /\ HasDigits(Upper, Symbols)
  BY DigitsAreSymbols
<1>2. PICK v \in 0 .. UInt - 1 : v = val.n /\ UInt \in Nat /\ v \in Nat
  BY UIntIs DEF Argument
<1>3. CASE item.type \in {"d", "i"}
  <2> DEFINE minus == Widened(item, <<"-">>, Numeral(UInt - v, 10, Lower))
             plus == Widened(item, <<>>, Numeral(v, 10, Lower))
             printed == IntegerPrint(v, TRUE, 10, Lower, spec)
  <2>1. (2 * v >= UInt => printed = minus) /\ (2 * v < UInt => printed = plus)
    <3>1. 10 \in Nat /\ 10 >= 2 /\ TRUE \in BOOLEAN /\ item.type \notin {"c", "s"}
      BY <1>3
    <3>2. PrintsAs(v, TRUE, 10, Lower, item, spec)
      BY <1>1, <3>1, IntegerPrints, Zenon
    <3>3. (2 * v >= UInt => printed = minus) /\ (~(2 * v >= UInt) => printed = plus)
      BY <3>2, Zenon DEF PrintsAs
    <3> HIDE DEF minus, plus, printed
    <3> QED BY <1>2, <3>3
  <2>2. Convert(item.type, val) = printed
    BY <1>2, <1>3 DEF Convert
  <2>3. Meaning(item, val) = IF 2 * v < UInt THEN plus ELSE minus
    BY <1>2, <1>3 DEF Meaning
  <2> HIDE DEF minus, plus, printed
  <2> QED BY <1>2, <2>1, <2>2, <2>3
<1>4. ASSUME NEW b \in Nat, b >= 2, NEW digit, HasDigits(digit, Symbols),
             item.type \notin {"c", "s"}
      PROVE  IntegerPrint(val.n, FALSE, b, digit, spec) = Widened(item, <<>>, Numeral(val.n, b, digit))
  <2>1. FALSE \in BOOLEAN
    OBVIOUS
  <2>2. PrintsAs(v, FALSE, b, digit, item, spec)
    BY <1>4, <2>1, IntegerPrints, Zenon
  <2> QED BY <1>2, <2>2 DEF PrintsAs
<1>5. CASE item.type = "u"
  <2>1. Convert(item.type, val) = IntegerPrint(val.n, FALSE, 10, Lower, spec)
    BY <1>5 DEF Convert
  <2>2. 10 \in Nat /\ 10 >= 2 /\ item.type \notin {"c", "s"}
    BY <1>5
  <2>3. IntegerPrint(val.n, FALSE, 10, Lower, spec) = Widened(item, <<>>, Numeral(val.n, 10, Lower))
    BY <1>1, <1>4, <2>2
  <2>4. Meaning(item, val) = Widened(item, <<>>, Numeral(val.n, 10, Lower))
    BY <1>5 DEF Meaning
  <2> QED BY <2>1, <2>3, <2>4
<1>6. CASE item.type = "o"
  <2>1. Convert(item.type, val) = IntegerPrint(val.n, FALSE, 8, Lower, spec)
    BY <1>6 DEF Convert
  <2>2. 8 \in Nat /\ 8 >= 2 /\ item.type \notin {"c", "s"}
    BY <1>6
  <2>3. IntegerPrint(val.n, FALSE, 8, Lower, spec) = Widened(item, <<>>, Numeral(val.n, 8, Lower))
    BY <1>1, <1>4, <2>2
  <2>4. Meaning(item, val) = Widened(item, <<>>, Numeral(val.n, 8, Lower))
    BY <1>6 DEF Meaning
  <2> QED BY <2>1, <2>3, <2>4
<1>7. CASE item.type = "x"
  <2>1. Convert(item.type, val) = IntegerPrint(val.n, FALSE, 16, Lower, spec)
    BY <1>7 DEF Convert
  <2>2. 16 \in Nat /\ 16 >= 2 /\ item.type \notin {"c", "s"}
    BY <1>7
  <2>3. IntegerPrint(val.n, FALSE, 16, Lower, spec) = Widened(item, <<>>, Numeral(val.n, 16, Lower))
    BY <1>1, <1>4, <2>2
  <2>4. Meaning(item, val) = Widened(item, <<>>, Numeral(val.n, 16, Lower))
    BY <1>7 DEF Meaning
  <2> QED BY <2>1, <2>3, <2>4
<1>8. CASE item.type = "X"
  <2>1. Convert(item.type, val) = IntegerPrint(val.n, FALSE, 16, Upper, spec)
    BY <1>8 DEF Convert
  <2>2. 16 \in Nat /\ 16 >= 2 /\ item.type \notin {"c", "s"}
    BY <1>8
  <2>3. IntegerPrint(val.n, FALSE, 16, Upper, spec) = Widened(item, <<>>, Numeral(val.n, 16, Upper))
    BY <1>1, <1>4, <2>2
  <2>4. Meaning(item, val) = Widened(item, <<>>, Numeral(val.n, 16, Upper))
    BY <1>8 DEF Meaning
  <2> QED BY <2>1, <2>3, <2>4
<1>9. CASE item.type \in {"c", "s"}
  <2>1. val.s \in Seq(Symbols) /\ <<>> \in Seq(Symbols) /\ Len(val.s) \in Nat
    <3>1. STRING \subseteq Symbols
      BY DEF Symbols
    <3>2. PICK t \in Seq(STRING) : t = val.s
      BY DEF Argument
    <3>3. t \in Seq(Symbols)
      BY <3>1, SeqMonotonic
    <3> QED BY <3>2, <3>3
  <2>2. PICK p : p = Width(item) - Len(val.s) - Len(<<>>)
    OBVIOUS
  <2>3. WidensTo(item, <<>>, val.s, p)
    BY <2>1, <2>2, Widens
  <2>4. p = spec.before - Len(val.s)
    BY <2>1, <2>2, WidthIs
  <2>5. alt_log_repchar(Blank, p) \in Seq(Symbols)
    <3>1. p \in Int
      BY <2>1, <2>4, WidthIs
    <3> QED BY <3>1, PunctuationIs, Padding
  <2>6. Widened(item, <<>>, val.s) = alt_log_repchar(Blank, p) \o <<>> \o val.s
    BY <1>9, <2>3 DEF WidensTo
  <2>7. Widened(item, <<>>, val.s) = alt_log_repchar(Blank, p) \o val.s
    BY <2>5, <2>6, ConcatEmptySeq
  <2>8. Convert(item.type, val) = alt_log_repchar(Blank, p) \o val.s
    BY <1>9, <2>4 DEF Convert
  <2> QED BY <1>9, <2>7, <2>8 DEF Meaning
<1> QED BY <1>3, <1>5, <1>6, <1>7, <1>8, <1>9 DEF Letters

-----------------------------------------------------------------------------
(* The characters of an item, and what is left of a call.                  *)

\* What is still to be read of a directive whose "%" was read.
Pending(z, wd, d, l, t, u) == z \o (wd \o (d \o (l \o (<<t>> \o u))))

LEMMA DecimalIsSymbol == Decimal \subseteq Symbols
BY DEF Decimal, Symbols

LEMMA ItemIsSpelled ==
  ASSUME NEW item \in Item
  PROVE  /\ item.type \in Symbols /\ item.c \in Symbols
         /\ item.zero \in Seq(Symbols) /\ item.width \in Seq(Symbols)
         /\ item.dot \in Seq(Symbols) /\ item.long \in Seq(Symbols)
<1>1. item.type \in Symbols /\ item.c \in Symbols
  BY DEF Item, Symbols
<1>0. \A c \in Symbols : <<>> \in Seq(Symbols) /\ <<c>> \in Seq(Symbols) /\ <<".", c>> \in Seq(Symbols)
  BY PunctuationIs
<1>2. item.zero \in Seq(Symbols)
  <2>1. item.zero = <<>> \/ item.zero = <<"0">>
    BY DEF Item
  <2> QED BY <1>0, <2>1, PunctuationIs
<1>3. item.width \in Seq(Symbols)
  <2>1. item.width = <<>> \/ \E c \in Decimal : item.width = <<c>>
    BY DEF Item
  <2>2. CASE item.width = <<>>
    BY <1>0, <2>2, PunctuationIs
  <2>3. CASE \E c \in Decimal : item.width = <<c>>
    <3>1. PICK c \in Symbols : item.width = <<c>>
      BY <2>3, DecimalIsSymbol
    <3> QED BY <1>0, <3>1
  <2> QED BY <2>1, <2>2, <2>3
<1>4. item.dot \in Seq(Symbols)
  <2>1. item.dot = <<>> \/ item.dot = <<".">> \/ \E c \in Decimal : item.dot = <<".", c>>
    BY DEF Item
  <2> QED BY <1>0, <2>1, PunctuationIs, DecimalIsSymbol
<1>5. item.long \in Seq(Symbols)
  <2>1. item.long = <<>> \/ item.long = <<"l">>
    BY DEF Item
  <2> QED BY <1>0, <2>1, PunctuationIs
<1> QED BY <1>1, <1>2, <1>3, <1>4, <1>5

InAnyOrder(x, y, v) == (x \o y) \o v = x \o (y \o v)

LEMMA JoinsInAnyOrder ==
  ASSUME NEW S, NEW x \in Seq(S), NEW y \in Seq(S), NEW v \in Seq(S)
  PROVE  InAnyOrder(x, y, v)
BY ConcatAssociative DEF InAnyOrder

SevenInAnyOrder(a, b, c, d, e, f, g) ==
  (a \o b \o c \o d \o e \o f) \o g = a \o (b \o (c \o (d \o (e \o (f \o g)))))

\* Seven sequences joined from the left or from the right.
LEMMA TogetherAll ==
  ASSUME NEW S, NEW a \in Seq(S), NEW b \in Seq(S), NEW c \in Seq(S), NEW d \in Seq(S),
         NEW e \in Seq(S), NEW f \in Seq(S), NEW g \in Seq(S)
  PROVE  /\ SevenInAnyOrder(a, b, c, d, e, f, g)
         /\ a \o b \o c \o d \o e \o f \in Seq(S)
<1>0. \A x, y, v \in Seq(S) : InAnyOrder(x, y, v)
  BY JoinsInAnyOrder
<1>1. PICK h \in Seq(S) : h = f \o g
  BY ConcatProperties
<1>2. PICK i \in Seq(S) : i = e \o h
  BY ConcatProperties
<1>3. PICK j \in Seq(S) : j = d \o i
  BY ConcatProperties
<1>4. PICK q \in Seq(S) : q = c \o j
  BY ConcatProperties
<1>5. PICK m \in Seq(S) : m = a \o b
  BY ConcatProperties
<1>6. PICK n \in Seq(S) : n = m \o c
  BY ConcatProperties
<1>7. PICK o \in Seq(S) : o = n \o d
  BY ConcatProperties
<1>8. PICK p \in Seq(S) : p = o \o e
  BY ConcatProperties
<1>9. p \o f \in Seq(S)
  BY ConcatProperties
<1>10. (p \o f) \o g = p \o h
  <2>1. InAnyOrder(p, f, g)
    BY <1>0
  <2> QED BY <2>1, <1>1 DEF InAnyOrder
<1>11. p \o h = o \o i
  <2>1. InAnyOrder(o, e, h)
    BY <1>0
  <2> QED BY <2>1, <1>2, <1>8 DEF InAnyOrder
<1>12. o \o i = n \o j
  <2>1. InAnyOrder(n, d, i)
    BY <1>0
  <2> QED BY <2>1, <1>3, <1>7 DEF InAnyOrder
<1>13. n \o j = m \o q
  <2>1. InAnyOrder(m, c, j)
    BY <1>0
  <2> QED BY <2>1, <1>4, <1>6 DEF InAnyOrder
<1>14. m \o q = a \o (b \o q)
  <2>1. InAnyOrder(a, b, q)
    BY <1>0
  <2> QED BY <2>1, <1>5 DEF InAnyOrder
<1>15. (p \o f) \o g = a \o (b \o q)
  BY <1>10, <1>11, <1>12, <1>13, <1>14
<1>16. p = a \o b \o c \o d \o e
  BY <1>5, <1>6, <1>7, <1>8
<1>17. q = c \o (d \o (e \o (f \o g)))
  BY <1>1, <1>2, <1>3, <1>4
<1> QED BY <1>9, <1>15, <1>16, <1>17 DEF SevenInAnyOrder

\* The first of them goes.
LEMMA FirstGoes ==
  ASSUME NEW S, NEW c \in S, NEW b \in Seq(S)
  PROVE  /\ <<c>> \o b \in Seq(S) /\ <<c>> \o b # <<>> /\ (<<c>> \o b)[1] = c
         /\ Tail(<<c>> \o b) = b /\ Len(<<c>> \o b) = Len(b) + 1
<1>1. <<c>> \in Seq(S) /\ Len(<<c>>) = 1 /\ <<c>>[1] = c /\ Len(b) \in Nat
  BY LenProperties
<1>2. PICK s \in Seq(S) : s = <<c>> \o b
  BY <1>1, ConcatProperties
<1>3. /\ Len(s) = Len(b) + 1
      /\ \A i \in 1 .. 1 + Len(b) : s[i] = IF i <= 1 THEN <<c>>[i] ELSE b[i - 1]
  <2>1. /\ Len(<<c>> \o b) = Len(<<c>>) + Len(b)
        /\ \A i \in 1 .. Len(<<c>>) + Len(b) :
             (<<c>> \o b)[i] = IF i <= Len(<<c>>) THEN <<c>>[i] ELSE b[i - Len(<<c>>)]
    BY <1>1, ConcatProperties
  <2> QED BY <1>1, <1>2, <2>1
<1>4. s # <<>> /\ s[1] = c
  <2>1. 1 \in 1 .. 1 + Len(b)
    BY <1>1
  <2>2. s[1] = <<c>>[1]
    BY <1>3, <2>1
  <2> QED BY <1>1, <1>3, <2>2
<1>5. Tail(s) \in Seq(S) /\ Len(Tail(s)) = Len(b) /\ \A i \in 1 .. Len(b) : Tail(s)[i] = b[i]
  <2>1. /\ Tail(s) \in Seq(S) /\ Len(Tail(s)) = Len(s) - 1
        /\ \A i \in 1 .. Len(Tail(s)) : Tail(s)[i] = s[i + 1]
    BY <1>4, HeadTailProperties
  <2>2. ASSUME NEW i \in 1 .. Len(b) PROVE s[i + 1] = b[i]
    <3>1. PICK h \in 1 .. 1 + Len(b) : h = i + 1 /\ ~(h <= 1) /\ h - 1 = i
      BY <1>1
    <3>2. s[h] = b[h - 1]
      BY <1>3, <3>1
    <3> QED BY <3>1, <3>2
  <2> QED BY <1>1, <1>3, <2>1, <2>2
<1>6. Tail(s) = b
  BY <1>5, SeqEqual
<1> QED BY <1>2, <1>3, <1>4, <1>6

IsDirective(item) == item.type \notin {"char", "end"}

LEMMA CharsIs ==
  ASSUME NEW item \in Item
  PROVE  /\ Chars(item) \in Seq(Symbols) /\ Chars(item) # <<>>
         /\ item.type = "char" => Chars(item) = <<item.c>>
         /\ item.type = "end" => Chars(item) = <<"%">>
         /\ IsDirective(item) => \A u \in Seq(Symbols) : Chars(item) \o u =
              <<"%">> \o Pending(item.zero, item.width, item.dot, item.long, item.type, u)
<1>1. CASE item.type = "char"
  BY <1>1, ItemIsSpelled DEF Chars, IsDirective
<1>2. CASE item.type = "end"
  BY <1>2, PunctuationIs DEF Chars, IsDirective
<1>3. CASE IsDirective(item)
  <2>1. Chars(item) = <<"%">> \o item.zero \o item.width \o item.dot \o item.long \o <<item.type>>
    BY <1>3 DEF Chars, IsDirective
  <2>a. /\ item.type \in Symbols /\ item.c \in Symbols
        /\ item.zero \in Seq(Symbols) /\ item.width \in Seq(Symbols)
        /\ item.dot \in Seq(Symbols) /\ item.long \in Seq(Symbols)
    BY ItemIsSpelled
  <2>b. <<"%">> \in Seq(Symbols) /\ <<item.type>> \in Seq(Symbols)
    BY <2>a, PunctuationIs
  <2>2. PICK p \in Seq(Symbols), z \in Seq(Symbols), wd \in Seq(Symbols), d \in Seq(Symbols),
             l \in Seq(Symbols), t \in Seq(Symbols) :
          p = <<"%">> /\ z = item.zero /\ wd = item.width /\ d = item.dot /\ l = item.long
            /\ t = <<item.type>>
    BY <2>a, <2>b
  <2>c. \A u \in Seq(Symbols) : SevenInAnyOrder(p, z, wd, d, l, t, u)
    BY TogetherAll
  <2>d. p \o z \o wd \o d \o l \o t \in Seq(Symbols)
    BY <2>b, TogetherAll
  <2>3. Chars(item) \in Seq(Symbols)
    BY <2>1, <2>2, <2>d
  <2>4. \A u \in Seq(Symbols) : Chars(item) \o u =
              <<"%">> \o Pending(item.zero, item.width, item.dot, item.long, item.type, u)
    <3>1. SUFFICES ASSUME NEW u \in Seq(Symbols)
                   PROVE  (p \o z \o wd \o d \o l \o t) \o u = p \o Pending(z, wd, d, l, item.type, u)
      BY <2>1, <2>2
    <3>2. SevenInAnyOrder(p, z, wd, d, l, t, u)
      BY <2>c
    <3> QED BY <2>2, <3>2 DEF SevenInAnyOrder, Pending
  <2>5. Chars(item) # <<>>
    <3>1. PICK u \in Seq(Symbols) : Chars(item) = u \o t
      BY <2>1, <2>2, ConcatProperties
    <3>2. t # <<>>
      BY <2>2
    <3> QED BY <3>1, <3>2, ConcatSimplifications
  <2> QED BY <1>3, <2>3, <2>4, <2>5 DEF IsDirective
<1> QED BY <1>1, <1>2, <1>3 DEF IsDirective

-----------------------------------------------------------------------------
(* A call: the arguments its directives take, what was read and printed.   *)

GoodItem(f, its, a, i) ==
  /\ its[i].type = "char" => its[i].c # "%"
  /\ its[i].type = "end" => i = Len(its)
  /\ its[i].type = "%" => Unmodified(its[i])
  /\ ~Modifier(its[i].type)
  /\ Takes(its[i]) => ArgNumber(its, i) <= Len(a)
  /\ its[i].type = "c" => Len(a[ArgNumber(its, i)].s) = 1
  /\ f = "alt_printf" => Unmodified(its[i]) /\ its[i].type \notin Letters \ {"c", "x", "s"}

GoodCall(f, its, a) ==
  /\ f \in {"alt_printf", "alt_log"} /\ its \in Seq(Item) /\ a \in Seq(Argument)
  /\ \A i \in 1 .. Len(its) : GoodItem(f, its, a, i)

LEMMA CallsAreGood ==
  ASSUME NEW made \in PrintfCalls
  PROVE  GoodCall(made.who, made.items, made.args)
<1>1. /\ made.who \in {"alt_printf", "alt_log"}
      /\ made.items \in Seq(Item) /\ made.args \in Seq([n : 0 .. UInt - 1, s : Seq(STRING)])
      /\ \A i \in 1 .. Len(made.items) : Legal(made, i)
  BY PrintfAssumption
<1>2. ASSUME NEW i \in 1 .. Len(made.items) PROVE GoodItem(made.who, made.items, made.args, i)
  <2>1. Legal(made, i)
    BY <1>1
  <2> QED BY <2>1 DEF Legal, GoodItem
<1> QED BY <1>1, <1>2 DEF GoodCall, Argument

\* Each directive takes the next argument.
LEMMA ArgNumberIs ==
  ASSUME NEW its
  PROVE  /\ ArgNumber(its, 0) = 0
         /\ \A i \in Nat : /\ ArgNumber(its, i) \in Nat
                           /\ ArgNumber(its, i + 1) =
                                ArgNumber(its, i) + (IF Takes(its[i + 1]) THEN 1 ELSE 0)
<1> DEFINE T(i) == {j \in 1 .. i : Takes(its[j])}
<1>1. ASSUME NEW i \in Nat PROVE IsFiniteSet(T(i)) /\ ArgNumber(its, i) = Cardinality(T(i)) /\ Cardinality(T(i)) \in Nat
  <2>1. IsFiniteSet(1 .. i) /\ T(i) \in SUBSET (1 .. i)
    BY FS_Interval
  <2>2. IsFiniteSet(T(i))
    BY <2>1, FS_Subset
  <2> QED BY <2>2, FS_CardinalityType DEF ArgNumber
<1>2. ArgNumber(its, 0) = 0
  <2>1. T(0) = {}
    OBVIOUS
  <2> QED BY <2>1, FS_EmptySet DEF ArgNumber
<1>3. ASSUME NEW i \in Nat
      PROVE  ArgNumber(its, i + 1) = ArgNumber(its, i) + (IF Takes(its[i + 1]) THEN 1 ELSE 0)
  <2>1. i + 1 \in Nat /\ i + 1 \notin T(i)
    OBVIOUS
  <2>2. CASE Takes(its[i + 1])
    <3>1. T(i + 1) = T(i) \cup {i + 1}
      BY <2>2
    <3> HIDE DEF T
    <3>2. Cardinality(T(i) \cup {i + 1}) = Cardinality(T(i)) + 1
      BY <1>1, <2>1, FS_AddElement
    <3>3. ArgNumber(its, i + 1) = ArgNumber(its, i) + 1
      BY <1>1, <2>1, <3>1, <3>2
    <3> QED BY <2>2, <3>3
  <2>3. CASE ~Takes(its[i + 1])
    <3>1. T(i + 1) = T(i)
      BY <2>3
    <3> HIDE DEF T
    <3>2. ArgNumber(its, i + 1) = ArgNumber(its, i) /\ ArgNumber(its, i) \in Nat
      BY <1>1, <2>1, <3>1
    <3> QED BY <2>3, <3>2
  <2> QED BY <2>2, <2>3
<1> HIDE DEF T
<1> QED BY <1>1, <1>2, <1>3

ArgFor(its, a, i) == IF Takes(its[i]) THEN a[ArgNumber(its, i)] ELSE [n |-> 0, s |-> <<>>]
Left(its, a, i) == SubSeq(a, ArgNumber(its, i) + 1, Len(a))

NextArgument(its, a, i) ==
  /\ Takes(its[i + 1]) => /\ Left(its, a, i) # <<>> /\ Left(its, a, i)[1] = ArgFor(its, a, i + 1)
                          /\ Tail(Left(its, a, i)) = Left(its, a, i + 1)
                          /\ ArgFor(its, a, i + 1) \in Argument
                          /\ its[i + 1].type = "c" => Len(ArgFor(its, a, i + 1).s) = 1
  /\ ~Takes(its[i + 1]) => Left(its, a, i) = Left(its, a, i + 1)

LEMMA LeftAtFirst ==
  ASSUME NEW its, NEW a \in Seq(Argument)
  PROVE  Left(its, a, 0) = a
<1>1. ArgNumber(its, 0) + 1 = 1
  BY ArgNumberIs
<1> QED BY <1>1, SubSeqFull DEF Left

LEMMA NextIsTaken ==
  ASSUME NEW f, NEW its, NEW a, GoodCall(f, its, a), NEW i \in 0 .. Len(its) - 1
  PROVE  NextArgument(its, a, i)
<1>1. i \in Nat /\ i + 1 \in 1 .. Len(its) /\ a \in Seq(Argument) /\ Len(a) \in Nat
  BY DEF GoodCall
<1>2. PICK h \in Nat : h = ArgNumber(its, i)
  BY <1>1, ArgNumberIs
<1>3. ArgNumber(its, i + 1) = h + (IF Takes(its[i + 1]) THEN 1 ELSE 0)
  BY <1>1, <1>2, ArgNumberIs
<1>4. GoodItem(f, its, a, i + 1)
  BY <1>1 DEF GoodCall
<1>5. ASSUME Takes(its[i + 1])
      PROVE  /\ Left(its, a, i) # <<>> /\ Left(its, a, i)[1] = ArgFor(its, a, i + 1)
             /\ Tail(Left(its, a, i)) = Left(its, a, i + 1)
             /\ ArgFor(its, a, i + 1) \in Argument
             /\ its[i + 1].type = "c" => Len(ArgFor(its, a, i + 1).s) = 1
  <2>1. ArgNumber(its, i + 1) = h + 1 /\ h + 1 \in 1 .. Len(a)
    BY <1>1, <1>2, <1>3, <1>4, <1>5 DEF GoodItem
  <2>2. ArgFor(its, a, i + 1) = a[h + 1]
    BY <1>5, <2>1 DEF ArgFor
  <2>3. SubSeq(a, h + 1, Len(a)) = <<a[h + 1]>> \o SubSeq(a, (h + 1) + 1, Len(a))
    <3>0. PICK m \in 1 .. Len(a) : m = h + 1
      BY <2>1
    <3>1. PICK e \in m .. Len(a) : m = h + 1 /\ e = Len(a)
      BY <1>1, <2>1, <3>0
    <3>2. SubSeq(a, m, e) = <<a[m]>> \o SubSeq(a, m + 1, e)
      BY <1>1, SubSeqRecursiveFirst
    <3> QED BY <3>1, <3>2
  <2>4. SubSeq(a, (h + 1) + 1, Len(a)) \in Seq(Argument) /\ a[h + 1] \in Argument
    BY <1>1, <2>1
  <2>5. PICK c \in Argument, b \in Seq(Argument) : c = a[h + 1] /\ b = SubSeq(a, (h + 1) + 1, Len(a))
    BY <2>4
  <2>6. Left(its, a, i) = <<c>> \o b /\ Left(its, a, i + 1) = b
    BY <1>2, <2>1, <2>3, <2>5 DEF Left
  <2>7. <<c>> \o b # <<>> /\ (<<c>> \o b)[1] = c /\ Tail(<<c>> \o b) = b
    BY FirstGoes
  <2>8. its[i + 1].type = "c" => Len(ArgFor(its, a, i + 1).s) = 1
    BY <1>4, <1>5 DEF GoodItem, ArgFor
  <2> QED BY <2>2, <2>5, <2>6, <2>7, <2>8
<1>6. ASSUME ~Takes(its[i + 1])
      PROVE  Left(its, a, i) = Left(its, a, i + 1)
  <2>1. ArgNumber(its, i + 1) = h
    BY <1>2, <1>3, <1>6
  <2>2. ArgNumber(its, i + 1) = ArgNumber(its, i)
    BY <1>2, <2>1
  <2> QED BY <2>2 DEF Left
<1> QED BY <1>5, <1>6 DEF NextArgument

Spelled(its, i) == Joined([h \in 1 .. Len(its) |-> Chars(its[h])], i)
Said(its, a, i) == Joined([h \in 1 .. Len(its) |-> Meaning(its[h], ArgFor(its, a, h))], i)

\* Before item i + 1, rest is what is still to be read.
Reading(its, i, rest) ==
  rest \in Seq(Symbols) /\ Spelled(its, i) \o rest = Spelled(its, Len(its))

Reads(its, i, rest, u) ==
  u \in Seq(Symbols) /\ rest = Chars(its[i + 1]) \o u /\ Reading(its, i + 1, u)

LEMMA ReadingFirst ==
  ASSUME NEW its \in Seq(Item)
  PROVE  Reading(its, 0, FlattenSeq([h \in 1 .. Len(its) |-> Chars(its[h])]))
<1> DEFINE parts == [h \in 1 .. Len(its) |-> Chars(its[h])]
<1>1. Len(its) \in Nat /\ parts \in [1 .. Len(its) -> Seq(Symbols)]
  <2>1. \A h \in 1 .. Len(its) : its[h] \in Item
    OBVIOUS
  <2>2. \A h \in 1 .. Len(its) : Chars(its[h]) \in Seq(Symbols)
    BY <2>1, CharsIs
  <2> QED BY <2>2
<1>2. PICK n \in Nat : n = Len(its)
  BY <1>1
<1> HIDE DEF parts
<1>3. /\ Joined(parts, 0) = <<>> /\ \A i \in 0 .. n : Joined(parts, i) \in Seq(Symbols)
      /\ Joined(parts, n) = FlattenSeq(parts)
  BY <1>1, <1>2, JoinedOneMore
<1>4. FlattenSeq(parts) \in Seq(Symbols) /\ <<>> \o FlattenSeq(parts) = FlattenSeq(parts)
  <2>1. n \in 0 .. n
    OBVIOUS
  <2>2. FlattenSeq(parts) \in Seq(Symbols)
    BY <1>3, <2>1
  <2> QED BY <2>2, ConcatEmptySeq
<1> QED BY <1>2, <1>3, <1>4 DEF Reading, Spelled, parts

LEMMA ReadingNext ==
  ASSUME NEW its \in Seq(Item), NEW i \in 0 .. Len(its), NEW rest, Reading(its, i, rest)
  PROVE  /\ rest = <<>> => i = Len(its)
         /\ rest # <<>> => i < Len(its) /\ \E u : Reads(its, i, rest, u)
<1> DEFINE parts == [h \in 1 .. Len(its) |-> Chars(its[h])]
<1>1. Len(its) \in Nat /\ parts \in [1 .. Len(its) -> Seq(Symbols)]
      /\ \A h \in 1 .. Len(its) : parts[h] # <<>> /\ parts[h] = Chars(its[h])
  <2>1. \A h \in 1 .. Len(its) : its[h] \in Item
    OBVIOUS
  <2>2. \A h \in 1 .. Len(its) : Chars(its[h]) \in Seq(Symbols) /\ Chars(its[h]) # <<>>
    BY <2>1, CharsIs
  <2> QED BY <2>2
<1>2. rest \in Seq(Symbols) /\ Joined(parts, i) \o rest = Joined(parts, Len(its))
  BY DEF Reading, Spelled
<1> HIDE DEF parts
<1>3. /\ rest = <<>> => i = Len(its)
      /\ rest # <<>> => /\ i < Len(its)
                        /\ \E u \in Seq(Symbols) :
                             /\ rest = parts[i + 1] \o u
                             /\ Joined(parts, i + 1) \o u = Joined(parts, Len(its))
  <2>1. PICK n \in Nat : n = Len(its)
    BY <1>1
  <2>2. PICK r \in Seq(Symbols) : r = rest
    BY <1>2
  <2>3. i \in 0 .. n /\ parts \in [1 .. n -> Seq(Symbols)] /\ \A h \in 1 .. n : parts[h] # <<>>
    BY <1>1, <2>1
  <2>4. Joined(parts, i) \o r = Joined(parts, n)
    BY <1>2, <2>1, <2>2
  <2>5. BeginsWithNext(parts, Symbols, n, i, r)
    BY <2>3, <2>4, NextPart
  <2> QED BY <2>1, <2>2, <2>5 DEF BeginsWithNext
<1>4. ASSUME rest # <<>> PROVE i < Len(its) /\ \E u : Reads(its, i, rest, u)
  <2>1. PICK u \in Seq(Symbols) : /\ i < Len(its) /\ rest = parts[i + 1] \o u
                                  /\ Joined(parts, i + 1) \o u = Joined(parts, Len(its))
    BY <1>3, <1>4
  <2>2. parts[i + 1] = Chars(its[i + 1])
    BY <1>1, <2>1
  <2>3. Reading(its, i + 1, u)
    BY <2>1 DEF Reading, Spelled, parts
  <2>4. Reads(its, i, rest, u)
    BY <2>1, <2>2, <2>3 DEF Reads
  <2> QED BY <2>1, <2>4
<1> QED BY <1>3, <1>4

LEMMA ReadingLast ==
  ASSUME NEW its \in Seq(Item), NEW rest, Reading(its, Len(its), rest)
  PROVE  rest = <<>>
<1>1. Len(its) \in 0 .. Len(its)
  OBVIOUS
<1>2. rest # <<>> => Len(its) < Len(its)
  BY <1>1, ReadingNext
<1> QED BY <1>1, <1>2

Says(its, a, i) ==
  Said(its, a, i + 1) = Said(its, a, i) \o Meaning(its[i + 1], ArgFor(its, a, i + 1))

LEMMA SaidIs ==
  ASSUME Nibbles \in Nat \ {0}, NEW f, NEW its, NEW a, GoodCall(f, its, a)
  PROVE  /\ Said(its, a, 0) = <<>> /\ \A i \in 0 .. Len(its) - 1 : Says(its, a, i)
         /\ \A i \in 0 .. Len(its) : Said(its, a, i) \in Seq(Symbols)
         /\ Said(its, a, Len(its)) =
              FlattenSeq([h \in 1 .. Len(its) |-> Meaning(its[h], ArgFor(its, a, h))])
<1> DEFINE parts == [h \in 1 .. Len(its) |-> Meaning(its[h], ArgFor(its, a, h))]
<1>1. PICK n \in Nat : n = Len(its)
  BY DEF GoodCall
<1>2. ASSUME NEW h \in 1 .. n PROVE Meaning(its[h], ArgFor(its, a, h)) \in Seq(Symbols)
  <2>1. its[h] \in Item
    BY <1>1 DEF GoodCall
  <2>2. PICK i \in 0 .. n - 1 : h = i + 1
    <3>1. h - 1 \in 0 .. n - 1 /\ h = (h - 1) + 1
      OBVIOUS
    <3> QED BY <3>1
  <2>3. NextArgument(its, a, i)
    BY <1>1, NextIsTaken
  <2>4. Takes(its[h]) => ArgFor(its, a, h) \in Argument
    BY <2>2, <2>3 DEF NextArgument
  <2>5. PICK item \in Item : item = its[h]
    BY <2>1
  <2>6. PICK val : val = ArgFor(its, a, h)
    OBVIOUS
  <2> QED BY <2>4, <2>5, <2>6, MeaningIsPrinted
<1>3. parts \in [1 .. n -> Seq(Symbols)]
  BY <1>1, <1>2
<1> HIDE DEF parts
<1>4. /\ Joined(parts, 0) = <<>> /\ \A i \in 0 .. n : Joined(parts, i) \in Seq(Symbols)
      /\ \A i \in 0 .. n - 1 : Joined(parts, i + 1) = Joined(parts, i) \o parts[i + 1]
      /\ Joined(parts, n) = FlattenSeq(parts)
  BY <1>3, JoinedOneMore
<1>5. ASSUME NEW i \in 0 .. n - 1 PROVE Says(its, a, i)
  <2>1. parts[i + 1] = Meaning(its[i + 1], ArgFor(its, a, i + 1))
    BY <1>1 DEF parts
  <2>2. Joined(parts, i + 1) = Joined(parts, i) \o parts[i + 1]
    BY <1>4
  <2> QED BY <2>1, <2>2 DEF Says, Said, parts
<1>6. \A i \in 0 .. n : Said(its, a, i) = Joined(parts, i)
  BY DEF Said, parts
<1>7. 0 \in 0 .. n /\ n \in 0 .. n
  OBVIOUS
<1> QED BY <1>1, <1>4, <1>5, <1>6, <1>7 DEF parts

-----------------------------------------------------------------------------
(* A directive read character by character.                                *)

Spec0 == [zero : BOOLEAN, long : BOOLEAN, before : Int, after : Int]

\* The modifiers that were read are in the specification, the others are not.
Progress(item, st, sp, z, wd, d, l) ==
  /\ st \in {"firstFmtChar", "otherFmtChar"} /\ sp \in Spec0
  /\ z \in {<<>>, item.zero} /\ wd \in {<<>>, item.width} /\ l \in {<<>>, item.long}
  /\ d \in {<<>>, item.dot} \cup {<<c>> : c \in Decimal}
  /\ sp.zero = (z # item.zero)
  /\ sp.before = IF wd = item.width THEN -1 ELSE Width(item)
  /\ d = item.dot <=> sp.after < 0
  /\ item.dot = <<>> => d = <<>>
  /\ wd # <<>> => d = item.dot
  /\ st = "firstFmtChar" => z = item.zero /\ wd = item.width /\ d = item.dot /\ l = item.long
  /\ st = "otherFmtChar" => z = <<>> /\ item.type # "%"

\* What a modifier does to the specification.
Noted(sp, c) ==
  CASE c = "." -> [sp EXCEPT !.after = 0]
    [] c = "l" -> [sp EXCEPT !.long = TRUE]
    [] sp.after < 0 /\ c \in Decimal -> [sp EXCEPT !.before = Accumulated(@, c)]
    [] OTHER -> [sp EXCEPT !.after = Accumulated(@, c)]

ReadsZero(item, st, sp, wd, d, l, u, r) ==
  /\ st = "firstFmtChar" /\ r[1] = "0" /\ Tail(r) = Pending(<<>>, wd, d, l, item.type, u)
  /\ Progress(item, "otherFmtChar", [sp EXCEPT !.zero = TRUE], <<>>, wd, d, l)

ReadsModifier(item, st, sp, u, r, wd, d, l) ==
  /\ Modifier(r[1])
  /\ st = "firstFmtChar" => r[1] \notin {"0", "%"}
  /\ Tail(r) = Pending(<<>>, wd, d, l, item.type, u)
  /\ Progress(item, "otherFmtChar", Noted(sp, r[1]), <<>>, wd, d, l)

ReadsLetter(item, sp, u, r) ==
  r[1] = item.type /\ Tail(r) = u /\ sp.zero = (item.zero # <<>>) /\ sp.before = Width(item)

LEMMA DecimalIs ==
  ASSUME NEW c \in Decimal
  PROVE  c \notin {".", "l", "%"}
<1>1. PICK i \in 1 .. 10 : c = Lower[i]
  BY DEF Decimal
<1>2. i \in {1, 2, 3, 4, 5, 6, 7, 8, 9, 10}
  OBVIOUS
<1>3. /\ Lower[1] = "0" /\ Lower[2] = "1" /\ Lower[3] = "2" /\ Lower[4] = "3" /\ Lower[5] = "4"
      /\ Lower[6] = "5" /\ Lower[7] = "6" /\ Lower[8] = "7" /\ Lower[9] = "8" /\ Lower[10] = "9"
  BY DEF Lower
<1> QED BY <1>1, <1>2, <1>3

LEMMA NotedIs ==
  ASSUME NEW sp \in Spec0
  PROVE  /\ Noted(sp, ".") = [sp EXCEPT !.after = 0]
         /\ Noted(sp, "l") = [sp EXCEPT !.long = TRUE]
<1>1. "." \notin Decimal /\ "l" \notin Decimal
  BY DecimalIs
<1>2. ASSUME NEW c, c = "." PROVE Noted(sp, c) = [sp EXCEPT !.after = 0]
  BY <1>1, <1>2 DEF Noted
<1>3. ASSUME NEW c, c = "l" PROVE Noted(sp, c) = [sp EXCEPT !.long = TRUE]
  BY <1>1, <1>3 DEF Noted
<1> QED BY <1>2, <1>3

LEMMA ZeroIsRead ==
  ASSUME NEW item \in Item, NEW st, NEW sp, NEW z, NEW wd, NEW d, NEW l,
         Progress(item, st, sp, z, wd, d, l), item.type = "%" => Unmodified(item), z # <<>>
  PROVE  /\ z = <<"0">> /\ st = "firstFmtChar"
         /\ Progress(item, "otherFmtChar", [sp EXCEPT !.zero = TRUE], <<>>, wd, d, l)
<1>1. z = item.zero /\ item.zero = <<"0">> /\ st = "firstFmtChar"
  BY DEF Progress, Item
<1>2. item.type # "%"
  BY <1>1 DEF Unmodified
<1>3. [sp EXCEPT !.zero = TRUE] \in Spec0
  BY DEF Progress, Spec0
<1>4. /\ [sp EXCEPT !.zero = TRUE].zero = TRUE
      /\ [sp EXCEPT !.zero = TRUE].before = sp.before /\ [sp EXCEPT !.zero = TRUE].after = sp.after
  BY DEF Progress, Spec0
<1>5. (<<>> # item.zero) = TRUE
  BY <1>1
<1> QED BY <1>1, <1>2, <1>3, <1>4, <1>5 DEF Progress

LEMMA WidthIsRead ==
  ASSUME NEW item \in Item, NEW st, NEW sp, NEW wd, NEW d, NEW l,
         Progress(item, st, sp, <<>>, wd, d, l), item.type = "%" => Unmodified(item), wd # <<>>
  PROVE  \E c \in Decimal \ {"0"} :
           wd = <<c>> /\ Progress(item, "otherFmtChar", Noted(sp, c), <<>>, <<>>, d, l)
<1>1. PICK c \in Decimal \ {"0"} : wd = <<c>> /\ item.width = <<c>>
  BY DEF Progress, Item
<1>2. item.type # "%"
  BY <1>1 DEF Unmodified
<1>3. c \notin {".", "l"} /\ c \in Decimal /\ DigitOf(c) \in Nat
  BY DecimalIs, DigitIsNat
<1>4. sp.after < 0 /\ sp.before = -1 /\ sp \in Spec0
  BY <1>1 DEF Progress
<1>5. Noted(sp, c) = [sp EXCEPT !.before = Accumulated(@, c)]
  BY <1>3, <1>4 DEF Noted
<1>6. Accumulated(-1, c) = DigitOf(c) /\ Width(item) = DigitOf(c)
  BY <1>1, <1>3 DEF Accumulated, Width
<1>7. /\ Noted(sp, c) \in Spec0 /\ Noted(sp, c).zero = sp.zero
      /\ Noted(sp, c).before = Width(item) /\ Noted(sp, c).after = sp.after
  BY <1>3, <1>4, <1>5, <1>6 DEF Spec0
<1>8. item.width # <<>>
  BY <1>1
<1>9. Progress(item, "otherFmtChar", Noted(sp, c), <<>>, <<>>, d, l)
  BY <1>2, <1>7, <1>8 DEF Progress
<1> QED BY <1>1, <1>9

DotOrDigit(item, st, sp, d, l, c, e) ==
  /\ d = <<c>> \o e
  /\ st = "firstFmtChar" => c = "."
  /\ Progress(item, "otherFmtChar", Noted(sp, c), <<>>, <<>>, e, l)

LEMMA DotIsRead ==
  ASSUME NEW item \in Item, NEW st, NEW sp, NEW d, NEW l,
         Progress(item, st, sp, <<>>, <<>>, d, l), item.type = "%" => Unmodified(item), d # <<>>
  PROVE  \E c \in Decimal \cup {"."}, e \in Seq(Symbols) : DotOrDigit(item, st, sp, d, l, c, e)
<1>1. item.type # "%"
  BY DEF Progress, Unmodified
<1>2. sp \in Spec0
  BY DEF Progress
<1>3. CASE d = item.dot
  <2>1. PICK e : d = <<".">> \o e /\ e \in Seq(Symbols) /\ e \in {<<>>} \cup {<<c>> : c \in Decimal} /\ e # item.dot
    <3>1. CASE item.dot = <<".">>
      <4>1. <<>> # item.dot /\ <<>> \in Seq(Symbols)
        BY <3>1
      <4>2. d = <<".">> \o <<>>
        BY <1>3, <3>1
      <4> QED BY <4>1, <4>2
    <3>2. CASE item.dot # <<".">>
      <4>1. PICK c \in Decimal : item.dot = <<".", c>>
        BY <1>3, <3>2 DEF Item
      <4>2. d = <<".">> \o <<c>> /\ <<c>> # item.dot
        BY <1>3, <4>1
      <4>3. <<c>> \in Seq(Symbols)
        BY DecimalIsSymbol
      <4> QED BY <4>2, <4>3
    <3> QED BY <3>1, <3>2
  <2>2. Noted(sp, ".") = [sp EXCEPT !.after = 0]
    BY <1>2, NotedIs
  <2>3. /\ Noted(sp, ".") \in Spec0 /\ Noted(sp, ".").zero = sp.zero
        /\ Noted(sp, ".").before = sp.before /\ Noted(sp, ".").after = 0
    BY <1>2, <2>2 DEF Spec0
  <2>4. Progress(item, "otherFmtChar", Noted(sp, "."), <<>>, <<>>, e, l)
    BY <1>1, <1>3, <2>1, <2>3 DEF Progress
  <2>5. DotOrDigit(item, st, sp, d, l, ".", e)
    BY <2>1, <2>4 DEF DotOrDigit
  <2> QED BY <2>1, <2>5
<1>4. CASE d # item.dot
  <2>1. PICK c \in Decimal : d = <<c>>
    BY <1>4 DEF Progress
  <2>2. c \notin {".", "l"} /\ DigitOf(c) \in Nat
    BY DecimalIs, DigitIsNat
  <2>3. ~(sp.after < 0) /\ sp.after \in Int /\ st # "firstFmtChar" /\ item.dot # <<>>
    BY <1>2, <1>4 DEF Progress, Spec0
  <2>4. Noted(sp, c) = [sp EXCEPT !.after = Accumulated(@, c)]
    BY <2>2, <2>3 DEF Noted
  <2>5. Accumulated(sp.after, c) \in Int /\ ~(Accumulated(sp.after, c) < 0)
    BY <2>2, <2>3 DEF Accumulated
  <2>6. /\ Noted(sp, c) \in Spec0 /\ Noted(sp, c).zero = sp.zero
        /\ Noted(sp, c).before = sp.before /\ Noted(sp, c).after = Accumulated(sp.after, c)
    BY <1>2, <2>4, <2>5 DEF Spec0
  <2>7. Progress(item, "otherFmtChar", Noted(sp, c), <<>>, <<>>, <<>>, l)
    BY <1>1, <2>3, <2>5, <2>6 DEF Progress
  <2>8. d = <<c>> \o <<>> /\ <<>> \in Seq(Symbols)
    BY <2>1
  <2>9. DotOrDigit(item, st, sp, d, l, c, <<>>)
    BY <2>3, <2>7, <2>8 DEF DotOrDigit
  <2> QED BY <2>8, <2>9
<1> QED BY <1>3, <1>4

LEMMA LongIsRead ==
  ASSUME NEW item \in Item, NEW st, NEW sp, NEW l,
         Progress(item, st, sp, <<>>, <<>>, <<>>, l), item.type = "%" => Unmodified(item), l # <<>>
  PROVE  l = <<"l">> /\ Progress(item, "otherFmtChar", Noted(sp, "l"), <<>>, <<>>, <<>>, <<>>)
<1>1. l = <<"l">> /\ item.type # "%" /\ sp \in Spec0
  BY DEF Progress, Unmodified, Item
<1>2. Noted(sp, "l") = [sp EXCEPT !.long = TRUE]
  BY <1>1, NotedIs
<1>3. /\ Noted(sp, "l") \in Spec0 /\ Noted(sp, "l").zero = sp.zero
      /\ Noted(sp, "l").before = sp.before /\ Noted(sp, "l").after = sp.after
  BY <1>1, <1>2 DEF Spec0
<1> QED BY <1>1, <1>3 DEF Progress

\* Whatever was read, the next character is the first that was not.
NextRead(item, st, sp, z, wd, d, l, u, r) ==
  \/ ReadsZero(item, st, sp, wd, d, l, u, r)
  \/ \E wide, dot, long : ReadsModifier(item, st, sp, u, r, wide, dot, long)
  \/ ReadsLetter(item, sp, u, r)

LEMMA PendingIs ==
  ASSUME NEW item \in Item, NEW st, NEW sp, NEW z, NEW wd, NEW d, NEW l,
         Progress(item, st, sp, z, wd, d, l)
  PROVE  z \in Seq(Symbols) /\ wd \in Seq(Symbols) /\ d \in Seq(Symbols) /\ l \in Seq(Symbols)
<1>1. /\ item.zero \in Seq(Symbols) /\ item.width \in Seq(Symbols)
      /\ item.dot \in Seq(Symbols) /\ item.long \in Seq(Symbols) /\ <<>> \in Seq(Symbols)
  BY ItemIsSpelled
<1>2. \A c \in Decimal : <<c>> \in Seq(Symbols)
  BY DecimalIsSymbol
<1>3. /\ z \in {<<>>, item.zero} /\ wd \in {<<>>, item.width} /\ l \in {<<>>, item.long}
      /\ d \in {<<>>, item.dot} \cup {<<c>> : c \in Decimal}
  BY DEF Progress
<1> QED BY <1>1, <1>2, <1>3

LEMMA NextOfDirective ==
  ASSUME NEW item \in Item, ~Modifier(item.type), item.type = "%" => Unmodified(item),
         NEW st, NEW sp, NEW z, NEW wd, NEW d, NEW l, Progress(item, st, sp, z, wd, d, l),
         NEW u \in Seq(Symbols), NEW r, r = Pending(z, wd, d, l, item.type, u)
  PROVE  r \in Seq(Symbols) /\ r # <<>> /\ NextRead(item, st, sp, z, wd, d, l, u, r)
<1>1. z \in Seq(Symbols) /\ wd \in Seq(Symbols) /\ d \in Seq(Symbols) /\ l \in Seq(Symbols)
  BY PendingIs
<1>2. item.type \in Symbols
  BY ItemIsSpelled
<1>3. PICK r4 \in Seq(Symbols) : r4 = <<item.type>> \o u
  BY <1>2, FirstGoes
<1>4. PICK r3 \in Seq(Symbols) : r3 = l \o r4
  BY <1>1, ConcatProperties
<1>5. PICK r2 \in Seq(Symbols) : r2 = d \o r3
  BY <1>1, ConcatProperties
<1>6. PICK r1 \in Seq(Symbols) : r1 = wd \o r2
  BY <1>1, ConcatProperties
<1>7. r = z \o r1
  BY <1>3, <1>4, <1>5, <1>6 DEF Pending
<1>8. \A s \in Seq(Symbols) : <<>> \o s = s
  BY ConcatEmptySeq
<1>9. ASSUME NEW c \in Symbols, NEW s \in Seq(Symbols), r = <<c>> \o s
      PROVE  r \in Seq(Symbols) /\ r # <<>> /\ r[1] = c /\ Tail(r) = s
  BY <1>9, FirstGoes
<1>10. CASE z # <<>>
  <2>1. /\ z = <<"0">> /\ st = "firstFmtChar"
        /\ Progress(item, "otherFmtChar", [sp EXCEPT !.zero = TRUE], <<>>, wd, d, l)
    BY <1>10, ZeroIsRead
  <2>2. r \in Seq(Symbols) /\ r # <<>> /\ r[1] = "0" /\ Tail(r) = r1
    BY <1>7, <1>9, <2>1, PunctuationIs
  <2>3. r1 = Pending(<<>>, wd, d, l, item.type, u)
    BY <1>3, <1>4, <1>5, <1>6, <1>8 DEF Pending
  <2>4. ReadsZero(item, st, sp, wd, d, l, u, r)
    BY <2>1, <2>2, <2>3 DEF ReadsZero
  <2> QED BY <2>2, <2>4 DEF NextRead
<1>11. CASE z = <<>> /\ wd # <<>>
  <2>1. PICK c \in Decimal \ {"0"} :
          wd = <<c>> /\ Progress(item, "otherFmtChar", Noted(sp, c), <<>>, <<>>, d, l)
    BY <1>11, WidthIsRead
  <2>2. c \in Symbols /\ c \notin {"0", "%"} /\ Modifier(c)
    BY DecimalIsSymbol, DecimalIs DEF Modifier
  <2>3. r = <<c>> \o r2
    BY <1>6, <1>7, <1>8, <1>11, <2>1
  <2>4. r \in Seq(Symbols) /\ r # <<>> /\ r[1] = c /\ Tail(r) = r2
    BY <1>9, <2>2, <2>3
  <2>5. r2 = Pending(<<>>, <<>>, d, l, item.type, u)
    BY <1>3, <1>4, <1>5, <1>8 DEF Pending
  <2>6. ReadsModifier(item, st, sp, u, r, <<>>, d, l)
    BY <2>1, <2>2, <2>4, <2>5 DEF ReadsModifier
  <2> QED BY <2>4, <2>6 DEF NextRead
<1>12. CASE z = <<>> /\ wd = <<>> /\ d # <<>>
  <2>0. PICK c \in Decimal \cup {"."}, e \in Seq(Symbols) : DotOrDigit(item, st, sp, d, l, c, e)
    BY <1>12, DotIsRead
  <2>1. /\ d = <<c>> \o e
        /\ st = "firstFmtChar" => c = "."
        /\ Progress(item, "otherFmtChar", Noted(sp, c), <<>>, <<>>, e, l)
    BY <2>0 DEF DotOrDigit
  <2>2. c \in Symbols /\ Modifier(c)
    BY DecimalIsSymbol, PunctuationIs DEF Modifier
  <2>3. st = "firstFmtChar" => c \notin {"0", "%"}
    BY <2>1
  <2>4. e \o r3 \in Seq(Symbols)
    BY ConcatProperties
  <2>5. r = <<c>> \o (e \o r3)
    <3>1. r = d \o r3
      BY <1>5, <1>6, <1>7, <1>8, <1>12
    <3>2. <<c>> \in Seq(Symbols)
      BY <2>2
    <3>3. InAnyOrder(<<c>>, e, r3)
      BY <3>2, JoinsInAnyOrder
    <3> QED BY <2>1, <3>1, <3>3 DEF InAnyOrder
  <2>6. r \in Seq(Symbols) /\ r # <<>> /\ r[1] = c /\ Tail(r) = e \o r3
    BY <1>9, <2>2, <2>4, <2>5
  <2>7. e \o r3 = Pending(<<>>, <<>>, e, l, item.type, u)
    BY <1>3, <1>4, <1>8, <2>4 DEF Pending
  <2>8. ReadsModifier(item, st, sp, u, r, <<>>, e, l)
    BY <2>1, <2>2, <2>3, <2>6, <2>7 DEF ReadsModifier
  <2> QED BY <2>6, <2>8 DEF NextRead
<1>13. CASE z = <<>> /\ wd = <<>> /\ d = <<>> /\ l # <<>>
  <2>1. l = <<"l">> /\ Progress(item, "otherFmtChar", Noted(sp, "l"), <<>>, <<>>, <<>>, <<>>)
    BY <1>13, LongIsRead
  <2>2. "l" \in Symbols /\ Modifier("l") /\ "l" \notin {"0", "%"}
    BY PunctuationIs DEF Modifier
  <2>3. r = <<"l">> \o r4
    BY <1>4, <1>5, <1>6, <1>7, <1>8, <1>13, <2>1
  <2>4. r \in Seq(Symbols) /\ r # <<>> /\ r[1] = "l" /\ Tail(r) = r4
    BY <1>9, <2>2, <2>3
  <2>5. r4 = Pending(<<>>, <<>>, <<>>, <<>>, item.type, u)
    BY <1>3, <1>8 DEF Pending
  <2>6. ReadsModifier(item, st, sp, u, r, <<>>, <<>>, <<>>)
    BY <2>1, <2>2, <2>4, <2>5 DEF ReadsModifier
  <2> QED BY <2>4, <2>6 DEF NextRead
<1>14. CASE z = <<>> /\ wd = <<>> /\ d = <<>> /\ l = <<>>
  <2>1. r = <<item.type>> \o u
    BY <1>3, <1>4, <1>5, <1>6, <1>7, <1>8, <1>14
  <2>2. r \in Seq(Symbols) /\ r # <<>> /\ r[1] = item.type /\ Tail(r) = u
    BY <1>2, <1>9, <2>1
  <2>3. sp.zero = (item.zero # <<>>)
    BY <1>14 DEF Progress
  <2>4. sp.before = Width(item)
    BY <1>14 DEF Progress, Width
  <2>5. ReadsLetter(item, sp, u, r)
    BY <2>2, <2>3, <2>4 DEF ReadsLetter
  <2> QED BY <2>2, <2>5 DEF NextRead
<1> QED BY <1>10, <1>11, <1>12, <1>13, <1>14

-----------------------------------------------------------------------------
(* The formatters.                                                         *)

\* Printed and taken are what the first i items mean and take.
Position(i) == out = Said(items, args0, i) /\ args = Left(items, args0, i)

AtItem(i) == state = "chars" /\ Reading(items, i, w) /\ Position(i)

Halfway(i, z, wd, d, l, u) ==
  /\ who = "alt_log" /\ IsDirective(items[i + 1])
  /\ Progress(items[i + 1], state, spec, z, wd, d, l)
  /\ w = Pending(z, wd, d, l, items[i + 1].type, u) /\ Reading(items, i + 1, u)

InDirective(i) == Position(i) /\ \E z, wd, d, l, u : Halfway(i, z, wd, d, l, u)

AtEnd == w = <<>> /\ out = Said(items, args0, Len(items))

PrintfInv ==
  /\ GoodCall(who, items, args0)
  /\ \/ \E i \in 0 .. Len(items) : AtItem(i)
     \/ \E i \in 0 .. Len(items) - 1 : InDirective(i)
     \/ AtEnd

Kept == UNCHANGED <<who, items, args0>>

LEMMA PrintfInit_Inv == PrintfInit => PrintfInv
<1> SUFFICES ASSUME PrintfInit PROVE PrintfInv
  OBVIOUS
<1>1. PICK made \in PrintfCalls : who = made.who /\ items = made.items /\ args0 = made.args
  BY DEF PrintfInit
<1>2. GoodCall(who, items, args0)
  BY <1>1, CallsAreGood
<1>3. items \in Seq(Item) /\ args0 \in Seq(Argument) /\ Len(items) \in Nat
  BY <1>2 DEF GoodCall
<1>4. w = FlattenSeq([h \in 1 .. Len(items) |-> Chars(items[h])])
  BY DEF PrintfInit
<1>5. Reading(items, 0, w)
  BY <1>3, <1>4, ReadingFirst
<1>6. Position(0)
  <2>1. Said(items, args0, 0) = <<>>
    BY <1>2, SaidIs, PrintfAssumption
  <2>2. Left(items, args0, 0) = args0
    BY <1>3, LeftAtFirst
  <2> QED BY <2>1, <2>2 DEF Position, PrintfInit
<1>7. AtItem(0) /\ 0 \in 0 .. Len(items)
  BY <1>3, <1>5, <1>6 DEF AtItem, PrintfInit
<1> QED BY <1>2, <1>7 DEF PrintfInv

LEMMA InvPrints == PrintfInv => PrintsMeaning
<1> SUFFICES ASSUME PrintfInv, w = <<>>
             PROVE  out = FlattenSeq([i \in 1 .. Len(items) |-> Meaning(items[i], ArgOf(i))])
  BY DEF PrintsMeaning
<1>1. GoodCall(who, items, args0) /\ items \in Seq(Item)
  BY DEF PrintfInv, GoodCall
<1>2. out = Said(items, args0, Len(items))
  <2>1. CASE \E i \in 0 .. Len(items) : AtItem(i)
    <3>1. PICK i \in 0 .. Len(items) : AtItem(i)
      BY <2>1
    <3>2. Reading(items, i, w)
      BY <3>1 DEF AtItem
    <3>3. i = Len(items)
      BY <1>1, <3>2, ReadingNext
    <3> QED BY <3>1, <3>3 DEF AtItem, Position
  <2>2. CASE \E i \in 0 .. Len(items) - 1 : InDirective(i)
    <3>1. PICK i \in 0 .. Len(items) - 1 : InDirective(i)
      BY <2>2
    <3>2. PICK z, wd, d, l, u : Halfway(i, z, wd, d, l, u)
      BY <3>1 DEF InDirective
    <3>3. items[i + 1] \in Item /\ i + 1 \in 1 .. Len(items)
      BY <1>1
    <3>4. ~Modifier(items[i + 1].type) /\ (items[i + 1].type = "%" => Unmodified(items[i + 1]))
      <4>1. GoodItem(who, items, args0, i + 1)
        BY <1>1, <3>3 DEF GoodCall
      <4> QED BY <4>1 DEF GoodItem
    <3>5. PICK item \in Item : item = items[i + 1]
      BY <3>3
    <3>6. /\ Progress(item, state, spec, z, wd, d, l)
          /\ w = Pending(z, wd, d, l, item.type, u) /\ u \in Seq(Symbols)
      BY <3>2, <3>5 DEF Halfway, Reading
    <3>7. w # <<>>
      BY <3>4, <3>5, <3>6, NextOfDirective
    <3> QED BY <3>7
  <2>3. CASE AtEnd
    BY <2>3 DEF AtEnd
  <2> QED BY <2>1, <2>2, <2>3 DEF PrintfInv
<1>3. \A i \in 1 .. Len(items) : ArgOf(i) = ArgFor(items, args0, i)
  BY DEF ArgOf, ArgFor
<1>4. [i \in 1 .. Len(items) |-> Meaning(items[i], ArgOf(i))] =
        [i \in 1 .. Len(items) |-> Meaning(items[i], ArgFor(items, args0, i))]
  BY <1>3
<1>5. Said(items, args0, Len(items)) =
        FlattenSeq([h \in 1 .. Len(items) |-> Meaning(items[h], ArgFor(items, args0, h))])
  BY <1>1, SaidIs, PrintfAssumption
<1> QED BY <1>2, <1>4, <1>5

LEMMA GoodItemAt ==
  ASSUME GoodCall(who, items, args0), NEW i \in 0 .. Len(items) - 1
  PROVE  /\ items \in Seq(Item) /\ i + 1 \in 0 .. Len(items) /\ items[i + 1] \in Item
         /\ i \in 0 .. Len(items)
         /\ GoodItem(who, items, args0, i + 1) /\ Says(items, args0, i)
         /\ NextArgument(items, args0, i) /\ Said(items, args0, i) \in Seq(Symbols)
<1>1. items \in Seq(Item) /\ i + 1 \in 1 .. Len(items) /\ Len(items) \in Nat
  BY DEF GoodCall
<1>2. GoodItem(who, items, args0, i + 1) /\ items[i + 1] \in Item
  BY <1>1 DEF GoodCall
<1>3. i \in 0 .. Len(items) /\ i + 1 \in 0 .. Len(items)
  BY <1>1
<1>4. Says(items, args0, i) /\ Said(items, args0, i) \in Seq(Symbols)
  BY <1>3, SaidIs, PrintfAssumption
<1>5. NextArgument(items, args0, i)
  BY NextIsTaken
<1> QED BY <1>1, <1>2, <1>3, <1>4, <1>5

\* An item is done when what it means was printed and its argument taken.
LEMMA ItemDone ==
  ASSUME GoodCall(who, items, args0), Kept, NEW i \in 0 .. Len(items) - 1, Position(i),
         Reading(items, i + 1, w'), state' = "chars",
         out' = out \o Meaning(items[i + 1], ArgFor(items, args0, i + 1)),
         args' = IF Takes(items[i + 1]) THEN Tail(args) ELSE args
  PROVE  PrintfInv'
<1>1. i + 1 \in 0 .. Len(items) /\ Says(items, args0, i) /\ NextArgument(items, args0, i)
  BY GoodItemAt
<1>2. out' = Said(items, args0, i + 1)
  BY <1>1 DEF Says, Position
<1>3. args' = Left(items, args0, i + 1)
  BY <1>1 DEF NextArgument, Position
<1>4. who' = who /\ items' = items /\ args0' = args0
  BY DEF Kept
<1>5. AtItem(i + 1)'
  BY <1>2, <1>3, <1>4 DEF AtItem, Position
<1> QED BY <1>1, <1>4, <1>5 DEF PrintfInv

\* What alt_printf does of an item.
LEMMA AtItemIs ==
  ASSUME GoodCall(who, items, args0), NEW i \in 0 .. Len(items), AtItem(i), w # <<>>
  PROVE  /\ i \in 0 .. Len(items) - 1
         /\ \E u \in Seq(Symbols) : /\ Reading(items, i + 1, u) /\ Char \in Symbols
                                    /\ w = Chars(items[i + 1]) \o u
<1>1. items \in Seq(Item) /\ Len(items) \in Nat /\ Reading(items, i, w)
  BY DEF GoodCall, AtItem
<1>2. i < Len(items) /\ \E u : Reads(items, i, w, u)
  BY <1>1, ReadingNext
<1>3. PICK u : Reads(items, i, w, u)
  BY <1>2
<1>4. w[1] \in Symbols
  <2>1. w \in Seq(Symbols) /\ w # <<>>
    BY <1>1 DEF Reading
  <2>2. 1 \in 1 .. Len(w)
    BY <2>1, EmptySeq
  <2> QED BY <2>1, <2>2, ElementOfSeq
<1>5. i \in 0 .. Len(items) - 1
  BY <1>1, <1>2
<1> QED BY <1>3, <1>4, <1>5 DEF Reads, Char

LEMMA CharRead ==
  ASSUME NEW item \in Item, item.type = "char", item.c # "%", NEW u \in Seq(Symbols),
         w = Chars(item) \o u
  PROVE  Char = item.c /\ Char # "%" /\ Tail(w) = u /\ ~Takes(item)
         /\ \A val : Meaning(item, val) = <<Char>>
<1>1. w = <<item.c>> \o u /\ item.c \in Symbols
  BY CharsIs, ItemIsSpelled
<1>2. Char = item.c /\ Tail(w) = u
  BY <1>1, FirstGoes DEF Char
<1>3. \A val : Meaning(item, val) = <<item.c>>
  BY DEF Meaning
<1>4. ~Takes(item)
  BY DEF Takes, Letters
<1> QED BY <1>2, <1>3, <1>4

LEMMA EndRead ==
  ASSUME GoodCall(who, items, args0), NEW i \in 0 .. Len(items) - 1, items[i + 1].type = "end",
         NEW u, Reading(items, i + 1, u), w = Chars(items[i + 1]) \o u
  PROVE  /\ Char = "%" /\ Tail(w) = <<>> /\ Len(w) = 1 /\ Reading(items, i + 1, <<>>)
         /\ i + 1 = Len(items) /\ ~Takes(items[i + 1])
         /\ \A val : Meaning(items[i + 1], val) = <<>>
<1>1. items \in Seq(Item) /\ items[i + 1] \in Item /\ GoodItem(who, items, args0, i + 1)
  BY GoodItemAt
<1>2. i + 1 = Len(items)
  BY <1>1 DEF GoodItem
<1>3. u = <<>>
  BY <1>1, <1>2, ReadingLast
<1>4. Chars(items[i + 1]) = <<"%">>
  BY <1>1, CharsIs
<1>5. <<>> \in Seq(Symbols) /\ "%" \in Symbols
  BY PunctuationIs
<1>6. w = <<"%">> \o <<>>
  BY <1>3, <1>4
<1>7. w[1] = "%" /\ Tail(w) = <<>> /\ Len(w) = Len(<<>>) + 1
  BY <1>5, <1>6, FirstGoes
<1>8. Len(w) = 1
  BY <1>7
<1>9. \A val : Meaning(items[i + 1], val) = <<>>
  BY DEF Meaning
<1>10. ~Takes(items[i + 1])
  BY DEF Takes, Letters
<1> QED BY <1>2, <1>3, <1>7, <1>8, <1>9, <1>10 DEF Char

LEMMA DirectiveRead ==
  ASSUME NEW item \in Item, IsDirective(item), NEW u \in Seq(Symbols), w = Chars(item) \o u
  PROVE  /\ Char = "%"
         /\ Tail(w) = Pending(item.zero, item.width, item.dot, item.long, item.type, u)
         /\ Unmodified(item) => Len(w) > 1 /\ w[2] = item.type /\ SubSeq(w, 3, Len(w)) = u
<1>1. w = <<"%">> \o Pending(item.zero, item.width, item.dot, item.long, item.type, u)
  BY CharsIs
<1>2. PICK p \in Seq(Symbols) :
        p = Pending(item.zero, item.width, item.dot, item.long, item.type, u)
  <2>1. /\ item.type \in Symbols
        /\ item.zero \in Seq(Symbols) /\ item.width \in Seq(Symbols)
        /\ item.dot \in Seq(Symbols) /\ item.long \in Seq(Symbols)
    BY ItemIsSpelled
  <2>2. <<item.type>> \o u \in Seq(Symbols)
    BY <2>1, FirstGoes
  <2>3. item.long \o (<<item.type>> \o u) \in Seq(Symbols)
    BY <2>1, <2>2, ConcatProperties
  <2>4. item.dot \o (item.long \o (<<item.type>> \o u)) \in Seq(Symbols)
    BY <2>1, <2>3, ConcatProperties
  <2>5. item.width \o (item.dot \o (item.long \o (<<item.type>> \o u))) \in Seq(Symbols)
    BY <2>1, <2>4, ConcatProperties
  <2>6. Pending(item.zero, item.width, item.dot, item.long, item.type, u) \in Seq(Symbols)
    BY <2>1, <2>5, ConcatProperties DEF Pending
  <2> QED BY <2>6
<1>3. /\ w \in Seq(Symbols) /\ w # <<>> /\ w[1] = "%" /\ Tail(w) = p /\ Len(w) = Len(p) + 1
  BY <1>1, <1>2, FirstGoes, PunctuationIs
<1>4. ASSUME Unmodified(item)
      PROVE  Len(w) > 1 /\ w[2] = item.type /\ SubSeq(w, 3, Len(w)) = u
  <2>1. item.type \in Symbols
    BY ItemIsSpelled
  <2>2. PICK q \in Seq(Symbols) : q = <<item.type>> \o u
    BY <2>1, FirstGoes
  <2>3. p = <<>> \o (<<>> \o (<<>> \o (<<>> \o q)))
    BY <1>2, <1>4, <2>2 DEF Pending, Unmodified
  <2>4. p = q
    BY <2>3, ConcatEmptySeq
  <2>5. q # <<>> /\ q[1] = item.type /\ Tail(q) = u /\ Len(q) = Len(u) + 1
    BY <2>1, <2>2, FirstGoes
  <2>6. Len(u) \in Nat /\ Len(w) = Len(u) + 2
    BY <1>3, <2>4, <2>5, LenProperties
  <2>7. \A h \in 1 .. Len(p) : p[h] = w[h + 1]
    BY <1>3, HeadTailProperties
  <2>8. w[2] = item.type
    <3>1. 1 \in 1 .. Len(p) /\ 1 + 1 = 2
      BY <2>4, <2>5, <2>6
    <3> QED BY <2>4, <2>5, <2>7, <3>1
  <2>9. Tail(w) = SubSeq(w, 2, Len(w))
    BY <1>3, TailIsSubSeq
  <2>10. PICK m \in 1 .. Len(w) : m = 2
    BY <2>6
  <2>11. PICK n \in m .. Len(w) : n = Len(w)
    BY <2>6, <2>10
  <2>12. Tail(SubSeq(w, m, n)) = SubSeq(w, m + 1, n)
    BY <1>3, HeadTailOfSubSeq
  <2>13. Tail(p) = SubSeq(w, 3, Len(w))
    <3>1. m + 1 = 3
      BY <2>10
    <3> QED BY <1>3, <2>9, <2>10, <2>11, <2>12, <3>1
  <2> QED BY <2>4, <2>5, <2>6, <2>8, <2>13
<1> QED BY <1>2, <1>3, <1>4 DEF Char

\* What a directive without modifiers means is what alt_printf prints.
LEMMA WidensNothing ==
  ASSUME NEW item \in Item, Unmodified(item), NEW body \in Seq(Symbols)
  PROVE  Widened(item, <<>>, body) = body
<1>1. <<>> \in Seq(Symbols) /\ Len(<<>>) = 0 /\ Len(body) \in Nat /\ Width(item) = -1
  BY LenProperties, WidthIs DEF Unmodified
<1>2. PICK p \in Int : p = Width(item) - Len(body) - Len(<<>>) /\ ~(p > 0)
  BY <1>1
<1>3. WidensTo(item, <<>>, body, p)
  BY <1>1, <1>2, Widens
<1>4. Widened(item, <<>>, body) = alt_log_repchar(Blank, p) \o <<>> \o body
  BY <1>3 DEF WidensTo, Unmodified
<1>5. alt_log_repchar(Blank, p) = <<>>
  BY <1>2 DEF alt_log_repchar
<1>6. <<>> \o <<>> = <<>> /\ <<>> \o body = body
  BY <1>1, ConcatEmptySeq
<1> QED BY <1>4, <1>5, <1>6

LEMMA PlainMeaning ==
  ASSUME NEW item \in Item, Unmodified(item), NEW val \in Argument
  PROVE  /\ item.type \in {"c", "s"} => Meaning(item, val) = val.s
         /\ item.type = "x" => Meaning(item, val) = HexDigits(val.n)
<1>1. PICK s \in Seq(Symbols) : s = val.s
  <2>1. STRING \subseteq Symbols
    BY DEF Symbols
  <2>2. PICK t \in Seq(STRING) : t = val.s
    BY DEF Argument
  <2>3. t \in Seq(Symbols)
    BY <2>1, SeqMonotonic
  <2> QED BY <2>2, <2>3
<1>2. ASSUME item.type \in {"c", "s"} PROVE Meaning(item, val) = val.s
  <2>1. Widened(item, <<>>, s) = s
    BY WidensNothing
  <2>2. Meaning(item, val) = Widened(item, <<>>, val.s)
    BY <1>2 DEF Meaning
  <2> QED BY <1>1, <2>1, <2>2
<1>3. ASSUME item.type = "x" PROVE Meaning(item, val) = HexDigits(val.n)
  <2>1. Meaning(item, val) = Widened(item, <<>>, Numeral(val.n, 16, Lower))
    BY <1>3 DEF Meaning
  <2>2. PICK v \in 0 .. UInt - 1 : v = val.n
    BY DEF Argument
  <2>3. v \in Nat /\ 16 \in Nat /\ 16 >= 2 /\ HasDigits(Lower, Symbols)
    BY UIntIs, PrintfAssumption, DigitsAreSymbols
  <2>4. PICK body \in Seq(Symbols) : body = Numeral(v, 16, Lower)
    BY <2>3, PrintsNumeral
  <2>5. Widened(item, <<>>, body) = body
    BY WidensNothing
  <2>6. HexDigits(v) = Numeral(v, 16, Lower)
    BY <2>3, PrintsHex, PrintfAssumption
  <2> QED BY <2>1, <2>2, <2>4, <2>5, <2>6
<1> QED BY <1>2, <1>3

Plain(c, val) == CASE c = "%" -> <<"%">> [] c = "c" -> val.s [] c = "x" -> HexDigits(val.n)
                   [] c = "s" -> val.s [] OTHER -> <<>>

LEMMA AltPrintfKeeps ==
  ASSUME PrintfInv, alt_printf, Kept
  PROVE  PrintfInv'
<1>1. GoodCall(who, items, args0) /\ who = "alt_printf" /\ w # <<>>
  BY DEF PrintfInv, alt_printf
<1>2. PICK i \in 0 .. Len(items) : AtItem(i)
  BY <1>1 DEF PrintfInv, InDirective, Halfway, AtEnd
<1>3. i \in 0 .. Len(items) - 1
  BY <1>1, <1>2, AtItemIs
<1>4. PICK u \in Seq(Symbols) : Reading(items, i + 1, u) /\ Char \in Symbols /\ w = Chars(items[i + 1]) \o u
  BY <1>1, <1>2, AtItemIs
<1>5. PICK item \in Item : item = items[i + 1]
  BY <1>1, <1>3, GoodItemAt
<1>6. GoodItem(who, items, args0, i + 1) /\ NextArgument(items, args0, i) /\ Said(items, args0, i) \in Seq(Symbols)
  BY <1>1, <1>3, GoodItemAt
<1>7. Position(i) /\ state = "chars" /\ state' = "chars"
  BY <1>2 DEF AtItem, alt_printf
<1>8. out \in Seq(Symbols)
  BY <1>6, <1>7 DEF Position
<1>9. Unmodified(item) /\ item.type \notin Letters \ {"c", "x", "s"}
  BY <1>1, <1>5, <1>6 DEF GoodItem
<1> DEFINE val == ArgFor(items, args0, i + 1)
<1>10. ASSUME w' = u, out' = out \o Meaning(item, val), args' = IF Takes(item) THEN Tail(args) ELSE args
       PROVE  PrintfInv'
  BY <1>1, <1>3, <1>4, <1>5, <1>7, <1>10, ItemDone
<1>11. CASE item.type = "char"
  <2>1. item.c # "%"
    BY <1>5, <1>6, <1>11 DEF GoodItem
  <2>2. Char # "%" /\ Tail(w) = u /\ ~Takes(item) /\ Meaning(item, val) = <<Char>>
    BY <1>4, <1>5, <1>11, <2>1, CharRead
  <2>3. out' = out \o <<Char>> /\ w' = Tail(w) /\ args' = args
    BY <2>2 DEF alt_printf, Emit, Took
  <2> QED BY <1>10, <2>2, <2>3
<1>12. CASE item.type = "end"
  <2>1. /\ Char = "%" /\ Tail(w) = <<>> /\ Len(w) = 1 /\ Reading(items, i + 1, <<>>)
        /\ i + 1 = Len(items) /\ ~Takes(item) /\ Meaning(item, val) = <<>>
    BY <1>1, <1>3, <1>4, <1>5, <1>12, EndRead
  <2>2. w' = <<>> /\ args' = args /\ out' = out
    <3>1. ~(Len(w) > 1)
      BY <2>1
    <3>2. w' = Tail(w) /\ args' = args /\ out' = out
      BY <2>1, <3>1 DEF alt_printf, Took
    <3> QED BY <2>1, <3>2
  <2>3. u = <<>>
    BY <1>1, <1>4, <2>1, ReadingLast DEF GoodCall
  <2>4. out \o <<>> = out
    BY <1>8, ConcatEmptySeq
  <2> QED BY <1>10, <2>1, <2>2, <2>3, <2>4
<1>13. CASE IsDirective(item)
  <2>1. /\ Char = "%" /\ Len(w) > 1 /\ w[2] = item.type /\ SubSeq(w, 3, Len(w)) = u
    BY <1>4, <1>5, <1>9, <1>13, DirectiveRead
  <2>2. Len(w) # 1
    BY <2>1
  <2>3. /\ w' = SubSeq(w, 3, Len(w)) /\ out' = out \o Plain(w[2], args[1])
        /\ args' = IF w[2] \in {"c", "x", "s"} THEN Tail(args) ELSE args
    BY <2>1, <2>2 DEF alt_printf, Emit, Plain
  <2>4. Takes(item) <=> item.type \in {"c", "x", "s"}
    BY <1>9 DEF Takes, Letters
  <2>5. Takes(item) => args[1] = val /\ val \in Argument
    BY <1>5, <1>6, <1>7 DEF NextArgument, Position
  <2>6. Plain(item.type, args[1]) = Meaning(item, val)
    <3>1. CASE item.type \in {"c", "s"}
      <4>1. Meaning(item, val) = val.s
        BY <1>9, <2>4, <2>5, <3>1, PlainMeaning
      <4> QED BY <2>4, <2>5, <3>1, <4>1 DEF Plain
    <3>2. CASE item.type = "x"
      <4>1. Meaning(item, val) = HexDigits(val.n)
        BY <1>9, <2>4, <2>5, <3>2, PlainMeaning
      <4> QED BY <2>4, <2>5, <3>2, <4>1 DEF Plain
    <3>3. CASE item.type = "%"
      BY <3>3 DEF Plain, Meaning
    <3>4. CASE item.type \notin {"c", "s", "x", "%"}
      <4>1. Plain(item.type, args[1]) = <<>>
        BY <3>4 DEF Plain
      <4>2. item.type \notin {"char", "%", "c", "s", "d", "i", "u", "o", "x", "X"}
        BY <1>9, <1>13, <3>4 DEF Letters, IsDirective
      <4>3. Meaning(item, val) = <<>>
        BY <4>2 DEF Meaning
      <4> QED BY <4>1, <4>3
    <3> QED BY <3>1, <3>2, <3>3, <3>4
  <2> HIDE DEF val
  <2> QED BY <1>10, <2>1, <2>3, <2>4, <2>6
<1> QED BY <1>11, <1>12, <1>13 DEF IsDirective

LEMMA CharsKeeps ==
  ASSUME PrintfInv, pfState_chars, Kept
  PROVE  PrintfInv'
<1>1. GoodCall(who, items, args0) /\ who = "alt_log" /\ w # <<>> /\ state = "chars" /\ w' = Tail(w)
  BY DEF PrintfInv, pfState_chars, Logs, Took
<1>2. PICK i \in 0 .. Len(items) : AtItem(i)
  <2>1. \A i \in 0 .. Len(items) - 1 : ~InDirective(i)
    BY <1>1 DEF InDirective, Halfway, Progress
  <2> QED BY <1>1, <2>1 DEF PrintfInv, AtEnd
<1>3. i \in 0 .. Len(items) - 1
  BY <1>1, <1>2, AtItemIs
<1>4. PICK u \in Seq(Symbols) : Reading(items, i + 1, u) /\ Char \in Symbols /\ w = Chars(items[i + 1]) \o u
  BY <1>1, <1>2, AtItemIs
<1>5. PICK item \in Item : item = items[i + 1]
  BY <1>1, <1>3, GoodItemAt
<1>6. GoodItem(who, items, args0, i + 1) /\ Says(items, args0, i) /\ Said(items, args0, i) \in Seq(Symbols)
  BY <1>1, <1>3, GoodItemAt
<1>7. Position(i)
  BY <1>2 DEF AtItem
<1>8. out \in Seq(Symbols) /\ out \o <<>> = out
  BY <1>6, <1>7, ConcatEmptySeq DEF Position
<1>9. who' = who /\ items' = items /\ args0' = args0
  BY DEF Kept
<1> DEFINE val == ArgFor(items, args0, i + 1)
<1>10. CASE item.type = "char"
  <2>1. item.c # "%"
    BY <1>5, <1>6, <1>10 DEF GoodItem
  <2>2. Char # "%" /\ Tail(w) = u /\ ~Takes(item) /\ Meaning(item, val) = <<Char>>
    BY <1>4, <1>5, <1>10, <2>1, CharRead
  <2>3. out' = out \o <<Char>> /\ args' = args /\ state' = "chars"
    BY <1>1, <2>2 DEF pfState_chars, Emit
  <2> QED BY <1>1, <1>3, <1>4, <1>5, <1>7, <2>2, <2>3, ItemDone
<1>11. CASE item.type = "end"
  <2>1. /\ Char = "%" /\ Tail(w) = <<>> /\ i + 1 = Len(items) /\ Meaning(item, val) = <<>>
    BY <1>1, <1>3, <1>4, <1>5, <1>11, EndRead
  <2>2. w' = <<>> /\ out' = out
    BY <1>1, <2>1 DEF pfState_chars
  <2>3. Said(items, args0, Len(items)) = out
    BY <1>5, <1>6, <1>7, <1>8, <2>1 DEF Says, Position
  <2>4. AtEnd'
    BY <1>9, <2>2, <2>3 DEF AtEnd
  <2> QED BY <1>1, <1>9, <2>4 DEF PrintfInv
<1>12. CASE IsDirective(item)
  <2>1. /\ Char = "%"
        /\ Tail(w) = Pending(item.zero, item.width, item.dot, item.long, item.type, u)
    BY <1>4, <1>5, <1>12, DirectiveRead
  <2>2. /\ state' = "firstFmtChar" /\ spec' = NoSpec /\ out' = out /\ args' = args
        /\ w' = Pending(item.zero, item.width, item.dot, item.long, item.type, u)
    BY <1>1, <2>1 DEF pfState_chars
  <2>3. NoSpec \in Spec0 /\ NoSpec.zero = FALSE /\ NoSpec.before = -1 /\ NoSpec.after = -1
    BY DEF NoSpec, Spec0
  <2>4. Progress(item, "firstFmtChar", NoSpec, item.zero, item.width, item.dot, item.long)
    <3>1. PICK st, sp, z, wd, d, l :
            st = "firstFmtChar" /\ sp = NoSpec /\ z = item.zero /\ wd = item.width /\ d = item.dot /\ l = item.long
      OBVIOUS
    <3>2. (z # item.zero) = FALSE /\ sp.zero = FALSE
      BY <2>3, <3>1
    <3>3. sp.after < 0 /\ st # "otherFmtChar" /\ sp.before = -1
      BY <2>3, <3>1
    <3>4. sp.zero = (z # item.zero)
      BY <3>2
    <3>5. Progress(item, st, sp, z, wd, d, l)
      BY <2>3, <3>1, <3>3, <3>4 DEF Progress
    <3> QED BY <3>1, <3>5
  <2>5. Halfway(i, item.zero, item.width, item.dot, item.long, u)'
    BY <1>1, <1>4, <1>5, <1>9, <1>12, <2>2, <2>4 DEF Halfway
  <2>6. Position(i)'
    BY <1>7, <1>9, <2>2 DEF Position
  <2>7. InDirective(i)'
    BY <2>5, <2>6 DEF InDirective
  <2> QED BY <1>1, <1>3, <1>9, <2>7 DEF PrintfInv
<1> QED BY <1>10, <1>11, <1>12 DEF IsDirective

\* Where alt_log is while it reads a directive.
Amid(i, item, z, wd, d, l, u) ==
  /\ Position(i) /\ IsDirective(item) /\ Progress(item, state, spec, z, wd, d, l)
  /\ w \in Seq(Symbols) /\ w # <<>> /\ u \in Seq(Symbols) /\ Reading(items, i + 1, u)
  /\ ~Modifier(item.type) /\ (item.type = "%" => Unmodified(item)) /\ NextRead(item, state, spec, z, wd, d, l, u, w)

LEMMA DirectiveIs ==
  ASSUME PrintfInv, w # <<>>, state # "chars"
  PROVE  \E i \in 0 .. Len(items) - 1, item \in Item :
           item = items[i + 1] /\ \E z, wd, d, l, u : Amid(i, item, z, wd, d, l, u)
<1>1. PICK i \in 0 .. Len(items) - 1 : InDirective(i)
  BY DEF PrintfInv, AtItem, AtEnd
<1>2. PICK z, wd, d, l, u : Halfway(i, z, wd, d, l, u)
  BY <1>1 DEF InDirective
<1>3. GoodCall(who, items, args0) /\ items[i + 1] \in Item /\ GoodItem(who, items, args0, i + 1)
  BY GoodItemAt DEF PrintfInv
<1>4. PICK item \in Item : item = items[i + 1]
  BY <1>3
<1>5. ~Modifier(item.type) /\ (item.type = "%" => Unmodified(item))
  BY <1>3, <1>4 DEF GoodItem
<1>6. /\ Progress(item, state, spec, z, wd, d, l)
      /\ w = Pending(z, wd, d, l, item.type, u) /\ u \in Seq(Symbols)
  BY <1>2, <1>4 DEF Halfway, Reading
<1>7. w \in Seq(Symbols) /\ w # <<>> /\ NextRead(item, state, spec, z, wd, d, l, u, w)
  BY <1>5, <1>6, NextOfDirective
<1>8. Amid(i, item, z, wd, d, l, u)
  BY <1>1, <1>2, <1>4, <1>5, <1>6, <1>7 DEF Amid, InDirective, Halfway
<1> QED BY <1>4, <1>8

LEMMA DirectiveGoesOn ==
  ASSUME PrintfInv, Kept, who = "alt_log", NEW i \in 0 .. Len(items) - 1, Position(i), UNCHANGED <<args, out>>,
         NEW z, NEW wd, NEW d, NEW l, NEW u, Reading(items, i + 1, u), IsDirective(items[i + 1]),
         w' = Pending(z, wd, d, l, items[i + 1].type, u),
         Progress(items[i + 1], state', spec', z, wd, d, l)
  PROVE  PrintfInv'
<1>1. who' = who /\ items' = items /\ args0' = args0
  BY DEF Kept
<1>2. Halfway(i, z, wd, d, l, u)' /\ Position(i)'
  BY <1>1 DEF Halfway, Position
<1>3. InDirective(i)'
  BY <1>2 DEF InDirective
<1> QED BY <1>1, <1>3 DEF PrintfInv

LEMMA ZeroIsModifier == Modifier("0") /\ ~Modifier("%")
<1>1. "0" \in Decimal
  <2>1. Lower[1] = "0" /\ 1 \in 1 .. 10
    BY DEF Lower
  <2> QED BY <2>1 DEF Decimal
<1>2. "%" \notin Decimal
  BY DecimalIs
<1> QED BY <1>1, <1>2 DEF Modifier

LEMMA FirstFmtCharKeeps ==
  ASSUME PrintfInv, pfState_firstFmtChar, Kept
  PROVE  PrintfInv'
<1>1. GoodCall(who, items, args0) /\ who = "alt_log" /\ w # <<>> /\ state = "firstFmtChar" /\ w' = Tail(w)
      /\ args' = args
  BY DEF PrintfInv, pfState_firstFmtChar, Logs, Took
<1>2. PICK i \in 0 .. Len(items) - 1, item \in Item :
        item = items[i + 1] /\ \E z, wd, d, l, u : Amid(i, item, z, wd, d, l, u)
  BY <1>1, DirectiveIs
<1>3. PICK z, wd, d, l, u : Amid(i, item, z, wd, d, l, u)
  BY <1>2
<1>4. Reading(items, i + 1, u) /\ Position(i) /\ IsDirective(item) /\ ~Modifier(item.type)
  BY <1>3 DEF Amid
<1>5. CASE Char = "0"
  <2>1. ReadsZero(item, state, spec, wd, d, l, u, w)
    BY <1>1, <1>3, <1>4, <1>5, ZeroIsModifier DEF Amid, NextRead, ReadsModifier, ReadsLetter, Char
  <2>2. spec' = [spec EXCEPT !.zero = TRUE] /\ state' = "otherFmtChar" /\ out' = out
    BY <1>5 DEF pfState_firstFmtChar
  <2>3. /\ w' = Pending(<<>>, wd, d, l, item.type, u)
        /\ Progress(item, state', spec', <<>>, wd, d, l)
    BY <1>1, <2>1, <2>2 DEF ReadsZero
  <2> QED BY <1>1, <1>2, <1>4, <2>2, <2>3, DirectiveGoesOn
<1>6. CASE Char = "%"
  <2>1. ReadsLetter(item, spec, u, w)
    BY <1>1, <1>3, <1>6, ZeroIsModifier DEF Amid, NextRead, ReadsModifier, ReadsZero, Char
  <2>2. item.type = "%" /\ w' = u
    BY <1>1, <1>6, <2>1 DEF ReadsLetter, Char
  <2>3. out' = out \o <<"%">> /\ state' = "chars"
    BY <1>6 DEF pfState_firstFmtChar, Emit
  <2>4. ~Takes(item) /\ Meaning(item, ArgFor(items, args0, i + 1)) = <<"%">>
    BY <2>2 DEF Takes, Letters, Meaning
  <2> QED BY <1>1, <1>2, <1>4, <2>2, <2>3, <2>4, ItemDone
<1> QED BY <1>5, <1>6 DEF pfState_firstFmtChar

LEMMA OtherFmtCharKeeps ==
  ASSUME PrintfInv, pfState_otherFmtChar, Kept
  PROVE  PrintfInv'
<1>1. /\ GoodCall(who, items, args0) /\ who = "alt_log" /\ w # <<>> /\ AtOther /\ Modifier(Char)
      /\ w' = Tail(w) /\ state' = "otherFmtChar" /\ UNCHANGED <<args, out>> /\ state # "chars"
  BY DEF PrintfInv, pfState_otherFmtChar, Logs, Took, AtOther
<1>2. PICK i \in 0 .. Len(items) - 1, item \in Item :
        item = items[i + 1] /\ \E z, wd, d, l, u : Amid(i, item, z, wd, d, l, u)
  BY <1>1, DirectiveIs
<1>3. PICK z, wd, d, l, u : Amid(i, item, z, wd, d, l, u)
  BY <1>2
<1>4. Reading(items, i + 1, u) /\ Position(i) /\ IsDirective(item) /\ ~Modifier(item.type)
  BY <1>3 DEF Amid
<1>5. ~ReadsZero(item, state, spec, wd, d, l, u, w)
  BY <1>1 DEF ReadsZero, AtOther, Char
<1>6. ~ReadsLetter(item, spec, u, w)
  BY <1>1, <1>4 DEF ReadsLetter, Char
<1>7. PICK wide, dot, long : ReadsModifier(item, state, spec, u, w, wide, dot, long)
  BY <1>3, <1>5, <1>6 DEF Amid, NextRead
<1>8. spec' = Noted(spec, w[1])
  BY DEF pfState_otherFmtChar, Noted, Char
<1>9. /\ w' = Pending(<<>>, wide, dot, long, item.type, u)
      /\ Progress(item, state', spec', <<>>, wide, dot, long)
  BY <1>1, <1>7, <1>8 DEF ReadsModifier
<1> QED BY <1>1, <1>2, <1>4, <1>9, DirectiveGoesOn

LEMMA ConversionKeeps ==
  ASSUME PrintfInv, Conversion, Kept
  PROVE  PrintfInv'
<1>1. /\ GoodCall(who, items, args0) /\ who = "alt_log" /\ w # <<>> /\ AtOther /\ ~Modifier(Char)
      /\ w' = Tail(w) /\ state' = "chars" /\ state # "chars"
  BY DEF PrintfInv, Conversion, Logs, Took, AtOther
<1>2. PICK i \in 0 .. Len(items) - 1, item \in Item :
        item = items[i + 1] /\ \E z, wd, d, l, u : Amid(i, item, z, wd, d, l, u)
  BY <1>1, DirectiveIs
<1>3. PICK z, wd, d, l, u : Amid(i, item, z, wd, d, l, u)
  BY <1>2
<1>4. /\ Reading(items, i + 1, u) /\ Position(i) /\ IsDirective(item)
      /\ Progress(item, state, spec, z, wd, d, l)
  BY <1>3 DEF Amid
<1>5. ~ReadsZero(item, state, spec, wd, d, l, u, w)
  BY <1>1, ZeroIsModifier DEF ReadsZero, Char
<1>6. \A wide, dot, long : ~ReadsModifier(item, state, spec, u, w, wide, dot, long)
  BY <1>1 DEF ReadsModifier, Char
<1>7. ReadsLetter(item, spec, u, w)
  BY <1>3, <1>5, <1>6 DEF Amid, NextRead
<1>8. Char = item.type /\ w' = u /\ spec.zero = (item.zero # <<>>) /\ spec.before = Width(item)
  BY <1>1, <1>7 DEF ReadsLetter, Char
<1>9. NextArgument(items, args0, i) /\ Said(items, args0, i) \in Seq(Symbols)
  BY <1>1, GoodItemAt
<1>10. out \in Seq(Symbols) /\ out \o <<>> = out
  BY <1>4, <1>9, ConcatEmptySeq DEF Position
<1> DEFINE val == ArgFor(items, args0, i + 1)
<1>11. CASE item.type \in Letters
  <2>1. Takes(item)
    BY <1>11 DEF Takes
  <2>2. args[1] = val /\ val \in Argument /\ (item.type = "c" => Len(val.s) = 1)
    BY <1>2, <1>4, <1>9, <2>1 DEF NextArgument, Position
  <2>3. out' = out \o Convert(item.type, val) /\ args' = Tail(args)
    BY <1>8, <1>11, <2>2 DEF Conversion, Emit
  <2>4. Convert(item.type, val) = Meaning(item, val)
    <3> HIDE DEF val
    <3> QED BY <1>8, <1>11, <2>2, ConvertsToMeaning, PrintfAssumption
  <2>5. out' = out \o Meaning(item, val) /\ args' = IF Takes(item) THEN Tail(args) ELSE args
    BY <2>1, <2>3, <2>4
  <2> QED BY <1>1, <1>2, <1>4, <1>8, <2>5, ItemDone
<1>12. CASE item.type \notin Letters
  <2>1. ~Takes(item) /\ out' = out /\ args' = args
    BY <1>8, <1>12 DEF Takes, Conversion
  <2>2. item.type # "%"
    BY <1>1, <1>4, <1>8 DEF AtOther, Progress
  <2>3. item.type \notin {"char", "%", "c", "s", "d", "i", "u", "o", "x", "X"}
    BY <1>4, <1>12, <2>2 DEF Letters, IsDirective
  <2>4. Meaning(item, val) = <<>>
    BY <2>3 DEF Meaning
  <2>5. out' = out \o Meaning(item, val) /\ args' = IF Takes(item) THEN Tail(args) ELSE args
    BY <1>10, <2>1, <2>4
  <2> QED BY <1>1, <1>2, <1>4, <1>8, <2>5, ItemDone
<1> QED BY <1>11, <1>12

LEMMA PrintfStep_Inv == PrintfInv /\ [PrintfNext]_printfVars => PrintfInv'
<1> SUFFICES ASSUME PrintfInv, [PrintfNext]_printfVars PROVE PrintfInv'
  OBVIOUS
<1>1. CASE PrintfNext
  <2>1. Kept /\ (alt_printf \/ alt_log_private_printf)
    BY <1>1 DEF PrintfNext, Kept
  <2>2. CASE alt_printf
    BY <2>1, <2>2, AltPrintfKeeps
  <2>3. CASE pfState_chars
    BY <2>1, <2>3, CharsKeeps
  <2>4. CASE pfState_firstFmtChar
    BY <2>1, <2>4, FirstFmtCharKeeps
  <2>5. CASE pfState_otherFmtChar
    BY <2>1, <2>5, OtherFmtCharKeeps
  <2>6. CASE Conversion
    BY <2>1, <2>6, ConversionKeeps
  <2> QED BY <2>1, <2>2, <2>3, <2>4, <2>5, <2>6 DEF alt_log_private_printf
<1>2. CASE UNCHANGED printfVars
  BY <1>2 DEF printfVars, PrintfInv, AtItem, InDirective, Halfway, AtEnd, Position
<1> QED BY <1>1, <1>2

\* PrintsMeaning: for every format and its arguments, alt_printf and
\* alt_log_private_printf print what the format means, each directive from the
\* argument that is its own.
THEOREM PrintsWhatItMeans == PrintfSpec => []PrintsMeaning
BY PrintfInit_Inv, PrintfStep_Inv, InvPrints, PTL DEF PrintfSpec
==============================================================================
