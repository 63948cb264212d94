------------------------------- MODULE CSqrt -------------------------------
(***************************************************************************)
(* The four square root routines of software/sqrt/tp_nios_sqrt.c, one      *)
(* round of a loop per step.  An unsigned int has W bits and n = nb_bits   *)
(* is half of that (the Nios II build has nb_bits = 16).  main calls the   *)
(* routines one after the other; they share nothing, so a behaviour is one *)
(* call.  frame holds the locals of the routine that runs.                 *)
(*                                                                         *)
(* The signed difference of sqrt3 overflows for large arguments.  The      *)
(* build (-O0) subtracts modulo 2^W and tests the sign bit, see            *)
(* software/sqrt/sqrt.objdump:1032-1034; that is what Fits does.           *)
(***************************************************************************)
EXTENDS SqrtArith

CONSTANT Arguments     \* arguments main may pass

ASSUME ArgumentsAssumption == Arguments \subseteq Bits(W)

VARIABLES pc,              \* "ready", "running", "returned"
          routine, arg,    \* the call
          frame,           \* locals of the running routine
          ret              \* returned value

vars == <<pc, routine, arg, frame, ret>>

Routines == {"sqrt1", "sqrt2", "sqrt3", "sqrt4"}

-----------------------------------------------------------------------------
\* Definitions named Bug_... are faults a slip in the code would make.  No
\* specification uses them; each is substituted for the definition after it
\* to see that a property notices.

\* The locals after their initialisation.
Frame(f, a) ==
    CASE f = "sqrt1" -> [res |-> a \div 2, pre_res |-> 0]
      [] f = "sqrt2" -> [x |-> pow2[W - 2], v |-> pow2[nb_bits - 2],
                         z |-> pow2[nb_bits - 1], i |-> nb_bits - 2]
      [] f = "sqrt3" -> [Xio |-> a, v |-> pow2[W - 2], z |-> 0, i |-> nb_bits - 1]
      [] f = "sqrt4" -> [min_ |-> 0, max_ |-> a]

Init == /\ pc = "ready"
        /\ routine \in Routines /\ arg \in Arguments
        /\ frame = Frame(routine, arg)
        /\ ret = 0

Return(r) == pc' = "returned" /\ ret' = r
Continue  == UNCHANGED <<pc, ret>>

Call == /\ pc = "ready"
        /\ IF arg < 2 THEN Return(arg) ELSE pc' = "running" /\ UNCHANGED ret
        /\ UNCHANGED <<routine, arg, frame>>

InRoutine(f) == pc = "running" /\ routine = f /\ UNCHANGED <<routine, arg>>

\* sqrt1: Newton's iteration, until an iterate repeats.
Newton == Low(frame.res + arg \div frame.res, W) \div 2

Sqrt1Round == /\ InRoutine("sqrt1")
              /\ frame' = [res |-> Newton, pre_res |-> frame.res]
              /\ IF frame'.pre_res # frame'.res THEN Continue ELSE Return(frame'.res)

\* The test of while (i-- >= 0), whose decrement is part of the round.
Looping == frame.i >= 0

\* sqrt2: the bracket around z is halved, x follows as its square.
Bug_SquareStep(s) == Low(frame.x + frame.v * Low(frame.v + s * frame.z, W), W)

SquareStep(s) == Low(frame.x + frame.v * Low(frame.v + s * 2 * frame.z, W), W)

Sqrt2Round ==
    /\ InRoutine("sqrt2") /\ Looping
    /\ \/ /\ frame.x > arg
          /\ frame' = [x |-> SquareStep(-1), z |-> Low(frame.z - frame.v, W),
                       v |-> frame.v \div 2, i |-> frame.i - 1]
       \/ /\ frame.x < arg
          /\ frame' = [x |-> SquareStep(1), z |-> Low(frame.z + frame.v, W),
                       v |-> frame.v \div 2, i |-> frame.i - 1]
       \/ /\ frame.x = arg
          /\ frame' = [frame EXCEPT !.v = @ \div 2, !.i = @ - 1]
    /\ Continue

Bug_Uncorrected == frame.z

Corrected == IF frame.x > arg THEN Low(frame.z - 1, W) ELSE frame.z

Sqrt2End == /\ InRoutine("sqrt2") /\ ~ Looping
            /\ Return(Corrected)
            /\ UNCHANGED frame

\* sqrt3: one digit per round; the sign bit of the wrapped difference decides.
Fits == 2 * Low(frame.Xio - Low(frame.z + frame.v, W), W) < pow2[W]

Sqrt3Round ==
    /\ InRoutine("sqrt3") /\ Looping
    /\ \/ /\ Fits
          /\ frame' = [Xio |-> Low(frame.Xio - frame.z - frame.v, W),
                       z |-> Low(frame.z + 2 * frame.v, W) \div 2,
                       v |-> frame.v \div 4, i |-> frame.i - 1]
       \/ /\ ~ Fits
          /\ frame' = [frame EXCEPT !.z = @ \div 2, !.v = @ \div 4, !.i = @ - 1]
    /\ Continue

Sqrt3End == /\ InRoutine("sqrt3") /\ ~ Looping
            /\ Return(frame.z)
            /\ UNCHANGED frame

\* sqrt4: bisection between min_ and max_.
Middle == Low(frame.min_ + frame.max_, W) \div 2
Carre  == Low(Middle * Middle, W)

Bug_NarrowNever(f) == FALSE

Narrow(f) == Low(f.max_ - f.min_, W) <= 1

Sqrt4Round ==
    /\ InRoutine("sqrt4")
    /\ \/ /\ Carre < arg
          /\ frame' = [frame EXCEPT !.min_ = Middle]
          /\ IF Narrow(frame') THEN Return(frame'.min_) ELSE Continue
       \/ /\ Carre > arg
          /\ frame' = [frame EXCEPT !.max_ = Middle]
          /\ IF Narrow(frame') THEN Return(frame'.min_) ELSE Continue
       \/ /\ Carre = arg
          /\ Return(Middle)
          /\ UNCHANGED frame

Step == \/ Call
        \/ Sqrt1Round
        \/ Sqrt2Round \/ Sqrt2End
        \/ Sqrt3Round \/ Sqrt3End
        \/ Sqrt4Round

Spec == Init /\ [][Step]_vars

\* The processor runs.
FairSpec == Spec /\ WF_vars(Step)

-----------------------------------------------------------------------------
(* Properties *)

\* Every local is an unsigned int, the loop counters run from n - 1 to -1.
Frames == [res : Bits(W), pre_res : Bits(W)]
          \cup [x : Bits(W), v : Bits(W), z : Bits(W), i : -1 .. nb_bits - 2]
          \cup [Xio : Bits(W), v : Bits(W), z : Bits(W), i : -1 .. nb_bits - 1]
          \cup [min_ : Bits(W), max_ : Bits(W)]

TypeOK == /\ pc \in {"ready", "running", "returned"}
          /\ routine \in Routines /\ arg \in Bits(W)
          /\ frame \in Frames /\ ret \in Bits(W)

\* The arguments a routine can deal with: the sign bit misleads sqrt3 from
\* three quarters of the range on, the square of the first middle overflows
\* in sqrt4 from twice the largest root on.
Domain(f, a) == /\ f = "sqrt3" => a < 3 * pow2[W - 2]
                /\ f = "sqrt4" => a < 2 * pow2[nb_bits]

\* sqrt1 does not settle on a = k*k - 1: it alternates between k - 1 and k.
Settles(a) == \A k \in Bits(nb_bits) : (k + 1) * (k + 1) # a + 1

\* sqrt1 never divides by zero, because it never falls below the root.
NewtonAbove == frame.res >= 1 /\ arg < (frame.res + 1) * (frame.res + 1)

\* sqrt2 keeps x the square of z, less than w away from the argument's root.
SquareBracketed ==
    LET w == pow2[frame.i + 1] IN
    /\ frame.v = w \div 2 /\ frame.x = frame.z * frame.z
    /\ w <= frame.z /\ frame.z + w <= pow2[nb_bits]
    /\ (frame.z - w) * (frame.z - w) <= arg
    /\ arg < (frame.z + w) * (frame.z + w)

\* sqrt3 keeps the digits m known so far, and exactly what is left of arg.
DigitsKnown ==
    LET w == pow2[2 * (frame.i + 1)] IN
    \E m \in Bits(nb_bits - 1 - frame.i) :
        /\ frame.z = w * m /\ frame.v = w \div 4
        /\ arg = frame.Xio + w * m * m
        /\ frame.Xio < w * (2 * m + 1)

\* sqrt4 keeps the root between min_ and max_, which are never one apart.
Halved == /\ frame.min_ * frame.min_ < arg /\ arg < frame.max_ * frame.max_
          /\ frame.max_ - frame.min_ > 1

\* Between two rounds the loop of each routine keeps its invariant, on the
\* arguments the routine can deal with.
LoopInvariant ==
    /\ TypeOK
    /\ pc = "running" /\ Domain(routine, arg) =>
         /\ routine = "sqrt1" => NewtonAbove
         /\ routine = "sqrt2" => SquareBracketed
         /\ routine = "sqrt3" => DigitsKnown
         /\ routine = "sqrt4" => Halved

\* What a routine returns is the integer square root of its argument, on the
\* arguments it can deal with; so the four agree there.
RootReturned ==
    pc = "returned" /\ Domain(routine, arg) => IsRoot(ret, arg)

\* A call returns, sqrt1's only where Newton's iteration settles.
Returns ==
    (/\ pc = "running" /\ Domain(routine, arg)
     /\ routine = "sqrt1" => Settles(arg)) ~> pc = "returned"

\* "Calcul racine carree" (tp_nios_sqrt.c:47) announces a root for every
\* argument; sqrt1 does not always come back with one.
Sqrt1Returns == pc = "running" /\ routine = "sqrt1" ~> pc = "returned"
=============================================================================
