------------------------------- MODULE Archi1 -------------------------------
(***************************************************************************)
(* Architecture archi1 of sqrt_seq: Newton's iteration with a divider.     *)
(* Each action is one rising edge of clk in one state of the controller,   *)
(* with everything that edge loads, or the asynchronous reset.             *)
(*                                                                         *)
(* An IDLE edge seeds reg_R from the value reg_A held BEFORE the edge, so  *)
(* the seed belongs to the operand of the previous IDLE edge.  Spec lets   *)
(* the environment change A freely; HeldSpec is the environment of the     *)
(* test bench, which presents A for two edges before the starting one.     *)
(***************************************************************************)
EXTENDS SqrtEntity

CONSTANT DivByZero    \* quotients the divider may give for a zero divisor

ASSUME DivByZeroAssumption == DivByZero \subseteq Bits(W)

VARIABLES state,                      \* controller
          reg_A, reg_R, reg_R_prev,   \* operand, iterate, previous iterate
          s_count,                    \* reported cycles
          Resultat                    \* output latch

regs == <<reg_A, reg_R, reg_R_prev>>
vars == <<state, reg_A, reg_R, reg_R_prev, s_count, Resultat>>

fini  == state = "DONE"
count == Low(s_count, W)

-----------------------------------------------------------------------------
\* Definitions named Bug_... are faults a slip in the code would make.  No
\* specification uses them; each is substituted for the definition after it
\* to see that a property notices.

Init == /\ state = "IDLE"
        /\ reg_A \in PowerUp /\ reg_R \in PowerUp /\ reg_R_prev \in PowerUp
        /\ s_count = 0
        /\ Resultat \in {Low(p, nb_bits) : p \in PowerUp}

Bug_SeedQuarter   == IF reg_A > 1 THEN reg_A \div 4 ELSE reg_A

\* The first iterate, from the operand the PREVIOUS edge sampled.
Seed == IF reg_A > 1 THEN reg_A \div 2 ELSE reg_A

\* An edge while IDLE samples A and seeds the iteration from the OLD reg_A;
\* with debut it starts the computation.
Idle(debut, A) ==
    /\ state = "IDLE"
    /\ state' = IF debut THEN "COMPUTE" ELSE "IDLE"
    /\ reg_A' = A
    /\ reg_R' = Seed
    /\ reg_R_prev' = reg_A
    /\ s_count' = 0
    /\ UNCHANGED Resultat

\* The divider: what it gives for a zero divisor is not defined.
Quotients == IF reg_R = 0 THEN DivByZero ELSE {reg_A \div reg_R}

Bug_NewtonRoundsUp(q) == Low(reg_R + q + 1, W) \div 2

Newton(q) == Low(reg_R + q, W) \div 2

Bug_SettledExactly == reg_R = reg_R_prev

\* The iterate did not move, or moved up by one (modulo the vector's width).
Settled == reg_R = reg_R_prev \/ Low(reg_R - 1, W) = reg_R_prev

\* The edge that finds the iteration settled still loads one more iterate.
Compute == /\ state = "COMPUTE"
           /\ state' = IF Settled THEN "DONE" ELSE "COMPUTE"
           /\ \E q \in Quotients : reg_R' = Newton(q)
           /\ reg_R_prev' = reg_R
           /\ s_count' = s_count + 1
           /\ UNCHANGED reg_A
           /\ Resultat' = IF state' = "DONE" THEN Low(reg_R', nb_bits) ELSE Resultat

\* DONE is left by reset only; edges reload the registers with themselves.
Done == state = "DONE" /\ UNCHANGED vars

Reset == /\ state' = "IDLE"
         /\ UNCHANGED <<regs, s_count, Resultat>>

Next == \/ \E debut \in BOOLEAN, A \in Operands : Idle(debut, A)
        \/ Compute
        \/ Done
        \/ Reset

Spec == Init /\ [][Next]_vars

\* The test bench: the starting edge finds A already sampled by the edge
\* before it.
HeldNext == \/ \E debut \in BOOLEAN, A \in Operands :
                 (debut => A = reg_A) /\ Idle(debut, A)
            \/ Compute
            \/ Done
            \/ Reset

HeldSpec == Init /\ [][HeldNext]_vars

\* The clock runs: an edge comes while the controller computes.
FairHeldSpec == HeldSpec /\ WF_vars(Compute)

-----------------------------------------------------------------------------
(* Properties *)

\* Every register stays a vector of its declared width (declarations of
\* sqrt_seq.vhd:66-72).
TypeOK == /\ state \in TState
          /\ reg_A \in Bits(W) /\ reg_R \in Bits(W) /\ reg_R_prev \in Bits(W)
          /\ s_count \in Nat
          /\ Resultat \in Bits(nb_bits)

\* The iterates never fall below the root, so the divider never sees a zero
\* and the first repetition is the root, not a point above or below it.
NeverBelowRoot ==
    state = "COMPUTE" => /\ 1 <= reg_R
                         /\ reg_A < (reg_R + 1) * (reg_R + 1)

\* The sum of iterate and quotient fits the vector it is truncated to.
NoCarry == state = "COMPUTE" /\ reg_R # 0 => reg_R + reg_A \div reg_R < pow2[W]

\* When fini is raised the latch shows the integer square root of the operand
\* sampled by the starting edge.
RootCorrect == fini => IsRoot(Resultat, reg_A)

\* The iteration does not wander: an edge that goes on either lowers the
\* iterate or leaves it at the root, the variant behind its termination.
Descends == [][state = "COMPUTE" /\ state' = "COMPUTE"
                 => reg_R' < reg_R \/ IsRoot(reg_R, reg_A)]_vars

\* The computation ends within as many edges as the operand has bits, the
\* budget of clock periods a test bench must allow.
WithinBudget == state # "IDLE" => count <= W

\* With the operand held, the architecture implements the service, its
\* delivery included.
Service == INSTANCE SqrtService WITH phase <- state, operand <- reg_A, result <- Resultat

ImplementsService == Service!FairSpec
=============================================================================
