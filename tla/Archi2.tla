------------------------------- MODULE Archi2 -------------------------------
(***************************************************************************)
(* Architecture archi2 of sqrt_seq: non-restoring square root that keeps   *)
(* X = Z^2 with multipliers.  Each action is one rising edge of clk in one *)
(* state of the controller, with everything that edge loads, or the        *)
(* asynchronous reset.                                                     *)
(***************************************************************************)
EXTENDS SqrtEntity

VARIABLES state,                        \* controller
          reg_A, reg_X, reg_Z, reg_V,   \* operand, square, root, step
          s_count, s_idx,               \* reported cycles, iteration index
          Resultat                      \* output latch

regs == <<reg_A, reg_X, reg_Z, reg_V>>
vars == <<state, reg_A, reg_X, reg_Z, reg_V, s_count, s_idx, Resultat>>

fini  == state = "DONE"
count == Low(s_count, W)

-----------------------------------------------------------------------------
\* Definitions named Bug_... are faults a slip in the code would make.  No
\* specification uses them; each is substituted for the definition after it
\* to see that a property notices.

Bug_DoubleMissing == reg_Z

\* The combinational network: the root less one, and the two candidate
\* squares.  The product of two W-bit vectors has 2*W bits; its W low bits
\* are loaded.
Double     == Low(2 * reg_Z, W)
reg_Z_v    == Low(reg_Z - 1, W)
reg_mult_1 == Low(reg_X + reg_V * Low(reg_V - Double, W), 2 * W)
reg_mult_2 == Low(reg_X + reg_V * Low(reg_V + Double, W), 2 * W)

Bug_OutputUncorrected == IF reg_A < 2 THEN Low(reg_A, nb_bits) ELSE Low(reg_Z, nb_bits)

\* The output process: transparent in DONE, otherwise it keeps its value.
Output == IF reg_A < 2 THEN Low(reg_A, nb_bits)
          ELSE IF reg_X > reg_A THEN Low(reg_Z_v, nb_bits) ELSE Low(reg_Z, nb_bits)

Init == /\ state = "IDLE"
        /\ reg_A \in PowerUp /\ reg_X \in PowerUp
        /\ reg_Z \in PowerUp /\ reg_V \in PowerUp
        /\ s_count = 0 /\ s_idx = 0
        /\ Resultat \in {Low(p, nb_bits) : p \in PowerUp}

Load(A) == /\ reg_A' = A
           /\ reg_X' = pow2[nb_bits - 2] * pow2[nb_bits]
           /\ reg_V' = pow2[nb_bits - 2]
           /\ reg_Z' = 2 * pow2[nb_bits - 2]

Bug_ClearIndexOnly == s_idx' = 0 /\ UNCHANGED s_count
Bug_ClearCountOnly == s_count' = 0 /\ UNCHANGED s_idx

ClearCounters == s_count' = 0 /\ s_idx' = 0

\* An edge while IDLE samples A and prepares the work registers; with debut
\* it starts the computation.
Idle(debut, A) == /\ state = "IDLE"
                  /\ state' = IF debut THEN "COMPUTE" ELSE "IDLE"
                  /\ Load(A)
                  /\ ClearCounters
                  /\ UNCHANGED Resultat

StepDown == /\ reg_X > reg_A
            /\ reg_X' = Low(reg_mult_1, W)
            /\ reg_Z' = Low(reg_Z - reg_V, W)

StepUp   == /\ reg_X < reg_A
            /\ reg_X' = Low(reg_mult_2, W)
            /\ reg_Z' = Low(reg_Z + reg_V, W)

\* The root is exact: the remaining iterations only count.
Stay     == reg_X = reg_A /\ UNCHANGED <<reg_X, reg_Z>>

AtLastStep == s_idx = nb_bits - 2

Compute == /\ state = "COMPUTE"
           /\ state' = IF AtLastStep THEN "DONE" ELSE "COMPUTE"
           /\ StepDown \/ StepUp \/ Stay
           /\ reg_V' = reg_V \div 2
           /\ s_idx' = s_idx + 1
           /\ s_count' = s_count + 1
           /\ UNCHANGED reg_A
           /\ Resultat' = IF state' = "DONE" THEN Output' ELSE Resultat

\* DONE is left by reset only; edges reload the registers with themselves.
Done == state = "DONE" /\ UNCHANGED vars

Reset == /\ state' = "IDLE"
         /\ UNCHANGED <<regs, s_count, s_idx, Resultat>>

Next == \/ \E debut \in BOOLEAN, A \in Operands : Idle(debut, A)
        \/ Compute
        \/ Done
        \/ Reset

Spec == Init /\ [][Next]_vars

\* The clock runs: an edge comes while the controller computes.
FairSpec == Spec /\ WF_vars(Compute)

-----------------------------------------------------------------------------
(* Properties *)

\* Every register stays a vector of its declared width and the indices stay
\* within the count of iterations (declarations of sqrt_seq.vhd:155-164).
TypeOK == /\ state \in TState
          /\ reg_A \in Bits(W) /\ reg_X \in Bits(W)
          /\ reg_Z \in Bits(W) /\ reg_V \in Bits(W)
          /\ s_idx \in 0 .. nb_bits - 1 /\ s_count \in 0 .. nb_bits - 1
          /\ Resultat \in Bits(nb_bits)

\* Z is a root candidate of nb_bits bits, X its square without any loss in
\* the truncated products of lines 168-169 (V - 2*Z is negative there), and
\* the root of A lies less than w away on either side, w halving every edge.
Bracket(w) == /\ reg_V = w \div 2
              /\ reg_X = reg_Z * reg_Z
              /\ w <= reg_Z /\ reg_Z + w <= pow2[nb_bits]
              /\ (reg_Z - w) * (reg_Z - w) <= reg_A
              /\ reg_A < (reg_Z + w) * (reg_Z + w)

RootBracketed == state # "IDLE" => Bracket(pow2[nb_bits - 1 - s_idx])

\* When fini is raised the latch shows the integer square root of the operand
\* sampled by the starting edge, whichever side the last step overshot.
RootCorrect == fini => IsRoot(Resultat, reg_A)

\* The cycle count the test bench reports is exact: nb_bits-1 edges, also
\* after a computation that reset cut short and also once the root is exact.
CountExact == /\ fini => count = nb_bits - 1
              /\ state = "COMPUTE" => count = s_idx /\ s_idx < nb_bits - 1

\* The architecture implements the service, its delivery included.
Service == INSTANCE SqrtService WITH phase <- state, operand <- reg_A, result <- Resultat

ImplementsService == Service!FairSpec
=============================================================================
