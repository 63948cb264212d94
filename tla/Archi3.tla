------------------------------- MODULE Archi3 -------------------------------
(***************************************************************************)
(* Architecture archi3 of sqrt_seq: restoring square root, one result bit  *)
(* per clock edge.  Each action is one rising edge of clk in one state of  *)
(* the controller, with everything that edge loads, or the asynchronous    *)
(* reset, which rewinds the controller and leaves the registers alone.     *)
(***************************************************************************)
EXTENDS SqrtEntity

VARIABLES state,                        \* controller
          reg_A, reg_X, reg_Z, reg_V,   \* operand, remainder, root, weight
          s_count, s_idx,               \* reported cycles, digit index
          Resultat                      \* output latch

regs == <<reg_A, reg_X, reg_Z, reg_V>>
vars == <<state, reg_A, reg_X, reg_Z, reg_V, s_count, s_idx, Resultat>>

fini  == state = "DONE"
count == Low(s_count, W)

-----------------------------------------------------------------------------
\* Definitions named Bug_... are faults a slip in the code would make.  No
\* specification uses them; each is substituted for the definition after it
\* to see that a property notices.

\* The output process: transparent in DONE, otherwise it keeps its value.
Output == IF reg_A < 2 THEN Low(reg_A, nb_bits) ELSE Low(reg_Z, nb_bits)

Init == /\ state = "IDLE"
        /\ reg_A \in PowerUp /\ reg_X \in PowerUp
        /\ reg_Z \in PowerUp /\ reg_V \in PowerUp
        /\ s_count = 0 /\ s_idx = 0
        /\ Resultat \in {Low(p, nb_bits) : p \in PowerUp}

Load(A) == /\ reg_A' = A /\ reg_X' = A
           /\ reg_V' = pow2[nb_bits - 2] * pow2[nb_bits]
           /\ reg_Z' = 0

Bug_ClearCountOnly == s_count' = 0 /\ UNCHANGED s_idx

ClearCounters == s_count' = 0 /\ s_idx' = 0

\* An edge while IDLE samples A and prepares the work registers; with debut
\* it starts the computation.
Idle(debut, A) == /\ state = "IDLE"
                  /\ state' = IF debut THEN "COMPUTE" ELSE "IDLE"
                  /\ Load(A)
                  /\ ClearCounters
                  /\ UNCHANGED Resultat

Bug_TrialNarrow == Low(reg_Z + reg_V, nb_bits)

Trial == Low(reg_Z + reg_V, W)

Bug_RestoreUnshifted == reg_X < Trial /\ UNCHANGED <<reg_X, reg_Z>>

\* The trial subtraction fails: the digit is 0 and the remainder is kept.
Restore  == /\ reg_X < Trial
            /\ reg_Z' = reg_Z \div 2
            /\ UNCHANGED reg_X

\* The trial subtraction succeeds: the digit is 1.
Subtract == /\ reg_X >= Trial
            /\ reg_Z' = Low(reg_Z \div 2 + reg_V, W)
            /\ reg_X' = Low(reg_X - reg_Z - reg_V, W)

AtLastDigit == s_idx = nb_bits - 1

Compute == /\ state = "COMPUTE"
           /\ state' = IF AtLastDigit THEN "DONE" ELSE "COMPUTE"
           /\ Restore \/ Subtract
           /\ reg_V' = reg_V \div 4
           /\ s_idx' = s_idx + 1
           /\ s_count' = s_count + 1
           /\ UNCHANGED reg_A
           /\ Resultat' = IF state' = "DONE" THEN Output' ELSE Resultat

\* DONE is left by reset only; edges reload the registers with themselves.
Done == state = "DONE" /\ UNCHANGED vars

Reset == /\ state' = "IDLE"
         /\ UNCHANGED <<regs, s_count, s_idx, Resultat>>

Next == \/ \E debut \in BOOLEAN, A \in Operands : Idle(debut, A)
        \/ Compute
        \/ Done
        \/ Reset

Spec == Init /\ [][Next]_vars

\* The clock runs: an edge comes while the controller computes.
FairSpec == Spec /\ WF_vars(Compute)

-----------------------------------------------------------------------------
(* Properties *)

\* Every register stays a vector of its declared width and the indices stay
\* within the count of digits (declarations of sqrt_seq.vhd:256-267).
TypeOK == /\ state \in TState
          /\ reg_A \in Bits(W) /\ reg_X \in Bits(W)
          /\ reg_Z \in Bits(W) /\ reg_V \in Bits(W)
          /\ s_idx \in 0 .. nb_bits /\ s_count \in 0 .. nb_bits
          /\ Resultat \in Bits(nb_bits)

\* After s_idx edges the s_idx leading digits m of the root are final: with
\* w the weight that separates them from the digits to come, Z holds m, X
\* holds exactly what is left of A, and m cannot be increased.
Digits(w, m) == /\ reg_Z = w * m
                /\ reg_A = reg_X + w * m * m
                /\ reg_X < w * (2 * m + 1)
                /\ reg_V = w \div 4

DigitsKnown ==
    state # "IDLE" => \E m \in Bits(s_idx) : Digits(pow2[2 * (nb_bits - s_idx)], m)

\* No carry leaves the 2*nb_bits wide adder whose sum the comparison of
\* sqrt_seq.vhd:295 and the load of line 298 use: the truncation never bites,
\* whatever A is sampled and whenever reset strikes.
NoCarry == state = "COMPUTE" => reg_Z + reg_V < pow2[W]

\* When fini is raised the latch shows the integer square root of the operand
\* sampled by the starting edge.
RootCorrect == fini => IsRoot(Resultat, reg_A)

\* The cycle count the test bench reports is exact: one edge per digit, also
\* after a computation that reset cut short.
CountExact == /\ fini => count = nb_bits
              /\ state = "COMPUTE" => count = s_idx /\ s_idx < nb_bits

\* The architecture implements the service, its delivery included.
Service == INSTANCE SqrtService WITH phase <- state, operand <- reg_A, result <- Resultat

ImplementsService == Service!FairSpec
=============================================================================
