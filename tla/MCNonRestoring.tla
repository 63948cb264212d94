--------------------------- MODULE MCNonRestoring ---------------------------
(***************************************************************************)
(* The two architectures that compute the non-restoring root, archi2 and   *)
(* archi6, on one instance: a 4-bit root, and for each of its 16 values k  *)
(* the smallest, a middle and the largest 8-bit operand whose root is k;   *)
(* registers and latches power up all zeros or all ones.  arch is the      *)
(* architecture that the VHDL configuration binds; the signals of the      *)
(* other one do not exist, which their single value stands for.            *)
(***************************************************************************)
EXTENDS Archi2, Archi6

VARIABLE arch

MCOperands == {k * k + d * k : k \in 0 .. 15, d \in 0 .. 2}
MCPowerUp  == {0, 255}

absent2 == /\ state = "IDLE" /\ Resultat = 0 /\ s_count = 0 /\ s_idx = 0
           /\ reg_A = 0 /\ reg_X = 0 /\ reg_Z = 0 /\ reg_V = 0
absent6 == /\ state6 = "IDLE" /\ debut = FALSE /\ Resultat6 = 0 /\ counter = 0
           /\ regA = 0 /\ regX = 0 /\ regV = 0 /\ regZ = 0

BoundInit == \/ arch = "archi2" /\ Init /\ absent6
             \/ arch = "archi6" /\ Init6 /\ absent2

BoundNext == /\ UNCHANGED arch
             /\ \/ arch = "archi2" /\ Next /\ UNCHANGED vars6
                \/ arch = "archi6" /\ Next6 /\ Handshake /\ UNCHANGED vars

\* The clock runs, for the architecture that is bound.
BoundSpec == /\ BoundInit /\ [][BoundNext]_<<arch, vars, vars6>>
             /\ WF_vars(Compute)
             /\ WF_vars6(Compute6) /\ WF_vars6(Finish)
=============================================================================
