---------------------------- MODULE MCRestoring -----------------------------
(***************************************************************************)
(* The four architectures that compute the restoring root: archi3, the     *)
(* cascade archi4, the pipeline archi5 and archi7.  arch is the            *)
(* architecture that the VHDL configuration binds; the signals of the      *)
(* others do not exist, which their single value stands for.               *)
(*                                                                         *)
(* A 4-bit root, and for each of its 16 values k the smallest, a middle    *)
(* and the largest 8-bit operand whose root is k.  The operands of the     *)
(* cascade and of the pipeline lie at both ends of the range and around    *)
(* the square 16, the pipeline's also in the middle.  Registers and buses  *)
(* power up all zeros or all ones.                                         *)
(***************************************************************************)
EXTENDS Archi3, Archi4, Archi5, Archi7

VARIABLE arch

MCOperands == {k * k + d * k : k \in 0 .. 15, d \in 0 .. 2}
MCPowerUp  == {0, 255}

absent3 == /\ state = "IDLE" /\ Resultat = 0 /\ s_count = 0 /\ s_idx = 0
           /\ reg_A = 0 /\ reg_X = 0 /\ reg_Z = 0 /\ reg_V = 0
absent45 == tab = [i \in 0 .. nb_bits |-> [X |-> 0, Z |-> 0, V |-> 0]]
absent4 == A = CHOOSE a \in CascadeOperands : TRUE
absent5 == taken = << >>
absent7 == /\ state7 = "IDLE" /\ counter = 0 /\ operand = 0
           /\ regA = 0 /\ regV = 0 /\ regZ = 0

BoundInit ==
  \/ arch = "archi3" /\ Init         /\ absent45 /\ absent4 /\ absent5 /\ absent7
  \/ arch = "archi4" /\ CascadeInit  /\ absent3 /\ absent5 /\ absent7
  \/ arch = "archi5" /\ PipelineInit /\ absent3 /\ absent4 /\ absent7
  \/ arch = "archi7" /\ Init7        /\ absent3 /\ absent45 /\ absent4 /\ absent5

BoundNext ==
  /\ UNCHANGED arch
  /\ \/ arch = "archi3" /\ Next         /\ UNCHANGED <<tab, A, taken, vars7>>
     \/ arch = "archi4" /\ CascadeNext  /\ UNCHANGED <<vars, taken, vars7>>
     \/ arch = "archi5" /\ PipelineNext /\ UNCHANGED <<vars, A, vars7>>
     \/ arch = "archi7" /\ Next7        /\ UNCHANGED <<vars, tab, A, taken>>

\* The clock runs and every assignment of the cascade is executed some time
\* after its inputs have changed, for the architecture that is bound.
BoundSpec == /\ BoundInit /\ [][BoundNext]_<<arch, vars, tab, A, taken, vars7>>
             /\ WF_vars(Compute)
             /\ WF_cascadeVars(arch = "archi4" /\ DriveFirst)
             /\ \A i \in 0 .. nb_bits - 1 :
                  WF_cascadeVars(arch = "archi4" /\ DriveStage(i))

-----------------------------------------------------------------------------
(* Of the cascade, when it is bound.                                       *)

\* An operand held still settles in the cascade.
Archi4Settles == arch = "archi4" => CascadeSettles
=============================================================================
