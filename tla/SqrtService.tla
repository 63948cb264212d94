---------------------------- MODULE SqrtService ----------------------------
(***************************************************************************)
(* What the ports of sqrt_seq promise, whatever the architecture: while    *)
(* IDLE the entity samples its operand at every clock edge; an edge with   *)
(* debut starts a computation on the operand just sampled; one later step  *)
(* raises fini and shows the integer square root of that operand; reset    *)
(* gives the computation up.  How many edges the computation takes, and    *)
(* through which registers, is left to the architectures.                  *)
(***************************************************************************)
EXTENDS SqrtEntity

VARIABLES phase, operand, result

vars == <<phase, operand, result>>

Init == /\ phase = "IDLE"
        /\ operand \in PowerUp
        /\ result \in Bits(nb_bits)

Sample(go, a) == /\ phase = "IDLE"
                 /\ phase' = IF go THEN "COMPUTE" ELSE "IDLE"
                 /\ operand' = a
                 /\ UNCHANGED result

Deliver == /\ phase = "COMPUTE"
           /\ phase' = "DONE"
           /\ result' \in Bits(nb_bits)
           /\ IsRoot(result', operand)
           /\ UNCHANGED operand

\* Back to IDLE by reset or, where the controller rewinds itself, after DONE.
\* The operand register may already follow A again.
Reset == /\ phase' = "IDLE"
         /\ operand' \in Operands \cup {operand}
         /\ UNCHANGED result

Next == \/ \E go \in BOOLEAN, a \in Operands : Sample(go, a)
        \/ Deliver
        \/ Reset

Spec == Init /\ [][Next]_vars

\* A started computation is delivered unless reset gives it up.
FairSpec == Spec /\ WF_vars(Deliver)
=============================================================================
