------------------------------- MODULE Archi4 -------------------------------
(***************************************************************************)
(* Architecture archi4 of sqrt_seq: a combinational cascade of nb_bits     *)
(* sqrt_transformer stages.  Its signals are concurrent assignments: after *)
(* a change of A every stage drives its output buses again, in its own     *)
(* time, so the buses may show a mixture of operands until they settle.    *)
(* fini and count are left undriven: nothing tells when that is.           *)
(***************************************************************************)
EXTENDS SqrtTransformer

CONSTANT CascadeOperands    \* values the environment puts on A

ASSUME CascadeAssumption == CascadeOperands \subseteq Bits(W)

VARIABLE A     \* the operand port

cascadeVars == <<A, tab>>

CascadeInit == A \in CascadeOperands /\ Undriven

\* The environment changes the operand.
Drive(a) == A' = a /\ UNCHANGED tab

\* The first buses follow A.
DriveFirst == /\ tab[0] # Feed(A)
              /\ tab' = [tab EXCEPT ![0] = Feed(A)]
              /\ UNCHANGED A

\* A fault substituted for DriveStage: one stage less is generated.
Bug_StageMissing(i) == /\ i < nb_bits - 1
                       /\ tab[i + 1] # Transform(tab[i])
                       /\ tab' = [tab EXCEPT ![i + 1] = Transform(tab[i])]
                       /\ UNCHANGED A

\* Stage i drives its output buses after a change of its input buses.
DriveStage(i) == /\ tab[i + 1] # Transform(tab[i])
                 /\ tab' = [tab EXCEPT ![i + 1] = Transform(tab[i])]
                 /\ UNCHANGED A

Propagate == DriveFirst \/ \E i \in 0 .. nb_bits - 1 : DriveStage(i)

CascadeNext == \/ \E a \in CascadeOperands : Drive(a)
               \/ Propagate

CascadeSpec == CascadeInit /\ [][CascadeNext]_cascadeVars

\* Every assignment is executed some time after its inputs have changed.
FairCascadeSpec == /\ CascadeSpec
                   /\ WF_cascadeVars(DriveFirst)
                   /\ \A i \in 0 .. nb_bits - 1 : WF_cascadeVars(DriveStage(i))

-----------------------------------------------------------------------------
(* Properties *)

\* The buses keep their widths whatever transient values cross the stages.
CascadeTypeOK == A \in CascadeOperands /\ tab \in [0 .. nb_bits -> Buses]

\* No assignment of lines 365-367 and of the stages is pending.
Settled == /\ tab[0] = Feed(A)
           /\ \A i \in 0 .. nb_bits - 1 : tab[i + 1] = Transform(tab[i])

\* Once nothing is pending the output is the root of the operand shown, from
\* whatever mixture of older operands the buses started.
SettledCorrect == Settled => IsRoot(CascadeResultat, A)

CascadeCorrect == CascadeTypeOK /\ SettledCorrect

\* An operand held still settles: the cascade has no loop and no oscillation.
CascadeSettles == \A a \in CascadeOperands : <>[](A = a) => <>[](Settled)
=============================================================================
