------------------------------- MODULE Archi5 -------------------------------
(***************************************************************************)
(* Architecture archi5 of sqrt_seq: the cascade of archi4 with a rank of   *)
(* registers (sqrt_transformer_reg) before every stage and after the last. *)
(* Every rising edge takes an operand and moves all ranks at once; there   *)
(* is neither reset nor debut nor fini.  taken is a history variable: the  *)
(* operands of the last edges, the newest first.                           *)
(***************************************************************************)
EXTENDS SqrtTransformer, Sequences

CONSTANT StreamOperands    \* values the environment puts on A

ASSUME StreamAssumption == StreamOperands \subseteq Bits(W)

VARIABLE taken    \* history: operands taken, newest first

pipelineVars == <<tab, taken>>

\* A fault substituted for RankInput: a rank recycles its own output.
Bug_RankRecycles(i, a) == IF i = 0 THEN Feed(a) ELSE Transform(tab[i])

\* s_X_tab_r(i), ...: what rank i loads when A shows a.
RankInput(i, a) == IF i = 0 THEN Feed(a) ELSE Transform(tab[i - 1])

Depth == nb_bits + 1     \* edges from an operand to its result

PipelineInit == Undriven /\ taken = << >>

Clock(a) == /\ tab' = [i \in 0 .. nb_bits |-> RankInput(i, a)]
            /\ taken' = IF Len(taken) < Depth
                        THEN <<a>> \o taken
                        ELSE <<a>> \o SubSeq(taken, 1, Depth - 1)

PipelineNext == \E a \in StreamOperands : Clock(a)

PipelineSpec == PipelineInit /\ [][PipelineNext]_pipelineVars

-----------------------------------------------------------------------------
(* Properties *)

\* The ranks keep their widths, also while they hold power-up contents.
PipelineTypeOK == /\ tab \in [0 .. nb_bits -> Buses]
                  /\ taken \in Seq(StreamOperands) /\ Len(taken) <= Depth

\* No operand overtakes or disturbs another: rank i holds the i leading
\* digits of the operand taken i edges before the last one.
RanksHoldDigits ==
    \A i \in 0 .. nb_bits :
        i < Len(taken) => HoldDigits(tab[i], taken[i + 1], i)

\* From the edge that fills the pipeline on, every edge shows the root of
\* the operand taken nb_bits edges before.
RootsStream == Len(taken) = Depth => IsRoot(CascadeResultat, taken[Depth])

StreamCorrect == PipelineTypeOK /\ RanksHoldDigits /\ RootsStream
=============================================================================
