------------------------------- MODULE Archi7 -------------------------------
(***************************************************************************)
(* Architecture archi7 of sqrt_seq: the algorithm of archi3 built from     *)
(* components, OR gates in the place of two adders, and Resultat wired to  *)
(* the root register; names that archi3 uses too carry a 7 here.  The      *)
(* registers are initialised asynchronously as long as the controller is   *)
(* IDLE, so regA follows the port A there; from the starting edge on it    *)
(* holds the remainder.  operand is a history variable: what regA held at  *)
(* the starting edge.                                                      *)
(***************************************************************************)
EXTENDS SqrtEntity, Datapath

VARIABLES state7,             \* controller
          regA, regV, regZ,   \* remainder, weight, root
          counter,            \* down counter
          operand             \* history: the operand of the computation

regs7 == <<regA, regV, regZ, counter>>
vars7 == <<state7, regA, regV, regZ, counter, operand>>

fini7     == state7 = "DONE"
Resultat7 == Low(regZ, nb_bits)

-----------------------------------------------------------------------------
\* The data path.  The comparator's port A is wired to orA and its port B to
\* regA, so its "inferior" output says orA < regA.
OrA == OrOp(regZ, regV, W)

\* Substituted for CompInf: the comparator as archi3 needs it.
Bug_PortsUnswapped == regA < OrA

CompInf == OrA < regA
RegA_E  == Mux2(AddSub(regA, OrA, TRUE, W), regA, CompInf)

\* A fault substituted for RegZ_E: the root register is shifted as far as the weight.
Bug_RootShiftedTwice == OrOp(regZ, Mux2(Low(2 * regV, W), 0, CompInf), W) \div 4

RegZ_E == OrOp(regZ, Mux2(Low(2 * regV, W), 0, CompInf), W) \div 2

Init7 == /\ state7 = "IDLE"
         /\ regA \in Operands
         /\ regV = pow2[nb_bits - 2] * pow2[nb_bits]
         /\ regZ = 0
         /\ counter = CountInit(nb_bits)
         /\ operand = regA

\* The asynchronous initialisation on the way back to IDLE.
Initialise7 == /\ regA' \in Operands
               /\ regV' = pow2[nb_bits - 2] * pow2[nb_bits]
               /\ regZ' = 0
               /\ counter' = CountInit(nb_bits)
               /\ UNCHANGED operand

\* A changes while regA follows it.
Track(a) == /\ state7 = "IDLE"
            /\ regA' = a
            /\ UNCHANGED <<state7, regV, regZ, counter, operand>>

\* A rising edge that finds debut high while IDLE.
Start7 == /\ state7 = "IDLE"
          /\ state7' = "COMPUTE"
          /\ operand' = regA
          /\ UNCHANGED regs7

Compute7 == /\ state7 = "COMPUTE"
            /\ state7' = IF CountEqZ(counter) THEN "DONE" ELSE "COMPUTE"
            /\ regA' = RegA_E
            /\ regV' = regV \div 4
            /\ regZ' = RegZ_E
            /\ counter' = CountDown(counter)
            /\ UNCHANGED operand

\* A rising edge while DONE: the controller waits for debut to be low and
\* then rewinds itself, which clears the root register.
Stay7   == state7 = "DONE" /\ UNCHANGED vars7
Rewind7 == state7 = "DONE" /\ state7' = "IDLE" /\ Initialise7

Reset7 == state7' = "IDLE" /\ Initialise7

Next7 == \/ \E a \in Operands : Track(a)
         \/ Start7 \/ Compute7 \/ Stay7 \/ Rewind7
         \/ Reset7

Spec7 == Init7 /\ [][Next7]_vars7

\* The clock runs: an edge comes while the controller computes.
FairSpec7 == Spec7 /\ WF_vars7(Compute7)

-----------------------------------------------------------------------------
(* Properties *)

\* Registers keep their widths, the counter wraps within its own.
TypeOK7 == /\ state7 \in TState
           /\ regA \in Bits(W) /\ regV \in Bits(W) /\ regZ \in Bits(W)
           /\ counter \in Bits(nb_bits) /\ operand \in Bits(W)

\* Counter and weight run in step: the last digit is computed with weight 1
\* and the count 0, so a started computation is DONE after nb_bits edges.
InStep == /\ state7 = "COMPUTE" => regV = pow2[2 * counter]
          /\ fini7 => regV = 0 /\ counter = pow2[nb_bits] - 1

\* The OR gates may replace adders: the digits in Z lie above the weight V,
\* so neither OR ever meets two ones, whatever digits were chosen; no vector
\* loses a bit and the weight reaches 1 with the last digit.
OrIsSum == /\ TypeOK7 /\ InStep
           /\ state7 = "COMPUTE" => /\ OrOp(regZ, regV, W) = regZ + regV
                                    /\ OrOp(regZ, 2 * regV, W) = regZ + 2 * regV

\* A started computation raises fini, unless reset gives it up.
Terminates7 == state7 = "COMPUTE" ~> (fini7 \/ state7 = "IDLE")

\* What sqrt_seq.vhd:13-16 say of the ports: with fini, Resultat is the root
\* of A.  The swapped comparator ports make archi7 miss it.
RootCorrect7 == fini7 => IsRoot(Resultat7, operand)

\* The swap is never hidden: no operand gets its root by luck.
NeverRoot == fini7 => ~ IsRoot(Resultat7, operand)

\* The swapped test is all that is wrong with archi7, and never harmless.
SwapAlone == OrIsSum /\ NeverRoot
=============================================================================
