------------------------------- MODULE Archi6 -------------------------------
(***************************************************************************)
(* Architecture archi6 of sqrt_seq: the algorithm of archi2 built from     *)
(* components, a shifter in the place of the multipliers; names that both  *)
(* architectures use carry a 6 here.  Its registers                        *)
(* are initialised asynchronously as long as the controller is IDLE, so    *)
(* regA follows the port A there and holds it from the starting edge on.   *)
(*                                                                         *)
(* Resultat is assigned in DONE by a process that is not sensitive to the   *)
(* assigned value: an event driven simulation assigns it when the state or  *)
(* debut changes, with the value from before the edge; a synthesised latch *)
(* follows the value throughout DONE.  Latch chooses between the two.      *)
(***************************************************************************)
EXTENDS SqrtEntity, Datapath

CONSTANT Latch        \* "event" or "transparent"

ASSUME LatchAssumption == Latch \in {"event", "transparent"}

VARIABLES state6, debut,            \* controller, start input
          regA, regX, regV, regZ,   \* operand, square, step, root
          counter,                  \* down counter, the shift distance
          Resultat6                 \* output latch

regs6 == <<regA, regX, regV, regZ, counter>>
vars6 == <<state6, debut, regA, regX, regV, regZ, counter, Resultat6>>

fini6 == state6 = "DONE"

-----------------------------------------------------------------------------
\* The data path; s_end marks the states that add or subtract one.
CompEq  == regX = regA
CompSup == regX > regA
MuxV(s_end)   == Mux3(regV, 0, 1, s_end, CompEq)
RegZ_E(s_end) == AddSub(regZ, MuxV(s_end), CompSup, nb_bits)

\* A fault substituted for RegR_E: the correction is taken unconditionally.
Bug_RegRUnselected(s_end) == RegZ_E(s_end)

RegR_E(s_end) == Mux2(regZ, RegZ_E(s_end), CompSup)
Shift_E       == AddSub(regV, 2 * regZ, CompSup, nb_bits + 2)
Shift_S       == Low(Shifter(Shift_E, counter, nb_bits + 2), W)
RegX_E        == AddSub(regX, Mux2(Shift_S, 0, CompEq), FALSE, W)

Init6 == /\ state6 = "IDLE" /\ debut = FALSE
         /\ regA \in Operands
         /\ regX = pow2[nb_bits - 2] * pow2[nb_bits]
         /\ regV = pow2[nb_bits - 2]
         /\ regZ = 2 * pow2[nb_bits - 2]
         /\ counter = CountInit(nb_bits - 1)
         /\ Resultat6 \in {Low(p, nb_bits) : p \in PowerUp}

\* The asynchronous initialisation on the way back to IDLE.
Initialise6 == /\ regA' \in Operands
               /\ regX' = pow2[nb_bits - 2] * pow2[nb_bits]
               /\ regV' = pow2[nb_bits - 2]
               /\ regZ' = 2 * pow2[nb_bits - 2]
               /\ counter' = CountInit(nb_bits - 1)

\* debut changes between two edges.  In DONE this runs the output process.
SetDebut(d) == /\ debut # d
               /\ debut' = d
               /\ Resultat6' = IF state6 = "DONE" THEN RegR_E(TRUE) ELSE Resultat6
               /\ UNCHANGED <<state6, regs6>>

\* A changes while regA follows it.
Track(a) == /\ state6 = "IDLE"
            /\ regA' = a
            /\ UNCHANGED <<state6, debut, regX, regV, regZ, counter, Resultat6>>

Start6 == /\ state6 = "IDLE" /\ debut
          /\ state6' = "COMPUTE"
          /\ UNCHANGED <<debut, regs6, Resultat6>>

Compute6 == /\ state6 = "COMPUTE"
            /\ state6' = IF CountEqZ(counter) THEN "FINISHED" ELSE "COMPUTE"
            /\ regX' = RegX_E
            /\ regV' = regV \div 2
            /\ regZ' = RegZ_E(FALSE)
            /\ counter' = CountDown(counter)
            /\ UNCHANGED <<debut, regA, Resultat6>>

\* The last edge loads the registers once more and opens the output latch.
Finish == /\ state6 = "FINISHED"
          /\ state6' = "DONE"
          /\ regX' = RegX_E
          /\ regV' = regV \div 2
          /\ regZ' = RegZ_E(TRUE)
          /\ UNCHANGED <<debut, regA, counter>>
          /\ Resultat6' = IF Latch = "event" THEN RegR_E(TRUE) ELSE RegR_E(TRUE)'

\* The controller stays DONE while debut is high and then rewinds itself.
Stay6   == state6 = "DONE" /\ debut /\ UNCHANGED vars6
Rewind == /\ state6 = "DONE" /\ ~debut
          /\ state6' = "IDLE"
          /\ Initialise6
          /\ UNCHANGED <<debut, Resultat6>>

Reset6 == /\ state6' = "IDLE"
          /\ Initialise6
          /\ UNCHANGED <<debut, Resultat6>>

Next6 == \/ \E d \in BOOLEAN : SetDebut(d)
         \/ \E a \in Operands : Track(a)
         \/ Start6 \/ Compute6 \/ Finish \/ Stay6 \/ Rewind
         \/ Reset6

Spec6 == Init6 /\ [][Next6]_vars6

\* A handshake that leaves debut alone while fini is raised: a pulse that is
\* down again by then, as the test bench gives, or a level that stays up.
Handshake == debut' # debut => state6 # "DONE"

HandshakeSpec == Init6 /\ [][Next6 /\ Handshake]_vars6

\* The clock runs: an edge comes while the controller is busy.
FairHandshakeSpec == HandshakeSpec /\ WF_vars6(Compute6) /\ WF_vars6(Finish)

-----------------------------------------------------------------------------
(* Properties *)

\* Registers keep their widths, the counter wraps within its own.
TypeOK6 == /\ state6 \in TState \cup {"FINISHED"} /\ debut \in BOOLEAN
           /\ regA \in Bits(W) /\ regX \in Bits(W)
           /\ regV \in Bits(nb_bits) /\ regZ \in Bits(nb_bits)
           /\ counter \in Bits(nb_bits) /\ Resultat6 \in Bits(nb_bits)

\* The iterations left, from the shift distance and the state.
ToGo == IF state6 = "FINISHED" THEN 0 ELSE counter + 1

\* The shifter stands for the multiplication (V is always 2**counter when it
\* is used), X is the square of Z although V - 2*Z is negative, and the root
\* lies within 2**ToGo of Z on either side.
RootBracketed6 ==
    state6 \in {"COMPUTE", "FINISHED"} =>
        LET w == pow2[ToGo] IN
        /\ regV = w \div 2
        /\ regX = regZ * regZ
        /\ w <= regZ /\ regZ + w <= pow2[nb_bits]
        /\ (regZ - w) * (regZ - w) <= regA /\ regA < (regZ + w) * (regZ + w)

\* Both: what the registers hold is exactly the bracket around the root.
Archi6Bracketed == TypeOK6 /\ RootBracketed6

\* While fini is raised the latch shows the root of the operand captured by
\* the starting edge.  It holds of the event driven latch as long as debut is
\* left alone in DONE.
RootCorrect6 == fini6 => IsRoot(Resultat6, regA)

\* Under the handshake the architecture implements the service, its
\* delivery included.
Service6 == INSTANCE SqrtService WITH
               phase <- IF state6 = "FINISHED" THEN "COMPUTE" ELSE state6,
               operand <- regA, result <- Resultat6, PowerUp <- Operands

Archi6ImplementsService == Service6!FairSpec
=============================================================================
