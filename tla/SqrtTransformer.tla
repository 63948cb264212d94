-------------------------- MODULE SqrtTransformer --------------------------
(***************************************************************************)
(* Entity sqrt_transformer, the combinational stage that fixes one digit,  *)
(* and the constants archi4 and archi5 feed to their first stage.  A stage *)
(* is wired by three buses: X the remainder, Z the root so far, V the      *)
(* weight of the next digit.                                               *)
(***************************************************************************)
EXTENDS SqrtArith

CONSTANT BusPowerUp   \* what an undriven bus or an uninitialised rank shows

ASSUME BusPowerUpAssumption == BusPowerUp \subseteq Bits(W)

VARIABLE tab          \* s_X_tab, s_Z_tab, s_V_tab

Buses == [X : Bits(W), Z : Bits(W), V : Bits(W)]

\* Nothing has been driven or clocked yet.
Undriven == \E p \in BusPowerUp : tab = [i \in 0 .. nb_bits |-> [X |-> p, Z |-> p, V |-> p]]

\* The output port, wired to the last Z.
CascadeResultat == Low(tab[nb_bits].Z, nb_bits)

\* s_X_tab(0), s_Z_tab(0), s_V_tab(0)
Feed(a) == [X |-> a, Z |-> 0, V |-> pow2[nb_bits - 2] * pow2[nb_bits]]

\* Definitions named Bug_... are faults a slip in the code would make.  No
\* specification uses them; each is substituted for the definition after it
\* to see that a property notices.

\* The trial subtraction succeeds: the next digit is 1.
Fits(b) == Low(b.Z + b.V, W) <= b.X

Bug_TransformUnweighted(b) ==
    [X |-> IF Fits(b) THEN Low(b.X - b.Z - b.V, W) ELSE b.X,
     Z |-> IF Fits(b) THEN Low(b.Z \div 2 + b.V, W) ELSE b.Z \div 2,
     V |-> b.V \div 2]

Transform(b) ==
    [X |-> IF Fits(b) THEN Low(b.X - b.Z - b.V, W) ELSE b.X,
     Z |-> IF Fits(b) THEN Low(b.Z \div 2 + b.V, W) ELSE b.Z \div 2,
     V |-> b.V \div 4]

\* What the buses after i stages say of operand a: with w the weight that
\* separates the i digits known from the others, Z holds those digits m, X
\* holds exactly what is left of a, and m cannot be increased.
HoldDigits(b, a, i) ==
    LET w == pow2[2 * (nb_bits - i)] IN
    \E m \in Bits(i) : /\ b.Z = w * m
                       /\ a = b.X + w * m * m
                       /\ b.X < w * (2 * m + 1)
                       /\ b.V = w \div 4
=============================================================================
