------------------------------ MODULE MCArchi1 ------------------------------
(* Model-checking instance of Archi1: a 4-bit root, and for each of its    *)
(* values k the smallest, a middle and the largest 8-bit operand whose     *)
(* root is k; registers power up and the divider answers a zero divisor    *)
(* all zeros or all ones.                                                  *)
EXTENDS Archi1

MCOperands  == {k * k + d * k : k \in 1 .. 15, d \in 0 .. 2}
MCAll       == MCOperands \cup {0}
MCPowerUp   == {0, 255}
MCDivByZero == {0, 255}
=============================================================================
