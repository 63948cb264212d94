------------------------------ MODULE MCArchi6 ------------------------------
(* Model-checking instance of Archi6: a 4-bit root, and for each of its 16 *)
(* values k the smallest, a middle and the largest 8-bit operand whose     *)
(* root is k; the latch powers up all zeros or all ones.                   *)
EXTENDS Archi6

MCOperands == {k * k + d * k : k \in 0 .. 15, d \in 0 .. 2}
MCPowerUp  == {0, 255}
=============================================================================
