------------------------------ MODULE MCArchi7 ------------------------------
(* Model-checking instance of Archi7: a 4-bit root, and for each of its 16 *)
(* values k the smallest, a middle and the largest 8-bit operand whose     *)
(* root is k.                                                              *)
EXTENDS Archi7

MCOperands == {k * k + d * k : k \in 0 .. 15, d \in 0 .. 2}
MCPowerUp  == {0, 255}
=============================================================================
