----------------------------- MODULE SqrtEntity -----------------------------
(***************************************************************************)
(* The ports of entity sqrt_seq as the clocked architectures see them: the *)
(* operands that appear on A, and the registers' contents at power-up.     *)
(***************************************************************************)
EXTENDS SqrtArith

CONSTANTS Operands,   \* values the environment puts on A
          PowerUp     \* contents an uninitialised register may power up with

ASSUME OperandsAssumption == Operands \subseteq Bits(W)
ASSUME PowerUpAssumption  == PowerUp \subseteq Bits(W)
=============================================================================
