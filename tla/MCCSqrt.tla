------------------------------ MODULE MCCSqrt ------------------------------
(* Model-checking instance of CSqrt: an unsigned int of 8 bits and every   *)
(* value of it as argument.                                                *)
EXTENDS CSqrt

MCArguments == 0 .. 255
=============================================================================
