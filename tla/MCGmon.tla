------------------------------- MODULE MCGmon -------------------------------
(* A small instance of AltGmon: two functions, one of them called from two *)
(* places.                                                                 *)
EXTENDS AltGmon

MCCallSites == {[self |-> "f", from |-> "main"], [self |-> "f", from |-> "isr"],
                [self |-> "g", from |-> "main"]}
=============================================================================
