----------------------------- MODULE MCJtagUart -----------------------------
(* A small instance of the two drivers.                                    *)
EXTENDS JtagUart

\* One that only prints, on a cable that may be pulled, and sets its timeout;
\* one that only reads, there too; one that does both, without a clock, whose
\* characters are not told apart; and one built with the small driver.
MCPrograms == {
  [calls |-> {"write", "close", "ioctl"}, flags |-> BOOLEAN, cable |-> TRUE,
   clock |-> TRUE, small |-> FALSE, numbers |-> 4],
  [calls |-> {"read"}, flags |-> BOOLEAN, cable |-> TRUE, clock |-> TRUE,
   small |-> FALSE, numbers |-> 4],
  [calls |-> {"read", "write"}, flags |-> BOOLEAN, cable |-> FALSE,
   clock |-> FALSE, small |-> FALSE, numbers |-> 1],
  [calls |-> {"read", "write"}, flags |-> BOOLEAN, cable |-> TRUE,
   clock |-> FALSE, small |-> TRUE, numbers |-> 4]}
=============================================================================
