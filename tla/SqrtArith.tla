----------------------------- MODULE SqrtArith -----------------------------
(***************************************************************************)
(* What the architectures of entity sqrt_seq share: the generic nb_bits,   *)
(* the bit vectors as naturals below a power of two, the truncation of an  *)
(* unsigned result to a vector, and the integer square root the entity     *)
(* promises.                                                               *)
(***************************************************************************)
EXTENDS Integers

CONSTANT nb_bits    \* width of Resultat; the operand A has 2 * nb_bits bits

\* Every sequential architecture loads a constant 2**(nb_bits-2), so a width
\* below 2 does not elaborate.
ASSUME WidthAssumption == nb_bits \in Nat /\ nb_bits >= 2

\* VHDL's 2**n, as a recursive function so that it can be reasoned about.
pow2[n \in Nat] == IF n = 0 THEN 1 ELSE 2 * pow2[n - 1]

W == 2 * nb_bits                    \* width of A and of the work registers

Bits(w)   == 0 .. pow2[w] - 1       \* std_logic_vector(w-1 downto 0)
Low(x, w) == x % pow2[w]            \* what a w-bit vector keeps of x

TState == {"IDLE", "COMPUTE", "DONE"}

\* r is the integer square root of a.
IsRoot(r, a) == r * r <= a /\ a < (r + 1) * (r + 1)
=============================================================================
