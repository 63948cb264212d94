------------------------------ MODULE Datapath ------------------------------
(***************************************************************************)
(* The library of combinational and register components that archi6 and    *)
(* archi7 wire together, each as what its outputs are for given inputs.    *)
(* Vectors are naturals, so a component takes the width it is generic in.  *)
(***************************************************************************)
EXTENDS SqrtArith

\* Definitions named Bug_... are faults a slip in the code would make.  No
\* specification uses them; each is substituted for the definition after it
\* to see that a property notices.

\* add_sub: Op inverts B and sets the carry in; S drops the carry out.
AddSub(a, b, op, w) == IF op THEN Low(a - b, w) ELSE Low(a + b, w)

\* mux2_1, and mux3_1 whose sel(1) wins over sel(0)
Mux2(i0, i1, sel)             == IF sel THEN i1 ELSE i0
Mux3(i0, i1, i2, sel1, sel0)  == IF sel1 THEN i2 ELSE IF sel0 THEN i1 ELSE i0

\* or_op: each bit of S is the or of those of A and B.
Bit(x, i) == (x \div pow2[i]) % 2

OrOp(a, b, w) ==
  CHOOSE s \in Bits(w) :
    \A i \in 0 .. w - 1 : Bit(s, i) = 1 <=> (Bit(a, i) = 1 \/ Bit(b, i) = 1)

\* decompteur: the value Init loads, the count after one enabled edge, ceqz
CountInit(nb_iter) == nb_iter - 1
CountDown(c)       == Low(c - 1, nb_bits)
CountEqZ(c)        == c = 0

\* shifter: the w-bit vector a shifted left by dec into 2*w bits, its sign
\* bit repeated above.
SignedValue(a, w)  == IF 2 * a >= pow2[w] THEN a - pow2[w] ELSE a

Bug_ShifterUnsigned(a, dec, w) == Low(a * pow2[dec], 2 * w)

Shifter(a, dec, w) == Low(SignedValue(a, w) * pow2[dec], 2 * w)
=============================================================================
