----------------------------- MODULE SqrtLemmas -----------------------------
(***************************************************************************)
(* Facts about the arithmetic of SqrtArith that the proofs about the       *)
(* architectures cite: powers of two, truncation to a vector, and squares. *)
(***************************************************************************)
EXTENDS SqrtArith, ModLemmas, TLAPS

-----------------------------------------------------------------------------
(* Powers of two *)

\* f agrees with pow2's equation on 0 .. n.
Approx(f, n) == /\ f \in [0 .. n -> Nat]
                /\ f[0] = 1
                /\ \A i \in 1 .. n : f[i] = 2 * f[i - 1]

\* Every n has a function that satisfies the equation up to n.
LEMMA ApproxExists == \A n \in Nat : \E f : Approx(f, n)
<1> DEFINE S == {n \in Nat : \E f : Approx(f, n)}
<1>1. 0 \in S
  <2>1. Approx([i \in 0 .. 0 |-> 1], 0)
    BY DEF Approx
  <2> QED BY <2>1
<1>2. ASSUME NEW n \in Nat, n \in S PROVE n + 1 \in S
  <2>1. PICK f : Approx(f, n)
    BY <1>2
  <2> DEFINE g == [i \in 0 .. n + 1 |-> IF i = n + 1 THEN 2 * f[n] ELSE f[i]]
  <2>2. Approx(g, n + 1)
    BY <2>1 DEF Approx
  <2> QED BY <2>2
<1>3. Nat \subseteq S
  <2> HIDE DEF S
  <2> QED BY <1>1, <1>2, SetInduction
<1> QED BY <1>3

\* Two such functions agree wherever both are bound by the equation.
LEMMA ApproxUnique ==
  ASSUME NEW n \in Nat, NEW m \in Nat, m <= n,
         NEW f, NEW g, Approx(f, n), Approx(g, m)
  PROVE  f[m] = g[m]
<1> DEFINE S == {i \in Nat : i <= m => f[i] = g[i]}
<1>1. 0 \in S
  BY DEF Approx
<1>2. ASSUME NEW i \in Nat, i \in S PROVE i + 1 \in S
  <2>1. CASE i + 1 <= m
    <3>1. f[i + 1] = 2 * f[i] /\ g[i + 1] = 2 * g[i]
      BY <2>1 DEF Approx
    <3> QED BY <3>1, <2>1, <1>2
  <2>2. CASE ~(i + 1 <= m)
    BY <2>2
  <2> QED BY <2>1, <2>2
<1>3. Nat \subseteq S
  <2> HIDE DEF S
  <2> QED BY <1>1, <1>2, SetInduction
<1> QED BY <1>3

\* The recursive definition of pow2 defines a function with its equation.
LEMMA Pow2Def == pow2 = [n \in Nat |-> IF n = 0 THEN 1 ELSE 2 * pow2[n - 1]]
<1> DEFINE F(n) == CHOOSE f : Approx(f, n)
           p == [n \in Nat |-> F(n)[n]]
<1>1. \A n \in Nat : Approx(F(n), n)
  BY ApproxExists
<1>2. \A n \in Nat : p[n] = IF n = 0 THEN 1 ELSE 2 * p[n - 1]
  <2> SUFFICES ASSUME NEW n \in Nat
               PROVE  p[n] = IF n = 0 THEN 1 ELSE 2 * p[n - 1]
    OBVIOUS
  <2>1. p[n] = F(n)[n] /\ (n # 0 => p[n - 1] = F(n - 1)[n - 1])
    OBVIOUS
  <2>2. Approx(F(n), n) /\ (n # 0 => Approx(F(n - 1), n - 1))
    BY <1>1
  <2> HIDE DEF F, p
  <2>3. CASE n = 0
    BY <2>1, <2>2, <2>3 DEF Approx
  <2>4. CASE n # 0
    <3>1. n - 1 \in Nat /\ n \in 1 .. n
      BY <2>4
    <3>2. F(n)[n] = 2 * F(n)[n - 1]
      BY <2>2, <3>1 DEF Approx
    <3>3. F(n)[n - 1] = F(n - 1)[n - 1]
      BY <2>2, <2>4, <3>1, ApproxUnique
    <3> QED BY <2>1, <2>4, <3>2, <3>3
  <2> QED BY <2>3, <2>4
<1>3. p = [n \in Nat |-> IF n = 0 THEN 1 ELSE 2 * p[n - 1]]
  <2> DEFINE q == [n \in Nat |-> IF n = 0 THEN 1 ELSE 2 * p[n - 1]]
  <2>1. \A n \in Nat : p[n] = q[n]
    BY <1>2
  <2>2. p = [n \in Nat |-> p[n]] /\ q = [n \in Nat |-> q[n]]
    OBVIOUS
  <2> QED BY <2>1, <2>2
<1>4. \E f : f = [n \in Nat |-> IF n = 0 THEN 1 ELSE 2 * f[n - 1]]
  <2> HIDE DEF p
  <2> QED BY <1>3
<1> QED BY <1>4 DEF pow2

\* The equation of pow2 at zero.
LEMMA Pow2Zero == pow2[0] = 1
BY Pow2Def

\* The equation of pow2 at a successor: one bit more doubles the range.
LEMMA Pow2Succ == ASSUME NEW n \in Nat PROVE pow2[n + 1] = 2 * pow2[n]
<1>1. n + 1 \in Nat /\ n + 1 # 0 /\ (n + 1) - 1 = n
  OBVIOUS
<1> QED BY <1>1, Pow2Def

\* A power of two is a positive natural: no vector type is empty.
LEMMA Pow2Pos == \A n \in Nat : pow2[n] \in Nat /\ pow2[n] >= 1
<1> DEFINE S == {n \in Nat : pow2[n] \in Nat /\ pow2[n] >= 1}
<1>1. 0 \in S
  BY Pow2Zero
<1>2. ASSUME NEW n \in Nat, n \in S PROVE n + 1 \in S
  BY <1>2, Pow2Succ
<1>3. Nat \subseteq S
  <2> HIDE DEF S
  <2> QED BY <1>1, <1>2, SetInduction
<1> QED BY <1>3

\* Widths add where ranges multiply.
LEMMA Pow2Add ==
  \A m, n \in Nat : pow2[m + n] = pow2[m] * pow2[n]
<1> SUFFICES ASSUME NEW m \in Nat
             PROVE  \A n \in Nat : pow2[m + n] = pow2[m] * pow2[n]
  OBVIOUS
<1> DEFINE S == {n \in Nat : pow2[m + n] = pow2[m] * pow2[n]}
<1>1. 0 \in S
  BY Pow2Zero, Pow2Pos
<1>2. ASSUME NEW n \in Nat, n \in S PROVE n + 1 \in S
  <2>1. pow2[m + (n + 1)] = 2 * pow2[m + n]
    <3>1. m + n \in Nat /\ m + (n + 1) = (m + n) + 1
      OBVIOUS
    <3> QED BY <3>1, Pow2Succ
  <2>2. pow2[n + 1] = 2 * pow2[n]
    BY Pow2Succ
  <2>3. pow2[m] \in Nat /\ pow2[n] \in Nat
    BY Pow2Pos
  <2>4. 2 * (pow2[m] * pow2[n]) = pow2[m] * (2 * pow2[n])
    BY <2>3
  <2> QED BY <1>2, <2>1, <2>2, <2>4
<1>3. Nat \subseteq S
  <2> HIDE DEF S
  <2> QED BY <1>1, <1>2, SetInduction
<1> QED BY <1>3

\* A number needs fewer bits than it counts.
LEMMA BelowPow2 == \A n \in Nat : n < pow2[n]
<1> DEFINE S == {n \in Nat : n < pow2[n]}
<1>1. 0 \in S
  BY Pow2Zero
<1>2. ASSUME NEW n \in Nat, n \in S PROVE n + 1 \in S
  BY <1>2, Pow2Succ, Pow2Pos
<1>3. Nat \subseteq S
  <2> HIDE DEF S
  <2> QED BY <1>1, <1>2, SetInduction
<1> QED BY <1>3

-----------------------------------------------------------------------------
(* Truncation *)

\* A vector keeps a value that fits its width.
LEMMA LowFits ==
  ASSUME NEW w \in Nat, NEW x \in Int, 0 <= x, x < pow2[w]
  PROVE  Low(x, w) = x
<1>1. pow2[w] \in Nat
  BY Pow2Pos
<1>2. x = MulAdd(x, 0, pow2[w])
  BY <1>1 DEF MulAdd
<1> QED BY <1>1, <1>2, ModUnique DEF Low

\* A truncated value always has the width it was truncated to.
LEMMA LowRange ==
  ASSUME NEW w \in Nat, NEW x \in Int
  PROVE  Low(x, w) \in Bits(w)
<1>1. pow2[w] \in Nat /\ pow2[w] >= 1
  BY Pow2Pos
<1> QED BY <1>1 DEF Low, Bits

\* Truncating a product's factor first does not change the truncated sum.
LEMMA LowOfProduct ==
  ASSUME NEW w \in Nat, NEW a \in Int, NEW v \in Int, NEW b \in Int,
         NEW r \in Nat, r < pow2[w], r = MulAdd(a, v, b)
  PROVE  Low(MulAdd(a, v, Low(b, w)), w) = r
<1> DEFINE M == pow2[w]
           q == b \div M
           s == b % M
<1>1. M \in Nat /\ M >= 1
  BY Pow2Pos
<1>2. q \in Int /\ s \in Int /\ b = q * M + s
  <2>1. ASSUME NEW m \in Nat, m >= 1
        PROVE  b \div m \in Int /\ b % m \in Int /\ b = (b \div m) * m + (b % m)
    BY <2>1
  <2> HIDE DEF M
  <2> QED BY <1>1, <2>1
<1>3. Low(b, w) = s
  BY DEF Low
<1> HIDE DEF M, q, s
<1>4. a + v * s = r + (-(v * q)) * M
  <2>0. r = a + v * b
    BY DEF MulAdd
  <2>1. v * b = v * (q * M) + v * s
    BY <1>1, <1>2
  <2>2. v * (q * M) = (v * q) * M
    BY <1>1, <1>2
  <2>3. (-(v * q)) * M = -((v * q) * M)
    BY <1>1, <1>2
  <2> QED BY <2>0, <2>1, <2>2, <2>3, <1>1, <1>2
<1>5. (a + v * s) % M = r
  <2>1. -(v * q) \in Int /\ a + v * s \in Int
    BY <1>2
  <2>2. r < M
    BY DEF M
  <2> DEFINE x == a + v * s
             k == -(v * q)
  <2>3. x \in Int /\ k \in Int /\ x = MulAdd(r, k, M)
    BY <1>4, <2>1 DEF MulAdd
  <2> HIDE DEF x, k
  <2>4. x % M = r
    BY <1>1, <2>2, <2>3, ModUnique
  <2> QED BY <2>4 DEF x
<1> QED BY <1>3, <1>5 DEF Low, M, MulAdd

\* A vector of a wider one keeps what it would have kept of the value.
LEMMA LowOfLow ==
  ASSUME NEW w \in Nat, NEW v \in Nat, w <= v, NEW x \in Int
  PROVE  Low(Low(x, v), w) = Low(x, w)
<1> DEFINE M == pow2[w]
           D == pow2[v - w]
           q == x \div (D * M)
           s == x % (D * M)
           k == s \div M
           r == s % M
<1>1. M \in Nat /\ M >= 1 /\ D \in Nat /\ D >= 1 /\ pow2[v] = D * M
  <2>1. v - w \in Nat /\ v = (v - w) + w
    OBVIOUS
  <2>2. pow2[(v - w) + w] = pow2[v - w] * pow2[w]
    BY <2>1, Pow2Add
  <2> QED BY <2>1, <2>2, Pow2Pos
<1>2. Low(x, v) = s /\ Low(s, w) = r /\ Low(x, w) = x % M
  BY <1>1 DEF Low
<1>3. ASSUME NEW N \in Nat, N >= 1, NEW y \in Int
      PROVE  /\ y \div N \in Int /\ y % N \in Nat /\ y % N < N
             /\ y = N * (y \div N) + (y % N)
  BY <1>3
<1>4. D * M \in Nat /\ D * M >= 1
  <2> HIDE DEF D, M
  <2> QED BY <1>1
<1>5. q \in Int /\ s \in Nat /\ x = (D * M) * q + s
  BY <1>3, <1>4
<1>6. k \in Int /\ r \in Nat /\ r < M /\ s = M * k + r
  <2>1. M \in Nat /\ M >= 1 /\ s \in Int
    BY <1>1, <1>5
  <2> HIDE DEF M, s
  <2> QED BY <1>3, <2>1
<1> HIDE DEF M, D, q, s, k, r
<1>7. D * q + k \in Int /\ x = MulAdd(r, D * q + k, M)
  <2>1. (D * M) * q = (D * q) * M /\ (D * q + k) * M = (D * q) * M + M * k
    BY <1>1, <1>5, <1>6
  <2>2. D * q \in Int
    BY <1>1, <1>5
  <2> QED BY <1>1, <1>5, <1>6, <2>1, <2>2 DEF MulAdd
<1>8. x % M = r
  <2> DEFINE j == D * q + k
  <2>1. j \in Int /\ x = MulAdd(r, j, M)
    BY <1>7
  <2> HIDE DEF j
  <2> QED BY <1>1, <1>6, <2>1, ModUnique
<1> QED BY <1>2, <1>8

\* Truncating a summand first does not change the truncated sum.
LEMMA LowOfSum ==
  ASSUME NEW w \in Nat, NEW x \in Int, NEW y \in Int
  PROVE  Low(MulAdd(x, 1, Low(y, w)), w) = Low(MulAdd(x, 1, y), w)
<1>1. pow2[w] \in Nat \ {0}
  BY Pow2Pos
<1>2. ((y % pow2[w]) + x) % pow2[w] = (y + x) % pow2[w]
  BY <1>1, ModPlus
<1>3. y % pow2[w] \in Int
  BY <1>1
<1>4. x + (y % pow2[w]) = (y % pow2[w]) + x /\ x + y = y + x
  BY <1>3
<1>5. /\ MulAdd(x, 1, y % pow2[w]) = x + (y % pow2[w])
      /\ MulAdd(x, 1, y) = x + y
  BY <1>3 DEF MulAdd
<1> QED BY <1>2, <1>4, <1>5 DEF Low

-----------------------------------------------------------------------------
(* The weights of the digits and the widths of the vectors *)

USE WidthAssumption DEF W

\* The bound of the registers is the weight of the first digit times the
\* square of the count of prefixes, at every digit index.
LEMMA WeightBound ==
  ASSUME NEW i \in 0 .. nb_bits
  PROVE  /\ pow2[2 * (nb_bits - i)] \in Nat
         /\ pow2[W] = pow2[2 * (nb_bits - i)] * pow2[i] * pow2[i]
<1> DEFINE n == 2 * (nb_bits - i)
<1>1. n \in Nat /\ i \in Nat /\ W = (n + i) + i
  OBVIOUS
<1>2. pow2[W] = pow2[n + i] * pow2[i] /\ pow2[n + i] = pow2[n] * pow2[i]
  <2> HIDE DEF n
  <2>1. n + i \in Nat
    BY <1>1
  <2> QED BY <1>1, <2>1, Pow2Add
<1>3. pow2[n] \in Nat
  BY <1>1, Pow2Pos
<1> QED BY <1>2, <1>3

\* A digit edge divides the weight by four.
LEMMA WeightStep ==
  ASSUME NEW i \in 0 .. nb_bits - 1
  PROVE  \E u \in Nat : /\ u >= 1
                        /\ pow2[2 * (nb_bits - i)] = 4 * u
                        /\ pow2[2 * (nb_bits - (i + 1))] = u
<1> DEFINE n == 2 * (nb_bits - (i + 1))
<1>1. n \in Nat /\ 2 * (nb_bits - i) = (n + 1) + 1
  OBVIOUS
<1>2. pow2[(n + 1) + 1] = 2 * pow2[n + 1] /\ pow2[n + 1] = 2 * pow2[n]
  <2> HIDE DEF n
  <2> QED BY <1>1, Pow2Succ
<1>3. pow2[n] \in Nat /\ pow2[n] >= 1
  BY <1>1, Pow2Pos
<1> QED BY <1>1, <1>2, <1>3

\* The weight an IDLE edge loads is a quarter of the register bound.
LEMMA FirstWeight ==
  /\ pow2[nb_bits - 2] * pow2[nb_bits] \in Bits(W)
  /\ pow2[nb_bits - 2] * pow2[nb_bits] = pow2[2 * (nb_bits - 0)] \div 4
<1>1. PICK u \in Nat : /\ u >= 1 /\ pow2[2 * (nb_bits - 0)] = 4 * u
                       /\ pow2[2 * (nb_bits - (0 + 1))] = u
  BY WeightStep
<1>2. (nb_bits - 2) + nb_bits = 2 * (nb_bits - (0 + 1)) /\ 2 * (nb_bits - 0) = W
  OBVIOUS
<1>3. pow2[nb_bits - 2] * pow2[nb_bits] = u
  <2>1. nb_bits - 2 \in Nat /\ nb_bits \in Nat
    OBVIOUS
  <2>2. pow2[(nb_bits - 2) + nb_bits] = pow2[nb_bits - 2] * pow2[nb_bits]
    BY <2>1, Pow2Add
  <2> QED BY <2>2, <1>1, <1>2
<1> QED BY <1>1, <1>2, <1>3 DEF Bits

\* The root fits half the width, the operand has at least four bits, and the
\* count of the digits fits the vector that reports it.
LEMMA WidthsFit == /\ pow2[W] \in Nat /\ pow2[nb_bits] \in Nat
                   /\ pow2[W] = pow2[nb_bits] * pow2[nb_bits]
                   /\ pow2[nb_bits] >= 4 /\ pow2[nb_bits] <= pow2[W]
                   /\ nb_bits < pow2[W]
<1>1. \A n \in Nat : n < pow2[n]
  BY BelowPow2
<1>2. pow2[W] \in Nat /\ pow2[nb_bits] \in Nat
  BY Pow2Pos
<1>3. pow2[W] = pow2[nb_bits] * pow2[nb_bits]
  <2>1. W = nb_bits + nb_bits
    OBVIOUS
  <2> QED BY <2>1, Pow2Add
<1>4. pow2[nb_bits] >= 4
  <2> DEFINE n == nb_bits - 2
  <2>1. n \in Nat /\ nb_bits = (n + 1) + 1
    OBVIOUS
  <2> HIDE DEF n
  <2>2. pow2[(n + 1) + 1] = 2 * pow2[n + 1] /\ pow2[n + 1] = 2 * pow2[n]
    BY <2>1, Pow2Succ
  <2> QED BY <2>1, <2>2, Pow2Pos
<1>5. pow2[nb_bits] <= pow2[nb_bits] * pow2[nb_bits]
  <2>1. ASSUME NEW q \in Nat, q >= 4 PROVE q <= q * q
    BY <2>1
  <2> QED BY <2>1, <1>2, <1>4
<1>6. nb_bits < pow2[nb_bits]
  BY <1>1
<1> QED BY <1>2, <1>3, <1>4, <1>5, <1>6

-----------------------------------------------------------------------------
(* Order of squares *)

\* A smaller square has a smaller side.
LEMMA SquareOrder ==
  ASSUME NEW a \in Nat, NEW b \in Nat, a * a < b * b
  PROVE  a < b
<1>1. ASSUME b <= a PROVE FALSE
  <2>1. b * b <= a * a
    BY <1>1
  <2> QED BY <2>1
<1> QED BY <1>1

\* The operands 0 and 1 are their own roots.
LEMMA SmallRoots == ASSUME NEW a \in Nat, a < 2 PROVE IsRoot(a, a)
<1>1. a = 0 \/ a = 1
  OBVIOUS
<1> QED BY <1>1 DEF IsRoot

-----------------------------------------------------------------------------
(* One digit of the restoring square root *)

\* With the weight w = 4 * u of the digits known, and a below 4 * u * p * p,
\* the trial subtraction of Z + u decides the next digit: the sum does not
\* reach the bound, and both outcomes describe one digit more, with weight u.
LEMMA DigitStep ==
  ASSUME NEW a \in Nat, NEW X \in Nat, NEW m \in Nat, NEW u \in Nat, u >= 1,
         NEW p \in Nat, m < p,
         a = X + (4 * u) * m * m, X < (4 * u) * (2 * m + 1)
  PROVE  /\ (4 * u) * m + u < (4 * u) * p * p
         /\ ((4 * u) * m) \div 2 = u * (2 * m)
         /\ X < (4 * u) * m + u =>
              /\ a = X + u * (2 * m) * (2 * m)
              /\ X < u * (2 * (2 * m) + 1)
         /\ X >= (4 * u) * m + u =>
              /\ u * (2 * m) + u = u * (2 * m + 1)
              /\ u * (2 * m) + u < (4 * u) * p * p
              /\ a = (X - (4 * u) * m - u) + u * (2 * m + 1) * (2 * m + 1)
              /\ X - (4 * u) * m - u < u * (2 * (2 * m + 1) + 1)
<1> DEFINE k == u * m
           j == u * p
<1>1. k \in Nat /\ j \in Nat /\ k + u <= j
  <2>1. u * (m + 1) <= u * p
    OBVIOUS
  <2>2. u * (m + 1) = u * m + u
    OBVIOUS
  <2> QED BY <2>1, <2>2
<1>2. /\ (4 * u) * m = 4 * k
      /\ u * (2 * m) = 2 * k
      /\ u * (2 * m + 1) = 2 * k + u
      /\ u * (2 * (2 * m) + 1) = 4 * k + u
      /\ u * (2 * (2 * m + 1) + 1) = 4 * k + 3 * u
      /\ (4 * u) * (2 * m + 1) = 8 * k + 4 * u
  OBVIOUS
<1>3. /\ (4 * u) * m * m = 4 * (k * m)
      /\ u * (2 * m) * (2 * m) = 4 * (k * m)
      /\ u * (2 * m + 1) * (2 * m + 1) = 4 * (k * m) + 4 * k + u
  OBVIOUS
<1>4. j <= j * p /\ (4 * u) * p * p = 4 * (j * p)
  <2>1. p >= 1
    OBVIOUS
  <2>2. j * 1 <= j * p
    BY <2>1, <1>1
  <2>3. (4 * u) * p * p = 4 * ((u * p) * p)
    OBVIOUS
  <2> QED BY <2>2, <2>3, <1>1
<1>5. k * m \in Nat /\ j * p \in Nat
  BY <1>1
<1> HIDE DEF k, j
<1>6. (4 * k) \div 2 = 2 * k
  BY <1>1
<1> QED BY <1>1, <1>2, <1>3, <1>4, <1>5, <1>6

\* With the weight 1 all digits are known, and they are the root.
LEMMA LastDigit ==
  ASSUME NEW a \in Nat, NEW X \in Nat, NEW m \in Nat,
         a = X + 1 * m * m, X < 1 * (2 * m + 1)
  PROVE  IsRoot(m, a)
<1>1. (m + 1) * (m + 1) = m * m + 2 * m + 1
  OBVIOUS
<1> QED BY <1>1 DEF IsRoot

-----------------------------------------------------------------------------
(* Arithmetic of Newton's iteration *)

\* The quotient of a natural by a positive one, as a multiplication.
LEMMA Quotient ==
  ASSUME NEW a \in Nat, NEW R \in Nat, R >= 1
  PROVE  /\ a \div R \in Nat
         /\ R * (a \div R) <= a /\ a < R * ((a \div R) + 1)
OBVIOUS

\* A product with a bounded sum is at most the square of half the sum.
LEMMA ProductBound ==
  ASSUME NEW a \in Nat, NEW b \in Nat, NEW s \in Nat, a + b <= 2 * s
  PROVE  a * b <= s * s
<1>1. 4 * (a * b) <= (a + b) * (a + b)
  <2>1. (a - b) * (a - b) >= 0
    OBVIOUS
  <2> QED BY <2>1
<1>2. (a + b) * (a + b) <= (2 * s) * (2 * s)
  OBVIOUS
<1>3. (2 * s) * (2 * s) = 4 * (s * s)
  OBVIOUS
<1> QED BY <1>1, <1>2, <1>3

\* The next iterate of a from R.
Next_R(a, R) == (R + a \div R) \div 2

\* From any iterate up to a/2 + 1 that is not below the root, the sum loses
\* no bit and the next iterate is again neither below the root nor above
\* that bound.
LEMMA NewtonStep ==
  ASSUME NEW a \in Nat, a >= 1, a < pow2[W], NEW R \in Nat, R >= 1,
         R <= a \div 2 + 1, a < (R + 1) * (R + 1)
  PROVE  /\ R + a \div R \in Nat /\ R + a \div R < pow2[W]
         /\ Next_R(a, R) \in Nat /\ Next_R(a, R) >= 1
         /\ Next_R(a, R) <= a \div 2 + 1
         /\ a < (Next_R(a, R) + 1) * (Next_R(a, R) + 1)
<1> DEFINE q == a \div R
           h == Next_R(a, R)
<1>1. q \in Nat /\ R * q <= a /\ a < R * (q + 1)
  BY Quotient
<1>2. h = (R + q) \div 2
  BY DEF Next_R
<1> HIDE DEF q, h
<1>3. h \in Nat /\ 2 * h <= R + q /\ R + q <= 2 * h + 1
  BY <1>1, <1>2
<1>4. \E M2 \in Nat : pow2[W] = 2 * M2 /\ M2 >= 8
  <2>1. pow2[nb_bits] \in Nat /\ pow2[nb_bits] >= 4 /\ pow2[W] = pow2[nb_bits] * pow2[nb_bits]
    BY WidthsFit
  <2>2. pow2[nb_bits - 1] \in Nat /\ pow2[nb_bits] = 2 * pow2[nb_bits - 1]
    <3>1. nb_bits - 1 \in Nat /\ nb_bits = (nb_bits - 1) + 1
      OBVIOUS
    <3> QED BY <3>1, Pow2Succ, Pow2Pos
  <2>3. SUFFICES ASSUME NEW H \in Nat, NEW G \in Nat, H = 2 * G, H >= 4
                 PROVE  \E M2 \in Nat : H * H = 2 * M2 /\ M2 >= 8
    BY <2>1, <2>2
  <2>4. H * H = 2 * (G * H) /\ G * H \in Nat /\ G * H >= 8
    <3>1. G >= 2 /\ G * H >= 2 * H
      BY <2>3
    <3> QED BY <2>3, <3>1
  <2> QED BY <2>4
<1>5. PICK M2 \in Nat : pow2[W] = 2 * M2 /\ M2 >= 8
  BY <1>4
<1>6. CASE R = 1
  <2>1. a < 4 /\ q = a
    BY <1>6 DEF q
  <2> QED BY <1>3, <1>5, <1>6, <2>1, a = 1 \/ a = 2 \/ a = 3 DEF q, h
<1>7. CASE R >= 2
  <2>1. 2 * q <= a
    <3>1. 2 * q <= R * q
      BY <1>1, <1>7
    <3>2. R * q \in Nat
      BY <1>1
    <3> QED BY <1>1, <3>1, <3>2
  <2>2. q <= a \div 2 /\ R + q <= 2 * (a \div 2) + 1
    BY <1>1, <2>1
  <2>3. R + q < pow2[W]
    BY <1>1, <1>5, <2>2
  <2>4. h <= a \div 2 /\ h >= 1
    BY <1>1, <1>3, <1>7, <2>2
  <2>5. a < (h + 1) * (h + 1)
    <3>1. R + (q + 1) <= 2 * (h + 1)
      BY <1>1, <1>3
    <3>2. R * (q + 1) <= (h + 1) * (h + 1)
      BY <1>1, <1>3, <3>1, ProductBound
    <3>3. R * (q + 1) \in Nat /\ (h + 1) * (h + 1) \in Nat
      BY <1>1, <1>3
    <3> QED BY <1>1, <3>2, <3>3
  <2> QED BY <1>1, <1>3, <2>3, <2>4, <2>5 DEF q, h
<1> QED BY <1>6, <1>7

\* Above the root the iterate falls.
LEMMA NewtonFalls ==
  ASSUME NEW a \in Nat, NEW R \in Nat, R >= 1, a < R * R
  PROVE  Next_R(a, R) < R
<1> DEFINE q == a \div R
<1>1. q \in Nat /\ R * q <= a
  BY Quotient
<1>2. Next_R(a, R) = (R + q) \div 2
  BY DEF Next_R
<1> HIDE DEF q
<1>3. q < R
  <2>1. ASSUME q >= R PROVE FALSE
    <3>1. R * q >= R * R
      BY <1>1, <2>1
    <3>2. R * q \in Nat /\ R * R \in Nat
      BY <1>1
    <3> QED BY <1>1, <3>1, <3>2
  <2> QED BY <1>1, <2>1
<1> QED BY <1>1, <1>2, <1>3

\* Every natural has an integer square root.
LEMMA RootExists == ASSUME NEW a \in Nat PROVE \E r \in Nat : IsRoot(r, a)
<1> DEFINE T == {s \in Nat : a < (s + 1) * (s + 1)}
<1>1. a \in T
  <2>1. (a + 1) * (a + 1) = a * a + 2 * a + 1 /\ a * a >= 0
    OBVIOUS
  <2> QED BY <2>1
<1>2. PICK r \in T : \A y \in T : r <= y
  BY <1>1, LeastElement
<1>3. r * r <= a
  <2>1. CASE r = 0
    BY <2>1
  <2>2. CASE r # 0
    <3>1. r - 1 \in Nat /\ r - 1 \notin T
      BY <1>2, <2>2
    <3>2. (r - 1) + 1 = r
      BY <1>2
    <3> QED BY <1>2, <3>1, <3>2
  <2> QED BY <2>1, <2>2
<1> QED BY <1>2, <1>3 DEF IsRoot

\* An iterate not below the root: what squares bound, sides bound.
LEMMA NotBelow ==
  ASSUME NEW a \in Nat, NEW r \in Nat, IsRoot(r, a), NEW R \in Nat, a < (R + 1) * (R + 1)
  PROVE  r <= R
<1>1. r * r < (R + 1) * (R + 1)
  <2>1. r * r \in Nat /\ (R + 1) * (R + 1) \in Nat
    OBVIOUS
  <2> QED BY <2>1 DEF IsRoot
<1>2. r < R + 1
  BY <1>1, SquareOrder
<1> QED BY <1>2

\* From the root the iteration goes up by one at most.
LEMMA NewtonAtRoot ==
  ASSUME NEW a \in Nat, NEW r \in Nat, r >= 1, IsRoot(r, a)
  PROVE  Next_R(a, r) <= r + 1
<1> DEFINE q == a \div r
<1>1. q \in Nat /\ r * q <= a
  BY Quotient
<1>2. Next_R(a, r) = (r + q) \div 2
  BY DEF Next_R
<1> HIDE DEF q
<1>3. q <= r + 2
  <2>1. ASSUME q >= r + 3 PROVE FALSE
    <3>1. r * q >= r * (r + 3)
      BY <1>1, <2>1
    <3>2. r * (r + 3) = r * r + 3 * r /\ (r + 1) * (r + 1) = r * r + 2 * r + 1
      OBVIOUS
    <3>3. r * q \in Nat /\ r * r \in Nat
      BY <1>1
    <3> QED BY <1>1, <3>1, <3>2, <3>3 DEF IsRoot
  <2> QED BY <1>1, <2>1
<1> QED BY <1>1, <1>2, <1>3

\* Above the root an edge halves the excess; and an excess that is two or more
\* after the edge was larger than the square root of 2 * r before it.
LEMMA NewtonHalves ==
  ASSUME NEW a \in Nat, NEW r \in Nat, r >= 1, IsRoot(r, a), NEW e \in Nat, e >= 1,
         NEW h \in Nat, h = Next_R(a, r + e)
  PROVE  /\ 2 * (h - r) <= e
         /\ h >= r + 2 => e * e - 4 * e >= 2 * r
<1> DEFINE R == r + e
           q == a \div R
<1>1. R \in Nat /\ R >= 1
  OBVIOUS
<1>2. q \in Nat /\ R * q <= a
  <2> HIDE DEF R
  <2> QED BY <1>1, Quotient
<1>3. h = (R + q) \div 2
  BY DEF Next_R
<1>4. a <= r * r + 2 * r /\ r * r \in Nat
  <2>1. (r + 1) * (r + 1) = r * r + 2 * r + 1 /\ r * r \in Nat
    OBVIOUS
  <2> QED BY <2>1 DEF IsRoot
<1> HIDE DEF q
<1>5. q <= r
  <2>1. ASSUME q >= r + 1 PROVE FALSE
    <3>1. R * q >= (r + 1) * (r + 1)
      <4>1. R * q >= R * (r + 1)
        BY <1>1, <1>2, <2>1
      <4>2. R * (r + 1) >= (r + 1) * (r + 1)
        OBVIOUS
      <4>3. R * q \in Nat /\ R * (r + 1) \in Nat /\ (r + 1) * (r + 1) \in Nat
        BY <1>2
      <4> QED BY <4>1, <4>2, <4>3
    <3>2. (r + 1) * (r + 1) = r * r + 2 * r + 1 /\ R * q \in Nat
      BY <1>2
    <3> QED BY <1>2, <1>4, <3>1, <3>2
  <2> QED BY <1>2, <2>1
<1>6. 2 * (h - r) <= e
  BY <1>2, <1>3, <1>5
<1>7. ASSUME h >= r + 2 PROVE e * e - 4 * e >= 2 * r
  <2>1. q >= r + 4 - e
    BY <1>2, <1>3, <1>7
  <2>2. R * q >= R * (r + 4 - e)
    BY <1>1, <1>2, <2>1
  <2>3. R * (r + 4 - e) = r * r + 4 * r + 4 * e - e * e
    OBVIOUS
  <2>4. R * q \in Nat /\ e * e \in Nat
    BY <1>2
  <2> QED BY <1>2, <1>4, <2>2, <2>3, <2>4
<1> QED BY <1>6, <1>7

\* An excess of that size leaves the edges the rest of the iteration needs: as
\* h ranges over the powers of two, 4 * h is the bound of the root.
LEMMA PaceBound ==
  ASSUME NEW h \in Nat, h >= 1, NEW r \in Nat, r >= 1, r < 4 * h,
         NEW e \in Nat, e * e - 4 * e >= 2 * r
  PROVE  r * r < 2 * (e * (h * h))
<1>1. h * h \in Nat /\ h * h >= 1 /\ r * r \in Nat
  OBVIOUS
<1>2. e >= 5
  <2>1. e = 0 \/ e = 1 \/ e = 2 \/ e = 3 \/ e = 4 \/ e >= 5
    OBVIOUS
  <2> QED BY <2>1
<1>3. CASE e >= 8
  <2>1. e * (h * h) >= 8 * (h * h)
    BY <1>1, <1>3
  <2>2. r * r < (4 * h) * (4 * h)
    <3>1. r * r <= r * (4 * h) /\ r * (4 * h) < (4 * h) * (4 * h)
      OBVIOUS
    <3>2. r * r \in Nat /\ r * (4 * h) \in Nat /\ (4 * h) * (4 * h) \in Nat
      OBVIOUS
    <3> QED BY <3>1, <3>2
  <2>3. (4 * h) * (4 * h) = 16 * (h * h)
    OBVIOUS
  <2>4. e * (h * h) \in Nat
    BY <1>1
  <2> QED BY <1>1, <2>1, <2>2, <2>3, <2>4
<1>4. CASE e < 8
  <2>1. e = 5 \/ e = 6 \/ e = 7
    BY <1>2, <1>4
  <2>2. r <= 10 /\ (e = 5 => r <= 2) /\ (e = 6 => r <= 6)
    BY <2>1
  <2>3. ASSUME NEW b \in Nat, r <= b PROVE r * r <= b * b
    <3>1. r * r <= b * r /\ b * r <= b * b
      BY <2>3
    <3>2. r * r \in Nat /\ b * r \in Nat /\ b * b \in Nat
      OBVIOUS
    <3> QED BY <3>1, <3>2
  <2>4. r * r <= 100 /\ (e = 5 => r * r <= 4) /\ (e = 6 => r * r <= 36)
    <3>1. r * r <= 10 * 10 /\ (e = 5 => r * r <= 2 * 2) /\ (e = 6 => r * r <= 6 * 6)
      BY <2>2, <2>3
    <3> QED BY <3>1
  <2>5. CASE h = 1
    <3>1. r * r <= 3 * 3 /\ h * h = 1
      BY <2>3, <2>5
    <3> QED BY <1>1, <2>1, <3>1
  <2>6. CASE h = 2
    <3>1. r * r <= 7 * 7 /\ h * h = 4
      BY <2>3, <2>6
    <3> QED BY <1>1, <2>1, <2>4, <3>1
  <2>7. CASE h >= 3
    <3>1. h * h >= 9
      <4>1. h * h >= 3 * h
        BY <2>7
      <4> QED BY <1>1, <2>7, <4>1
    <3> QED BY <1>1, <2>1, <2>4, <3>1
  <2> QED BY <2>5, <2>6, <2>7
<1> QED BY <1>3, <1>4

\* An iterate that repeats is the root, and so is the next one.
LEMMA FixedPoint ==
  ASSUME NEW a \in Nat, NEW R \in Nat, R >= 1, a < (R + 1) * (R + 1),
         R = Next_R(a, R)
  PROVE  IsRoot(Next_R(a, R), a)
<1>1. ~(a < R * R)
  BY NewtonFalls
<1>2. R * R \in Nat
  OBVIOUS
<1> QED BY <1>1, <1>2 DEF IsRoot

\* An iterate that comes one above the previous one is one above the root,
\* of an operand just below a square, and the next one is the root.
LEMMA OneAbove ==
  ASSUME NEW a \in Nat, NEW P \in Nat, P >= 1, a < (P + 1) * (P + 1),
         Next_R(a, P) = P + 1
  PROVE  IsRoot(Next_R(a, P + 1), a)
<1> DEFINE q == a \div P
           R == P + 1
           k == a \div R
           h == Next_R(a, R)
<1>1. q \in Nat /\ P * q <= a
  BY Quotient
<1>2. (P + q) \div 2 = P + 1
  BY DEF Next_R
<1> HIDE DEF q
<1>3. q >= P + 2
  BY <1>1, <1>2
<1>4. P * (P + 2) <= a
  <2>1. P * (P + 2) <= P * q
    BY <1>1, <1>3
  <2>2. P * (P + 2) \in Nat /\ P * q \in Nat
    BY <1>1
  <2> QED BY <1>1, <2>1, <2>2
<1>5. /\ P * (P + 2) = P * P + 2 * P /\ (P + 1) * (P + 1) = P * P + 2 * P + 1
      /\ P * P \in Nat /\ a = P * P + 2 * P
  <2>1. P * (P + 2) = P * P + 2 * P /\ (P + 1) * (P + 1) = P * P + 2 * P + 1 /\ P * P \in Nat
    OBVIOUS
  <2> QED BY <1>4, <2>1
<1>6. R \in Nat /\ R >= 1 /\ a < R * R
  OBVIOUS
<1>7. k = P
  <2>1. k \in Nat /\ R * k <= a /\ a < R * (k + 1)
    <3> HIDE DEF R
    <3> QED BY <1>6, Quotient
  <2> HIDE DEF k
  <2>2. k < P + 1
    <3>1. ASSUME k >= P + 1 PROVE FALSE
      <4>1. (P + 1) * k >= (P + 1) * (P + 1)
        BY <2>1, <3>1
      <4>2. (P + 1) * k \in Nat
        BY <2>1
      <4> QED BY <2>1, <4>1, <4>2
    <3> QED BY <2>1, <3>1
  <2>3. k > P - 1
    <3>1. ASSUME k + 1 <= P PROVE FALSE
      <4>1. (P + 1) * (k + 1) <= (P + 1) * P
        BY <2>1, <3>1
      <4>2. (P + 1) * P = P * P + P /\ (P + 1) * (k + 1) \in Nat
        BY <2>1
      <4> QED BY <1>5, <2>1, <4>1, <4>2
    <3> QED BY <2>1, <3>1
  <2> QED BY <2>1, <2>2, <2>3
<1>8. h = P
  <2>1. h = (R + k) \div 2
    BY DEF Next_R
  <2> QED BY <1>7, <2>1
<1> QED BY <1>5, <1>8 DEF IsRoot

-----------------------------------------------------------------------------
(* Arithmetic of one iteration *)

\* The three outcomes of the comparison keep the root within u of the new
\* candidate, and the square of the candidate is updated without squaring.
LEMMA BracketStep ==
  ASSUME NEW a \in Nat, NEW Z \in Nat, NEW u \in Nat, u >= 1, NEW H \in Nat,
         2 * u <= Z, Z + 2 * u <= H,
         (Z - 2 * u) * (Z - 2 * u) <= a, a < (Z + 2 * u) * (Z + 2 * u)
  PROVE  /\ Z * Z + u * (u - 2 * Z) = (Z - u) * (Z - u)
         /\ Z * Z + u * (u + 2 * Z) = (Z + u) * (Z + u)
         /\ Z - u \in Nat /\ u <= Z - u /\ Z + u + u <= H
         /\ ((Z - u) - u) * ((Z - u) - u) <= a
         /\ a < ((Z + u) + u) * ((Z + u) + u)
         /\ (Z - u) * (Z - u) <= Z * Z /\ Z * Z < (Z + u) * (Z + u)
<1>1. /\ (Z - u) * (Z - u) = Z * Z - 2 * (Z * u) + u * u
      /\ (Z + u) * (Z + u) = Z * Z + 2 * (Z * u) + u * u
      /\ u * (u - 2 * Z) = u * u - 2 * (Z * u)
      /\ u * (u + 2 * Z) = u * u + 2 * (Z * u)
  OBVIOUS
<1>2. /\ (Z - u) - u = Z - 2 * u /\ (Z + u) + u = Z + 2 * u
      /\ Z - u \in Nat /\ u <= Z - u /\ Z + u + u <= H
  OBVIOUS
<1>3. u * u <= Z * u /\ u * u >= 1 /\ Z * u \in Nat
  <2>1. u * u <= Z * u
    OBVIOUS
  <2>2. u * u >= 1 /\ Z * u \in Nat
    OBVIOUS
  <2> QED BY <2>1, <2>2
<1>4. (Z - u) * (Z - u) <= Z * Z /\ Z * Z < (Z + u) * (Z + u)
  BY <1>1, <1>3
<1> QED BY <1>1, <1>2, <1>4

\* A candidate below 2**nb_bits has a square of W bits and a double that
\* loses no bit.
LEMMA SquareFits ==
  ASSUME NEW z \in Nat, z < pow2[nb_bits]
  PROVE  z * z < pow2[W] /\ 2 * z < pow2[W] /\ z < pow2[W]
<1> DEFINE H == pow2[nb_bits]
<1>1. H \in Nat /\ H >= 4 /\ pow2[W] = H * H
  BY WidthsFit
<1> HIDE DEF H
<1>2. z < H
  BY DEF H
<1>3. z * z < H * H
  <2>1. z * z <= z * H /\ z * H <= (H - 1) * H /\ (H - 1) * H = H * H - H
    BY <1>1, <1>2
  <2>2. z * z \in Nat /\ z * H \in Nat /\ H * H \in Nat
    BY <1>1
  <2> QED BY <2>1, <2>2, <1>1
<1>4. 2 * z < H * H
  <2>1. 2 * H <= H * H
    BY <1>1
  <2> QED BY <2>1, <1>1, <1>2
<1> QED BY <1>1, <1>3, <1>4

\* The product network: the low half of the double width sum of lines 168 and
\* 169 is the new square, also when the factor V - 2*Z is negative.
LEMMA Multiply ==
  ASSUME NEW x \in Bits(W), NEW v \in Bits(W), NEW b \in Int, NEW r \in Nat,
         r < pow2[W], r = x + v * b
  PROVE  Low(Low(x + v * Low(b, W), 2 * W), W) = r
<1> DEFINE M == pow2[W]
           l == Low(b, W)
<1>1. M \in Nat /\ M >= 1 /\ pow2[2 * W] = M * M /\ W \in Nat /\ 2 * W \in Nat
  <2>1. W \in Nat /\ 2 * W = W + W /\ 2 * W \in Nat
    OBVIOUS
  <2> HIDE DEF W
  <2>2. pow2[W + W] = pow2[W] * pow2[W]
    BY <2>1, Pow2Add
  <2> QED BY <2>1, <2>2, Pow2Pos
<1>2. l \in Nat /\ l < M /\ x \in Nat /\ x < M /\ v \in Nat /\ v < M
  <2>1. l \in Bits(W)
    BY <1>1, LowRange
  <2> HIDE DEF l
  <2> QED BY <1>1, <2>1 DEF Bits
<1>3. Low(x + v * l, W) = r
  <2>1. x \in Int /\ v \in Int /\ r = MulAdd(x, v, b)
    BY <1>2 DEF MulAdd
  <2>2. Low(MulAdd(x, v, Low(b, W)), W) = r
    <3> HIDE DEF W
    <3> QED BY <1>1, <2>1, LowOfProduct
  <2> QED BY <2>2 DEF MulAdd
<1> HIDE DEF M, l
<1>4. v * l <= M * M - M /\ v * l \in Nat
  <2>1. v * l <= (M - 1) * l
    BY <1>1, <1>2
  <2>2. (M - 1) * l <= (M - 1) * M
    BY <1>1, <1>2
  <2>3. (M - 1) * M = M * M - M
    BY <1>1
  <2>4. v * l \in Nat /\ (M - 1) * l \in Int /\ M * M \in Nat
    BY <1>1, <1>2
  <2> QED BY <2>1, <2>2, <2>3, <2>4, <1>1
<1>5. x + v * l \in Nat /\ x + v * l < M * M
  <2>1. M * M \in Nat
    BY <1>1
  <2> QED BY <2>1, <1>1, <1>2, <1>4
<1>6. Low(x + v * l, 2 * W) = x + v * l
  BY <1>1, <1>5, LowFits
<1> QED BY <1>3, <1>6 DEF l

\* The candidate and the bracket an IDLE edge loads.
LEMMA FirstBracket ==
  \E h \in Nat : /\ h = pow2[nb_bits - 2] /\ h >= 1
                 /\ pow2[nb_bits] = 4 * h /\ pow2[nb_bits - 1 - 0] = 2 * h
                 /\ pow2[W] = (4 * h) * (4 * h)
                 /\ h * (4 * h) \in Bits(W) /\ h \in Bits(W) /\ 2 * h \in Bits(W)
<1> DEFINE n == nb_bits - 2
           h == pow2[n]
<1>1. n \in Nat /\ nb_bits = (n + 1) + 1 /\ nb_bits - 1 - 0 = n + 1
  OBVIOUS
<1> HIDE DEF n
<1>2. /\ h \in Nat /\ h >= 1 /\ pow2[n + 1] = 2 * h
      /\ pow2[(n + 1) + 1] = 2 * pow2[n + 1]
  BY <1>1, Pow2Pos, Pow2Succ
<1>3. pow2[nb_bits] = 4 * h /\ pow2[nb_bits - 1 - 0] = 2 * h
  <2>1. pow2[nb_bits] = pow2[(n + 1) + 1] /\ pow2[nb_bits - 1 - 0] = pow2[n + 1]
    BY <1>1
  <2> QED BY <1>2, <2>1
<1>4. pow2[W] = (4 * h) * (4 * h)
  BY <1>3, WidthsFit
<1>5. h * (4 * h) \in Bits(W) /\ h \in Bits(W) /\ 2 * h \in Bits(W)
  <2> SUFFICES ASSUME NEW k \in Nat, k = h
               PROVE  /\ k * (4 * k) \in 0 .. (4 * k) * (4 * k) - 1
                      /\ k \in 0 .. (4 * k) * (4 * k) - 1
                      /\ 2 * k \in 0 .. (4 * k) * (4 * k) - 1
    BY <1>2, <1>4 DEF Bits
  <2>1. k >= 1 /\ k * k >= k /\ k * k \in Nat
    BY <1>2
  <2>2. (4 * k) * (4 * k) = 16 * (k * k) /\ k * (4 * k) = 4 * (k * k)
    OBVIOUS
  <2> QED BY <2>1, <2>2
<1> QED BY <1>2, <1>3, <1>4, <1>5 DEF n
=============================================================================
