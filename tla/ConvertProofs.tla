--------------------------- MODULE ConvertProofs ---------------------------
(***************************************************************************)
(* Arguments and verdicts of the spec-runner mean what the corpus says,    *)
(* for bytes and floats of every width and objects of every shape.         *)
(***************************************************************************)
EXTENDS ConvertProps, SequenceTheorems, WellFoundedInduction, TLAPS

-----------------------------------------------------------------------------
(* Induction on numbers.                                                   *)

\* A set of numbers has a least one.
LEMMA LeastOf ==
  ASSUME NEW T, T \subseteq Nat, T # {}
  PROVE  \E x \in T : \A y \in T : x <= y
<1> DEFINE R == OpToRel(<, Nat)
<1>1. IsWellFoundedOn(R, Nat)
  BY NatLessThanWellFounded
<1>2. \A x, y \in Nat : y < x => <<y, x>> \in R
  BY DEF OpToRel
<1> HIDE DEF R
<1> PICK x \in T : \A y \in T : ~ (<<y, x>> \in R)
  BY <1>1, WFMin
<1>3. ASSUME NEW y \in T
      PROVE  x <= y
  <2>1. x \in Nat /\ y \in Nat /\ ~ (y < x)
    BY <1>2
  <2> QED
    BY <2>1
<1> QED
  BY <1>3

\* A set with 0 and every successor of a number it has, has every number.
LEMMA InductionOn ==
  ASSUME NEW T, 0 \in T, \A n \in Nat : n \in T => n + 1 \in T
  PROVE  \A n \in Nat : n \in T
<1> SUFFICES ASSUME Nat \ T # {}
             PROVE  FALSE
  OBVIOUS
<1>1. PICK x \in Nat \ T : \A y \in Nat \ T : x <= y
  BY LeastOf
<1>2. x # 0 /\ x - 1 \in Nat
  OBVIOUS
<1>3. x - 1 \in T
  BY <1>1, <1>2
<1> QED
  BY <1>2, <1>3

-----------------------------------------------------------------------------
(* Powers of two.                                                          *)

\* The powers up to n.
Powers(g, n) == g = [i \in 0..n |-> IF i = 0 THEN 1 ELSE 2 * g[i - 1]]

LEMMA PowersSame ==
  ASSUME NEW m \in Nat, NEW n \in Nat, NEW g, NEW h, Powers(g, m), Powers(h, n)
  PROVE  \A k \in Nat : k <= m /\ k <= n => g[k] = h[k]
<1> DEFINE T == {k \in Nat : k <= m /\ k <= n => g[k] = h[k]}
<1>0. /\ \A i \in 0..m : g[i] = IF i = 0 THEN 1 ELSE 2 * g[i - 1]
      /\ \A i \in 0..n : h[i] = IF i = 0 THEN 1 ELSE 2 * h[i - 1]
  BY DEF Powers
<1>1. 0 \in T
  BY <1>0
<1>2. ASSUME NEW k \in Nat, k \in T
      PROVE  k + 1 \in T
  <2>1. k + 1 \in Nat /\ k + 1 # 0 /\ (k + 1) - 1 = k
    OBVIOUS
  <2>2. k + 1 <= m /\ k + 1 <= n => g[k + 1] = h[k + 1]
    BY <1>0, <1>2, <2>1
  <2> QED
    BY <2>1, <2>2
<1>3. \A k \in Nat : k \in T
  <2> HIDE DEF T
  <2> QED
    BY <1>1, <1>2, InductionOn
<1> QED
  BY <1>3

LEMMA PowersExist == \A n \in Nat : \E g : Powers(g, n)
<1> DEFINE T == {n \in Nat : \E g : Powers(g, n)}
<1>1. 0 \in T
  <2> DEFINE g == [i \in 0..0 |-> 1]
  <2>1. g = [i \in 0..0 |-> IF i = 0 THEN 1 ELSE 2 * g[i - 1]]
    OBVIOUS
  <2> HIDE DEF g
  <2> QED
    BY <2>1 DEF Powers
<1>2. ASSUME NEW n \in Nat, n \in T
      PROVE  n + 1 \in T
  <2> PICK g : Powers(g, n)
    BY <1>2
  <2> DEFINE h == [i \in 0 .. n + 1 |-> IF i = n + 1 THEN 2 * g[n] ELSE g[i]]
  <2>1. \A i \in 0..n : g[i] = IF i = 0 THEN 1 ELSE 2 * g[i - 1]
    BY DEF Powers
  <2>2. ASSUME NEW i \in 0 .. n + 1
        PROVE  h[i] = IF i = 0 THEN 1 ELSE 2 * h[i - 1]
    <3>1. CASE i = n + 1
      <4>1. i # 0 /\ i - 1 = n /\ n \in 0 .. n + 1 /\ n # n + 1
        BY <3>1
      <4> QED
        BY <3>1, <4>1
    <3>2. CASE i # n + 1
      <4>1. i \in 0..n /\ (i # 0 => i - 1 \in 0 .. n + 1 /\ i - 1 # n + 1)
        BY <3>2
      <4> QED
        BY <2>1, <3>2, <4>1
    <3> QED
      BY <3>1, <3>2
  <2>3. h = [i \in 0 .. n + 1 |-> h[i]]
    OBVIOUS
  <2> HIDE DEF h
  <2>4. h = [i \in 0 .. n + 1 |-> IF i = 0 THEN 1 ELSE 2 * h[i - 1]]
    BY <2>2, <2>3
  <2> QED
    BY <2>4 DEF Powers
<1>3. \A n \in Nat : n \in T
  <2> HIDE DEF T
  <2> QED
    BY <1>1, <1>2, InductionOn
<1> QED
  BY <1>3

\* The recursion has a solution, so Pow2 is one.
LEMMA Pow2Is ==
  /\ Pow2[0] = 1
  /\ \A n \in Nat : Pow2[n + 1] = 2 * Pow2[n]
<1> DEFINE g(n) == CHOOSE g : Powers(g, n)
           f    == [n \in Nat |-> g(n)[n]]
           R(x) == x = [n \in Nat |-> IF n = 0 THEN 1 ELSE 2 * x[n - 1]]
<1>1. \A n \in Nat : Powers(g(n), n)
  BY PowersExist
<1> HIDE DEF g
<1>2. ASSUME NEW n \in Nat
      PROVE  f[n] = IF n = 0 THEN 1 ELSE 2 * f[n - 1]
  <2>1. n \in 0..n /\ f[n] = g(n)[n]
    OBVIOUS
  <2>2. g(n)[n] = IF n = 0 THEN 1 ELSE 2 * g(n)[n - 1]
    BY <1>1, <2>1 DEF Powers
  <2>3. ASSUME n # 0
        PROVE  g(n)[n - 1] = f[n - 1]
    <3>1. n - 1 \in Nat /\ n - 1 <= n /\ n - 1 <= n - 1
      BY <2>3
    <3>2. g(n)[n - 1] = g(n - 1)[n - 1]
      BY <1>1, <3>1, PowersSame
    <3> QED
      BY <3>1, <3>2
  <2> QED
    BY <2>1, <2>2, <2>3
<1>3. f = [n \in Nat |-> f[n]]
  OBVIOUS
<1> HIDE DEF f
<1>4. R(f)
  BY <1>2, <1>3
<1>5. Pow2 = CHOOSE x : R(x)
  BY DEF Pow2
<1>6. R(Pow2)
  <2> HIDE DEF R
  <2> QED
    BY <1>4, <1>5
<1>7. \A n \in Nat : Pow2[n] = IF n = 0 THEN 1 ELSE 2 * Pow2[n - 1]
  BY <1>6
<1>8. \A n \in Nat : n + 1 \in Nat /\ n + 1 # 0 /\ (n + 1) - 1 = n
  OBVIOUS
<1> QED
  BY <1>7, <1>8

LEMMA Pow2Positive == \A n \in Nat : Pow2[n] \in Nat /\ Pow2[n] > 0
<1> DEFINE T == {n \in Nat : Pow2[n] \in Nat /\ Pow2[n] > 0}
<1>1. 0 \in T
  BY Pow2Is
<1>2. ASSUME NEW n \in Nat, n \in T
      PROVE  n + 1 \in T
  <2>1. Pow2[n + 1] = 2 * Pow2[n] /\ Pow2[n] \in Nat /\ Pow2[n] > 0
    BY <1>2, Pow2Is
  <2> QED
    BY <2>1
<1>3. \A n \in Nat : n \in T
  <2> HIDE DEF T
  <2> QED
    BY <1>1, <1>2, InductionOn
<1> QED
  BY <1>3

\* A product of powers is the power of the sum.
LEMMA Pow2Adds == \A m, n \in Nat : Pow2[m + n] = Pow2[m] * Pow2[n]
<1> TAKE m \in Nat
<1> DEFINE T == {n \in Nat : Pow2[m + n] = Pow2[m] * Pow2[n]}
<1>1. 0 \in T
  <2>1. m + 0 = m /\ Pow2[m] * 1 = Pow2[m]
    BY Pow2Positive
  <2> QED
    BY <2>1, Pow2Is
<1>2. ASSUME NEW n \in Nat, n \in T
      PROVE  n + 1 \in T
  <2> DEFINE p == Pow2[m]
             q == Pow2[n]
  <2>1. p \in Nat /\ q \in Nat /\ m + n \in Nat /\ m + (n + 1) = (m + n) + 1
    BY Pow2Positive
  <2>2. Pow2[m + (n + 1)] = 2 * (p * q) /\ Pow2[n + 1] = 2 * q
    BY <1>2, <2>1, Pow2Is
  <2> HIDE DEF p, q
  <2>3. 2 * (p * q) = p * (2 * q)
    BY <2>1
  <2> QED
    BY <2>2, <2>3 DEF p
<1>3. \A n \in Nat : n \in T
  <2> HIDE DEF T
  <2> QED
    BY <1>1, <1>2, InductionOn
<1> QED
  BY <1>3

LEMMA Pow2Grows == \A m, n \in Nat : m <= n => Pow2[m] <= Pow2[n]
<1> SUFFICES ASSUME NEW m \in Nat, NEW n \in Nat, m <= n
             PROVE  Pow2[m] <= Pow2[n]
  OBVIOUS
<1> DEFINE p == Pow2[m]
           q == Pow2[n - m]
<1>1. n - m \in Nat /\ m + (n - m) = n
  OBVIOUS
<1>2. p \in Nat /\ q \in Nat /\ q > 0 /\ Pow2[n] = p * q
  BY <1>1, Pow2Positive, Pow2Adds
<1> HIDE DEF p, q
<1>3. p <= p * q
  BY <1>2
<1> QED
  BY <1>2, <1>3 DEF p

-----------------------------------------------------------------------------
(* Quotients and remainders.                                               *)

LEMMA DivMod ==
  ASSUME NEW n \in Nat, NEW d \in Nat, d > 0
  PROVE  /\ n \div d \in Nat /\ n % d \in Nat /\ n % d < d
         /\ n = (n \div d) * d + (n % d)
OBVIOUS

\* They are the only ones.
LEMMA DivIs ==
  ASSUME NEW q \in Nat, NEW d \in Nat, NEW r \in Nat, r < d
  PROVE  (q * d + r) \div d = q /\ (q * d + r) % d = r
<1> DEFINE n == q * d + r
           x == n \div d
           y == n % d
<1>1. n \in Nat /\ d > 0
  OBVIOUS
<1>2. x \in Nat /\ y \in Nat /\ y < d /\ n = x * d + y
  <2> HIDE DEF n
  <2> QED
    BY <1>1, DivMod
<1>3. q * d + r = x * d + y
  BY <1>2
<1> HIDE DEF n, x, y
<1>4. CASE x < q
  <2>1. x + 1 <= q /\ (x + 1) * d <= q * d
    BY <1>2, <1>4
  <2>2. (x + 1) * d = x * d + d /\ x * d \in Nat /\ q * d \in Nat
    BY <1>2
  <2> DEFINE xd == x * d
             qd == q * d
  <2>3. xd \in Nat /\ qd \in Nat /\ xd + d <= qd /\ qd + r = xd + y
    BY <1>3, <2>1, <2>2
  <2> HIDE DEF xd, qd
  <2> QED
    BY <1>2, <2>3
<1>5. CASE q < x
  <2>1. q + 1 <= x /\ (q + 1) * d <= x * d
    BY <1>2, <1>5
  <2>2. (q + 1) * d = q * d + d /\ x * d \in Nat /\ q * d \in Nat
    BY <1>2
  <2> DEFINE xd == x * d
             qd == q * d
  <2>3. xd \in Nat /\ qd \in Nat /\ qd + d <= xd /\ qd + r = xd + y
    BY <1>3, <2>1, <2>2
  <2> HIDE DEF xd, qd
  <2> QED
    BY <1>2, <2>3
<1>6. CASE x = q
  <2> DEFINE qd == q * d
  <2>1. qd \in Nat /\ qd + r = qd + y
    BY <1>3, <1>6
  <2> HIDE DEF qd
  <2>2. r = y
    BY <1>2, <2>1
  <2> QED
    BY <1>6, <2>2 DEF x, y, n
<1> QED
  BY <1>2, <1>4, <1>5, <1>6

\* A remainder of a multiple has the remainder.
LEMMA ModMod ==
  ASSUME NEW n \in Nat, NEW h \in Nat, h > 0, NEW f \in Nat, f > 0
  PROVE  (n % (h * f)) % f = n % f
<1> DEFINE d == h * f
           k == n \div d
           u == n % d
           x == u \div f
           y == u % f
<1>1. d \in Nat /\ d > 0
  OBVIOUS
<1>2. k \in Nat /\ u \in Nat /\ n = k * d + u
  <2> HIDE DEF d
  <2> QED
    BY <1>1, DivMod
<1>3. x \in Nat /\ y \in Nat /\ y < f /\ u = x * f + y
  <2> HIDE DEF u
  <2> QED
    BY <1>2, DivMod
<1> HIDE DEF k, x, y, u
<1>4. n = k * (h * f) + (x * f + y)
  BY <1>2, <1>3
<1>5. k * (h * f) = (k * h) * f /\ (k * h) * f + x * f = (k * h + x) * f
  BY <1>2, <1>3
<1> DEFINE q == k * h + x
<1>6. q \in Nat /\ n = q * f + y
  BY <1>2, <1>3, <1>4, <1>5
<1> HIDE DEF q
<1>7. n % f = y
  BY <1>3, <1>6, DivIs
<1> QED
  BY <1>7 DEF y, u

\* The classes of NaN by their bits and by their parts: h exponents, a
\* fraction of twice g, of which g is the top bit.
LEMMA FloatParts ==
  ASSUME NEW n \in Nat, NEW h \in Nat, h > 0, NEW g \in Nat, g > 0
  PROVE  /\ n % (h * (2 * g)) = h * (2 * g) - g <=>
              (n % (h * (2 * g))) \div (2 * g) = h - 1 /\ n % (2 * g) = g
         /\ (n % (h * (2 * g))) \div g = (h * (2 * g) - g) \div g <=>
              (n % (h * (2 * g))) \div (2 * g) = h - 1 /\ n % (2 * g) >= g
<1> DEFINE f == 2 * g
           d == h * f
           u == n % d
           x == u \div f
           y == u % f
<1>1. f \in Nat /\ f > 0 /\ d \in Nat /\ d > 0
  OBVIOUS
<1>2. u \in Nat /\ u < d
  <2> HIDE DEF d
  <2> QED
    BY <1>1, DivMod
<1>3. x \in Nat /\ y \in Nat /\ y < f /\ u = x * f + y
  <2> HIDE DEF u, f
  <2> QED
    BY <1>1, <1>2, DivMod
<1>4. n % f = y
  <2> HIDE DEF f
  <2> QED
    BY <1>1, ModMod
<1> HIDE DEF u, x, y
<1>5. d - g = (h - 1) * f + g /\ h - 1 \in Nat /\ g < f
  BY DEF d
<1>6. u = d - g <=> x = h - 1 /\ y = g
  <2>1. ((h - 1) * f + g) \div f = h - 1 /\ ((h - 1) * f + g) % f = g
    <3>1. f \in Nat
      BY <1>1
    <3> HIDE DEF f
    <3> QED
      BY <1>5, <3>1, DivIs
  <2>2. (x * f + y) \div f = x /\ (x * f + y) % f = y
    <3> HIDE DEF f
    <3> QED
      BY <1>1, <1>3, DivIs
  <2> HIDE DEF f, d
  <2> QED
    BY <1>3, <1>5, <2>1, <2>2
<1>7. (d - g) \div g = 2 * h - 1
  <2>1. 2 * h - 1 \in Nat /\ 0 < g
    OBVIOUS
  <2>2. ((2 * h - 1) * g + 0) \div g = 2 * h - 1
    BY <2>1, DivIs
  <2>3. d - g = (2 * h - 1) * g + 0
    BY DEF d
  <2> QED
    BY <2>2, <2>3
<1>8. u \div g = IF y >= g THEN 2 * x + 1 ELSE 2 * x
  <2>1. CASE y >= g
    <3>1. y - g \in Nat /\ y - g < g /\ 2 * x + 1 \in Nat
      BY <1>3, <2>1
    <3>2. u = (2 * x + 1) * g + (y - g)
      BY <1>3
    <3>3. ((2 * x + 1) * g + (y - g)) \div g = 2 * x + 1
      BY <3>1, DivIs
    <3> QED
      BY <2>1, <3>2, <3>3
  <2>2. CASE y < g
    <3>1. 2 * x \in Nat
      BY <1>3
    <3>2. u = (2 * x) * g + y
      BY <1>3
    <3>3. ((2 * x) * g + y) \div g = 2 * x
      BY <1>3, <2>2, <3>1, DivIs
    <3>4. ~ (y >= g)
      BY <1>3, <2>2
    <3> QED
      BY <3>2, <3>3, <3>4
  <2> QED
    BY <1>3, <2>1, <2>2
<1>9. u \div g = (d - g) \div g <=> x = h - 1 /\ y >= g
  BY <1>3, <1>7, <1>8
<1> QED
  BY <1>4, <1>6, <1>9 DEF u, x

-----------------------------------------------------------------------------
(* Verdicts.                                                               *)

Passes(m) == m.ok /\ m.val

LEMMA Widths ==
  /\ ByteBits \in Nat /\ ByteBits > 0
  /\ Bits32 \in Nat /\ Bits64 \in Nat /\ Bits32 > 0 /\ Bits64 > 0
  /\ F32Frac \in Nat /\ F64Frac \in Nat
  /\ 1 <= F32Frac /\ F32Frac <= Bits32 - 2
  /\ 1 <= F64Frac /\ F64Frac <= Bits64 - 2
<1>1. /\ ByteBits \in Nat \ {0} /\ F32Frac \in 1 .. 4 * ByteBits - 2
      /\ F64Frac \in 1 .. 8 * ByteBits - 2
  BY ConvertAssumption
<1> QED
  BY <1>1 DEF Bits32, Bits64

\* The masks of the code pick the NaNs of the format.
LEMMA NansAre ==
  ASSUME NEW n \in Nat, NEW bits \in Nat, NEW frac \in Nat, 1 <= frac, frac <= bits - 2
  PROVE  /\ IsCanonical(n, bits, frac) <=>
              IsNan(n, bits, frac) /\ Fraction(n, frac) = Pow2[frac - 1]
         /\ IsArithmetic(n, bits, frac) <=>
              IsNan(n, bits, frac) /\ Fraction(n, frac) >= Pow2[frac - 1]
<1> DEFINE h == Pow2[bits - 1 - frac]
           g == Pow2[frac - 1]
<1>1. /\ bits - 1 - frac \in Nat /\ frac - 1 \in Nat /\ (frac - 1) + 1 = frac
      /\ (bits - 1 - frac) + frac = bits - 1
  OBVIOUS
<1>2. h \in Nat /\ h > 0 /\ g \in Nat /\ g > 0
  BY <1>1, Pow2Positive
<1>3. Pow2[frac] = 2 * g
  BY <1>1, Pow2Is
<1>4. Pow2[bits - 1] = h * (2 * g)
  BY <1>1, <1>3, Pow2Adds
<1>5. /\ IsCanonical(n, bits, frac) <=> n % (h * (2 * g)) = h * (2 * g) - g
      /\ IsArithmetic(n, bits, frac) <=>
           (n % (h * (2 * g))) \div g = (h * (2 * g) - g) \div g
      /\ IsNan(n, bits, frac) <=>
           (n % (h * (2 * g))) \div (2 * g) = h - 1 /\ n % (2 * g) # 0
      /\ Fraction(n, frac) = n % (2 * g)
  BY <1>3, <1>4 DEF IsCanonical, IsArithmetic, Unsigned, QuietMask, IsNan, Exponent, Fraction
<1> HIDE DEF h, g
<1>6. /\ n % (h * (2 * g)) = h * (2 * g) - g <=>
           (n % (h * (2 * g))) \div (2 * g) = h - 1 /\ n % (2 * g) = g
      /\ (n % (h * (2 * g))) \div g = (h * (2 * g) - g) \div g <=>
           (n % (h * (2 * g))) \div (2 * g) = h - 1 /\ n % (2 * g) >= g
  BY <1>2, FloatParts
<1> DEFINE y == n % (2 * g)
<1>7. y \in Nat
  <2> DEFINE f == 2 * g
  <2>1. f \in Nat /\ f > 0
    BY <1>2
  <2> HIDE DEF f
  <2>2. n % f \in Nat
    BY <2>1, DivMod
  <2> QED
    BY <2>2 DEF f
<1>8. (y = g => y # 0) /\ (y >= g => y # 0)
  <2> HIDE DEF y
  <2> QED
    BY <1>2, <1>7
<1> QED
  BY <1>5, <1>6, <1>8 DEF g

\* A number of the right width passes when it is the one the token spells.
LEMMA MatchNumberIs ==
  ASSUME NEW n \in Nat, NEW token, IsToken(token), NEW bits, n < Pow2[bits]
  PROVE  Passes(MatchNumber(n, token, bits)) <=> token = Num(n)
<1>1. token = Num(n) <=> token.is = "num" /\ token.n = n
  BY DEF IsToken, Num
<1>2. CASE token.is = "num" /\ token.n < Pow2[bits]
  <2>1. MatchNumber(n, token, bits) = Ok(n = token.n)
    BY <1>2 DEF MatchNumber, Parsed, Ok
  <2>2. Passes(Ok(n = token.n)) <=> n = token.n
    BY DEF Passes, Ok
  <2> QED
    BY <1>1, <1>2, <2>1, <2>2
<1>3. CASE ~ (token.is = "num" /\ token.n < Pow2[bits])
  <2>1. MatchNumber(n, token, bits) = Err
    BY <1>3 DEF MatchNumber, Parsed, Err
  <2>2. ~ Passes(Err)
    BY DEF Passes, Err
  <2> QED
    BY <1>1, <1>3, <2>1, <2>2
<1> QED
  BY <1>2, <1>3

LEMMA MatchFloatIs ==
  ASSUME NEW n \in Nat, NEW token, IsToken(token), NEW bits \in Nat, n < Pow2[bits],
         NEW frac \in Nat, 1 <= frac, frac <= bits - 2
  PROVE  Passes(MatchFloat(n, token, bits, frac)) <=> StandsForFloat(token, bits, frac, n)
<1>1. \A b : Passes(Ok(b)) <=> b
  BY DEF Passes, Ok
<1>2. Canonical # Arithmetic
  BY DEF Canonical, Arithmetic, Text
<1>3. CASE token = Canonical
  <2>1. MatchFloat(n, token, bits, frac) = Ok(IsCanonical(n, bits, frac))
    BY <1>3 DEF MatchFloat
  <2>2. StandsForFloat(token, bits, frac, n) <=>
          IsNan(n, bits, frac) /\ Fraction(n, frac) = Pow2[frac - 1]
    BY <1>2, <1>3 DEF StandsForFloat
  <2> QED
    BY <1>1, <2>1, <2>2, NansAre
<1>4. CASE token = Arithmetic
  <2>1. MatchFloat(n, token, bits, frac) = Ok(IsArithmetic(n, bits, frac))
    BY <1>2, <1>4 DEF MatchFloat
  <2>2. StandsForFloat(token, bits, frac, n) <=>
          IsNan(n, bits, frac) /\ Fraction(n, frac) >= Pow2[frac - 1]
    BY <1>2, <1>4 DEF StandsForFloat
  <2> QED
    BY <1>1, <2>1, <2>2, NansAre
<1>5. CASE token # Canonical /\ token # Arithmetic
  <2>1. MatchFloat(n, token, bits, frac) = MatchNumber(n, token, bits)
    BY <1>5 DEF MatchFloat, MatchNumber
  <2>2. StandsForFloat(token, bits, frac, n) <=> token = Num(n)
    BY <1>5 DEF StandsForFloat
  <2> QED
    BY <2>1, <2>2, MatchNumberIs
<1> QED
  BY <1>3, <1>4, <1>5

\* The least place that is bad is one that is.
LEMMA DecidedIs ==
  ASSUME NEW k \in Nat, NEW ms, DOMAIN ms = 1..k
  PROVE  Passes(Decided(ms)) <=> \A i \in 1..k : Passes(ms[i])
<1> DEFINE bad == {i \in DOMAIN ms : ~ms[i].ok \/ ~ms[i].val}
<1>1. \A i \in 1..k : i \in bad <=> ~ Passes(ms[i])
  BY DEF Passes
<1>2. CASE bad = {}
  <2>1. Decided(ms) = Ok(TRUE)
    BY <1>2 DEF Decided
  <2>2. Passes(Ok(TRUE))
    BY DEF Passes, Ok
  <2>3. \A i \in 1..k : Passes(ms[i])
    BY <1>1, <1>2
  <2> QED
    BY <2>1, <2>2, <2>3
<1>3. CASE bad # {}
  <2> DEFINE first == CHOOSE i \in bad : \A j \in bad : i <= j
  <2>1. Decided(ms) = ms[first]
    BY <1>3 DEF Decided
  <2>2. bad \subseteq Nat /\ bad \subseteq 1..k
    OBVIOUS
  <2> HIDE DEF bad
  <2>3. \E i \in bad : \A j \in bad : i <= j
    BY <1>3, <2>2, LeastOf
  <2>4. first \in bad
    BY <2>3
  <2> HIDE DEF first
  <2> QED
    BY <1>1, <2>1, <2>2, <2>4
<1> QED
  BY <1>2, <1>3

IsObject(obj) ==
  /\ IsToken(obj.value) /\ obj.array \in BOOLEAN
  /\ obj.lanes \in Seq(Range(obj.lanes))
  /\ \A i \in DOMAIN obj.lanes : IsToken(obj.lanes[i])

LEMMA ObjectsAre == \A obj \in Objects \cup {NoObject} : IsObject(obj)
<1>1. \A obj \in Objects : IsObject(obj)
  BY ConvertAssumption DEF IsObject, Range
<1>2. IsObject(NoObject)
  <2>1. /\ NoObject.value = NoString /\ NoObject.array = FALSE /\ NoObject.lanes = <<>>
    BY DEF NoObject
  <2>2. IsToken(NoString)
    BY DEF IsToken, NoString, Text
  <2>3. <<>> \in Seq(Range(<<>>)) /\ DOMAIN <<>> = {}
    BY EmptySeq
  <2> QED
    BY <2>1, <2>2, <2>3 DEF IsObject
<1> QED
  BY <1>1, <1>2

LEMMA LanesOf ==
  ASSUME NEW obj, IsObject(obj)
  PROVE  Len(obj.lanes) \in Nat /\ DOMAIN obj.lanes = 1..Len(obj.lanes)
BY LenProperties DEF IsObject

\* The shapes of a vector fill it.
LEMMA ShapesAre ==
  ASSUME NEW ty \in DOMAIN LaneShapes
  PROVE  /\ LaneShapes[ty][1] \in Nat /\ LaneShapes[ty][2] \in {1, 2, 4, 8}
         /\ \A k \in Nat : k * LaneShapes[ty][2] = 16 <=> k = LaneShapes[ty][1]
         /\ ty \in {"i8", "i16", "i32", "f32", "i64", "f64"}
         /\ ty = "f32" => LaneShapes[ty][2] = 4
         /\ ty = "f64" => LaneShapes[ty][2] = 8
<1>1. ty \in {"i8", "i16", "i32", "f32", "i64", "f64"}
  BY DEF LaneShapes
<1>2. /\ LaneShapes["i8"] = <<16, 1>> /\ LaneShapes["i16"] = <<8, 2>>
      /\ LaneShapes["i32"] = <<4, 4>> /\ LaneShapes["f32"] = <<4, 4>>
      /\ LaneShapes["i64"] = <<2, 8>> /\ LaneShapes["f64"] = <<2, 8>>
  BY DEF LaneShapes
<1>3. CASE ty = "i8"
  BY <1>2, <1>3
<1>4. CASE ty = "i16"
  BY <1>2, <1>4
<1>5. CASE ty \in {"i32", "f32"}
  BY <1>2, <1>5
<1>6. CASE ty \in {"i64", "f64"}
  BY <1>2, <1>6
<1> QED
  BY <1>1, <1>3, <1>4, <1>5, <1>6

\* A lane is whole bytes, and fits.
LEMMA LaneIs ==
  ASSUME NEW obj, obj.lane_type \in DOMAIN LaneShapes, NEW n \in Nat, NEW i \in Nat \ {0}
  PROVE  LET width == LaneShapes[obj.lane_type][2]
         IN /\ LaneBits(obj) \in Nat /\ LaneBits(obj) = width * ByteBits /\ LaneBits(obj) <= Bits64
            /\ LaneOf(n, LaneBits(obj), i) = BytesAt(n, width * (i - 1), width)
            /\ LaneOf(n, LaneBits(obj), i) \in Nat
            /\ LaneOf(n, LaneBits(obj), i) < Pow2[LaneBits(obj)]
<1> DEFINE width == LaneShapes[obj.lane_type][2]
           w     == LaneBits(obj)
           b     == ByteBits
           j     == i - 1
<1>1. width \in {1, 2, 4, 8} /\ b \in Nat /\ j \in Nat
  BY ShapesAre, Widths
<1>2. w = width * b
  BY DEF LaneBits
<1>3. Bits64 = 8 * b
  BY DEF Bits64
<1> HIDE DEF width, w, b, j
<1>4. w \in Nat /\ w <= Bits64 /\ w = b * width
  BY <1>1, <1>2, <1>3
<1>5. w * j = b * (width * j) /\ w * j \in Nat
  BY <1>1, <1>2
<1>6. LaneOf(n, w, i) = BytesAt(n, width * (i - 1), width)
  BY <1>4, <1>5 DEF LaneOf, BytesAt, j, b
<1>7. LaneOf(n, w, i) \in Nat /\ LaneOf(n, w, i) < Pow2[w]
  <2>1. n \div Pow2[w * j] \in Nat
    BY <1>5, Pow2Positive, DivMod
  <2>2. Pow2[w] \in Nat /\ Pow2[w] > 0
    BY <1>4, Pow2Positive
  <2>3. (n \div Pow2[w * j]) % Pow2[w] \in Nat /\ (n \div Pow2[w * j]) % Pow2[w] < Pow2[w]
    BY <2>1, <2>2, DivMod
  <2> QED
    BY <2>3 DEF LaneOf, j
<1> QED
  BY <1>2, <1>4, <1>6, <1>7 DEF width, w, b

LEMMA MatchLaneIs ==
  ASSUME NEW obj, obj.lane_type \in DOMAIN LaneShapes,
         NEW n \in Nat, n < Pow2[LaneBits(obj)], NEW token, IsToken(token)
  PROVE  Passes(MatchLane(n, token, obj.lane_type)) <=> Stands(token, obj.lane_type, n)
<1> DEFINE ty == obj.lane_type
<1>0. /\ LaneBits(obj) \in Nat /\ LaneBits(obj) <= Bits64
      /\ LaneBits(obj) = LaneShapes[ty][2] * ByteBits
  BY LaneIs
<1>1. n < Pow2[Bits64]
  <2>1. Pow2[LaneBits(obj)] <= Pow2[Bits64]
    BY <1>0, Pow2Grows, Widths
  <2>2. Pow2[LaneBits(obj)] \in Nat /\ Pow2[Bits64] \in Nat
    BY <1>0, Widths, Pow2Positive
  <2> QED
    BY <2>1, <2>2
<1>2. CASE ty = "f32"
  <2>1. LaneBits(obj) = Bits32
    BY <1>0, <1>2, ShapesAre, Widths DEF Bits32
  <2>2. Passes(MatchFloat(n, token, Bits32, F32Frac)) <=> StandsForFloat(token, Bits32, F32Frac, n)
    BY <2>1, MatchFloatIs, Widths
  <2>3. Stands(token, ty, n) <=> StandsForFloat(token, Bits32, F32Frac, n)
    BY <1>2 DEF Stands
  <2>4. CASE token \in {Canonical, Arithmetic}
    <3>1. MatchLane(n, token, ty) = MatchFloat(n, token, Bits32, F32Frac)
      BY <1>2, <2>4 DEF MatchLane
    <3> QED
      BY <2>2, <2>3, <3>1
  <2>5. CASE token \notin {Canonical, Arithmetic}
    <3>1. MatchLane(n, token, ty) = MatchNumber(n, token, Bits64)
      BY <2>5 DEF MatchLane
    <3>2. StandsForFloat(token, Bits32, F32Frac, n) <=> token = Num(n)
      BY <2>5 DEF StandsForFloat
    <3> QED
      BY <1>1, <2>3, <3>1, <3>2, MatchNumberIs
  <2> QED
    BY <2>4, <2>5
<1>3. CASE ty = "f64"
  <2>1. LaneBits(obj) = Bits64
    BY <1>0, <1>3, ShapesAre, Widths DEF Bits64
  <2>2. Passes(MatchFloat(n, token, Bits64, F64Frac)) <=> StandsForFloat(token, Bits64, F64Frac, n)
    BY <2>1, MatchFloatIs, Widths
  <2>3. Stands(token, ty, n) <=> StandsForFloat(token, Bits64, F64Frac, n)
    BY <1>3 DEF Stands
  <2>4. CASE token \in {Canonical, Arithmetic}
    <3>1. MatchLane(n, token, ty) = MatchFloat(n, token, Bits64, F64Frac)
      BY <1>3, <2>4 DEF MatchLane
    <3> QED
      BY <2>2, <2>3, <3>1
  <2>5. CASE token \notin {Canonical, Arithmetic}
    <3>1. MatchLane(n, token, ty) = MatchNumber(n, token, Bits64)
      BY <2>5 DEF MatchLane
    <3>2. StandsForFloat(token, Bits64, F64Frac, n) <=> token = Num(n)
      BY <2>5 DEF StandsForFloat
    <3> QED
      BY <1>1, <2>3, <3>1, <3>2, MatchNumberIs
  <2> QED
    BY <2>4, <2>5
<1>4. CASE ty # "f32" /\ ty # "f64"
  <2>1. MatchLane(n, token, ty) = MatchNumber(n, token, Bits64)
    BY <1>4 DEF MatchLane
  <2>2. Stands(token, ty, n) <=> token = Num(n)
    BY <1>4 DEF Stands
  <2> QED
    BY <1>1, <2>1, <2>2, MatchNumberIs
<1> QED
  BY <1>2, <1>3, <1>4

\* What a vector's object says of the bits n.
MeansLanes(obj, n) ==
  /\ obj.array /\ obj.lane_type \in DOMAIN LaneShapes
  /\ LET width == LaneShapes[obj.lane_type][2]
     IN /\ Len(obj.lanes) * width = 16
        /\ \A i \in DOMAIN obj.lanes :
             Stands(obj.lanes[i], obj.lane_type, BytesAt(n, width * (i - 1), width))

\* The number of lanes is right when they are sixteen bytes.
LEMMA ShapeIs ==
  ASSUME NEW obj, IsObject(obj)
  PROVE  ShapeOk(obj) <=> /\ obj.array /\ obj.lane_type \in DOMAIN LaneShapes
                          /\ Len(obj.lanes) * LaneShapes[obj.lane_type][2] = 16
<1>1. Len(obj.lanes) \in Nat
  BY LanesOf
<1>2. obj.lane_type \in DOMAIN LaneShapes =>
        (Len(obj.lanes) * LaneShapes[obj.lane_type][2] = 16
           <=> Len(obj.lanes) = LaneShapes[obj.lane_type][1])
  BY <1>1, ShapesAre
<1> QED
  BY <1>2 DEF ShapeOk

LEMMA MatchV128Is ==
  ASSUME NEW obj, IsObject(obj), NEW n \in Nat
  PROVE  Passes(MatchV128(n, obj)) <=> MeansLanes(obj, n)
<1>1. CASE ~ ShapeOk(obj)
  <2>1. MatchV128(n, obj) = Err /\ ~ Passes(Err)
    BY <1>1 DEF MatchV128, Passes, Err
  <2>2. ~ MeansLanes(obj, n)
    BY <1>1, ShapeIs DEF MeansLanes
  <2> QED
    BY <2>1, <2>2
<1>2. CASE ShapeOk(obj)
  <2> DEFINE k  == Len(obj.lanes)
             ms == [i \in DOMAIN obj.lanes |->
                      MatchLane(LaneOf(n, LaneBits(obj), i), obj.lanes[i], obj.lane_type)]
             width == LaneShapes[obj.lane_type][2]
  <2>1. k \in Nat /\ DOMAIN obj.lanes = 1..k /\ obj.lane_type \in DOMAIN LaneShapes
    BY <1>2, LanesOf, ShapeIs
  <2>2. MatchV128(n, obj) = Decided(ms)
    BY <1>2 DEF MatchV128
  <2>3. DOMAIN ms = 1..k
    BY <2>1
  <2>4. ASSUME NEW i \in 1..k
        PROVE  Passes(ms[i]) <=>
                 Stands(obj.lanes[i], obj.lane_type, BytesAt(n, width * (i - 1), width))
    <3>1. i \in Nat \ {0} /\ IsToken(obj.lanes[i])
      BY <2>1 DEF IsObject
    <3>2. /\ LaneOf(n, LaneBits(obj), i) = BytesAt(n, width * (i - 1), width)
          /\ LaneOf(n, LaneBits(obj), i) \in Nat
          /\ LaneOf(n, LaneBits(obj), i) < Pow2[LaneBits(obj)]
      BY <2>1, <3>1, LaneIs
    <3>3. ms[i] = MatchLane(LaneOf(n, LaneBits(obj), i), obj.lanes[i], obj.lane_type)
      BY <2>1
    <3> HIDE DEF ms
    <3>4. Passes(MatchLane(LaneOf(n, LaneBits(obj), i), obj.lanes[i], obj.lane_type)) <=>
            Stands(obj.lanes[i], obj.lane_type, LaneOf(n, LaneBits(obj), i))
      BY <2>1, <3>1, <3>2, MatchLaneIs
    <3> QED
      BY <3>2, <3>3, <3>4
  <2> HIDE DEF ms, k
  <2>5. Passes(Decided(ms)) <=> \A i \in 1..k : Passes(ms[i])
    BY <2>1, <2>3, DecidedIs
  <2>6. MeansLanes(obj, n) <=>
          \A i \in 1..k : Stands(obj.lanes[i], obj.lane_type, BytesAt(n, width * (i - 1), width))
    BY <1>2, <2>1, ShapeIs DEF MeansLanes
  <2> QED
    BY <2>2, <2>4, <2>5, <2>6
<1> QED
  BY <1>1, <1>2

\* A verdict passes exactly when the value is one the object means.
LEMMA MatchIsMeaning ==
  ASSUME NEW v, IsValue(v), NEW obj, IsObject(obj)
  PROVE  Passes(MatchExpected(v, obj)) <=> Means(obj, v)
<1> DEFINE n == v.bits
<1>1. /\ v.ty \in ValueTypes /\ n \in Nat /\ n < Pow2[Size(v.ty)] /\ v.none \in BOOLEAN
      /\ v.none => v.ty \in {"externref", "funcref"}
      /\ v = [ty |-> v.ty, none |-> v.none, bits |-> n]
  BY DEF IsValue
<1>2. \A b : Passes(Ok(b)) <=> b
  BY DEF Passes, Ok
<1>3. ~ Passes(Err)
  BY DEF Passes, Err
<1>4. CASE obj.type # v.ty
  BY <1>2, <1>4 DEF MatchExpected, Means
<1> SUFFICES ASSUME obj.type = v.ty
             PROVE  Passes(MatchExpected(v, obj)) <=> Means(obj, v)
  BY <1>4
<1>5. IsToken(obj.value)
  BY DEF IsObject
<1>6. CASE v.ty \in {"i32", "i64"}
  <2> DEFINE bits == IF v.ty = "i32" THEN Bits32 ELSE Bits64
  <2>1. MatchExpected(v, obj) = MatchNumber(n, obj.value, bits)
    BY <1>6 DEF MatchExpected
  <2>2. Means(obj, v) <=> obj.value = Num(n)
    BY <1>1, <1>6 DEF Means, Stands
  <2>3. n < Pow2[bits]
    BY <1>1, <1>6 DEF Size
  <2> HIDE DEF bits
  <2> QED
    BY <1>1, <1>5, <2>1, <2>2, <2>3, MatchNumberIs
<1>7. CASE v.ty = "f32"
  <2>1. MatchExpected(v, obj) = MatchFloat(n, obj.value, Bits32, F32Frac)
    BY <1>7 DEF MatchExpected
  <2>2. Means(obj, v) <=> StandsForFloat(obj.value, Bits32, F32Frac, n)
    BY <1>1, <1>7 DEF Means, Stands
  <2>3. n < Pow2[Bits32]
    BY <1>1, <1>7 DEF Size
  <2> QED
    BY <1>1, <1>5, <2>1, <2>2, <2>3, MatchFloatIs, Widths
<1>8. CASE v.ty = "f64"
  <2>1. MatchExpected(v, obj) = MatchFloat(n, obj.value, Bits64, F64Frac)
    BY <1>8 DEF MatchExpected
  <2>2. Means(obj, v) <=> StandsForFloat(obj.value, Bits64, F64Frac, n)
    BY <1>1, <1>8 DEF Means, Stands
  <2>3. n < Pow2[Bits64]
    BY <1>1, <1>8 DEF Size
  <2> QED
    BY <1>1, <1>5, <2>1, <2>2, <2>3, MatchFloatIs, Widths
<1>9. CASE v.ty = "v128"
  <2>1. MatchExpected(v, obj) = MatchV128(n, obj)
    BY <1>9 DEF MatchExpected
  <2>2. Means(obj, v) <=> MeansLanes(obj, n)
    BY <1>9 DEF Means, MeansLanes
  <2> QED
    BY <1>1, <2>1, <2>2, MatchV128Is
<1>10. CASE v.ty \in {"externref", "funcref"} /\ obj.value = Null
  <2>1. MatchExpected(v, obj) = Ok(v.none)
    BY <1>10 DEF MatchExpected
  <2>2. obj.value # Num(n)
    BY <1>10 DEF Null, Text, Num
  <2>3. Stands(obj.value, "externref", n) <=> obj.value = Num(n)
    BY DEF Stands
  <2>4. Means(obj, v) <=> v.none
    BY <1>10, <2>2, <2>3 DEF Means
  <2> QED
    BY <1>2, <2>1, <2>4
<1>11. CASE v.ty = "externref" /\ obj.value # Null
  <2>1. MatchExpected(v, obj) = LET p == Parsed(obj.value, Bits32)
                                IN IF p.ok THEN Ok(v = Value("externref", p.val)) ELSE Err
    BY <1>11 DEF MatchExpected
  <2>2. Means(obj, v) <=> ~ v.none /\ obj.value = Num(n)
    BY <1>1, <1>11 DEF Means, Stands
  <2>3. n < Pow2[Bits32]
    BY <1>1, <1>11 DEF Size
  <2>4. obj.value = Num(n) <=> obj.value.is = "num" /\ obj.value.n = n
    BY <1>5 DEF IsToken, Num
  <2>5. CASE obj.value.is = "num" /\ obj.value.n < Pow2[Bits32]
    <3>1. MatchExpected(v, obj) = Ok(v = Value("externref", obj.value.n))
      BY <2>1, <2>5 DEF Parsed, Ok
    <3>2. v = Value("externref", obj.value.n) <=> ~ v.none /\ n = obj.value.n
      BY <1>1, <1>11 DEF Value
    <3> QED
      BY <1>2, <2>2, <2>4, <2>5, <3>1, <3>2
  <2>6. CASE ~ (obj.value.is = "num" /\ obj.value.n < Pow2[Bits32])
    <3>1. MatchExpected(v, obj) = Err
      BY <2>1, <2>6 DEF Parsed, Err
    <3> QED
      BY <1>3, <2>2, <2>3, <2>4, <2>6, <3>1
  <2> QED
    BY <2>5, <2>6
<1>12. CASE v.ty = "funcref" /\ obj.value # Null
  <2>1. MatchExpected(v, obj) = Err
    BY <1>12 DEF MatchExpected
  <2>2. ~ Means(obj, v)
    BY <1>12 DEF Means
  <2> QED
    BY <1>3, <2>1, <2>2
<1> QED
  BY <1>1, <1>6, <1>7, <1>8, <1>9, <1>10, <1>11, <1>12 DEF ValueTypes

-----------------------------------------------------------------------------
(* Packing the lanes of an argument.                                       *)

Sums(t, k, a) == t = [i \in 0..k |-> IF i = 0 THEN 0 ELSE t[i - 1] + a[i]]

LEMMA SumsExist ==
  ASSUME NEW a
  PROVE  \A k \in Nat : \E t : Sums(t, k, a)
<1> DEFINE T == {k \in Nat : \E t : Sums(t, k, a)}
<1>1. 0 \in T
  <2> DEFINE t == [i \in 0..0 |-> 0]
  <2>1. t = [i \in 0..0 |-> IF i = 0 THEN 0 ELSE t[i - 1] + a[i]]
    OBVIOUS
  <2> HIDE DEF t
  <2> QED
    BY <2>1 DEF Sums
<1>2. ASSUME NEW k \in Nat, k \in T
      PROVE  k + 1 \in T
  <2> PICK t : Sums(t, k, a)
    BY <1>2
  <2> DEFINE u == [i \in 0 .. k + 1 |-> IF i = k + 1 THEN t[k] + a[k + 1] ELSE t[i]]
  <2>1. \A i \in 0..k : t[i] = IF i = 0 THEN 0 ELSE t[i - 1] + a[i]
    BY DEF Sums
  <2>2. ASSUME NEW i \in 0 .. k + 1
        PROVE  u[i] = IF i = 0 THEN 0 ELSE u[i - 1] + a[i]
    <3>1. CASE i = k + 1
      <4>1. i # 0 /\ i - 1 = k /\ k \in 0 .. k + 1 /\ k # k + 1
        BY <3>1
      <4> QED
        BY <3>1, <4>1
    <3>2. CASE i # k + 1
      <4>1. i \in 0..k /\ (i # 0 => i - 1 \in 0 .. k + 1 /\ i - 1 # k + 1)
        BY <3>2
      <4> QED
        BY <2>1, <3>2, <4>1
    <3> QED
      BY <3>1, <3>2
  <2>3. u = [i \in 0 .. k + 1 |-> u[i]]
    OBVIOUS
  <2> HIDE DEF u
  <2>4. u = [i \in 0 .. k + 1 |-> IF i = 0 THEN 0 ELSE u[i - 1] + a[i]]
    BY <2>2, <2>3
  <2> QED
    BY <2>4 DEF Sums
<1>3. \A k \in Nat : k \in T
  <2> HIDE DEF T
  <2> QED
    BY <1>1, <1>2, InductionOn
<1> QED
  BY <1>3

\* s is the sums of k digits d of w bits.
Digits(s, k, d, w) ==
  /\ s[0] = 0
  /\ \A i \in 1..k : d[i] \in Nat /\ d[i] < Pow2[w] /\ s[i] = s[i - 1] + d[i] * Pow2[w * (i - 1)]

\* The low digits fit below the next one,
LEMMA DigitsFit ==
  ASSUME NEW k \in Nat, NEW w \in Nat, NEW d, NEW s, Digits(s, k, d, w)
  PROVE  \A i \in 0..k : s[i] \in Nat /\ s[i] < Pow2[w * i]
<1> DEFINE T == {i \in Nat : i <= k => s[i] \in Nat /\ s[i] < Pow2[w * i]}
<1>1. 0 \in T
  <2>1. w * 0 = 0
    OBVIOUS
  <2> QED
    BY <2>1, Pow2Is DEF Digits
<1>2. ASSUME NEW i \in Nat, i \in T
      PROVE  i + 1 \in T
  <2> SUFFICES ASSUME i + 1 <= k
               PROVE  s[i + 1] \in Nat /\ s[i + 1] < Pow2[w * (i + 1)]
    OBVIOUS
  <2> DEFINE p == Pow2[w * i]
             b == Pow2[w]
             x == d[i + 1]
             y == s[i]
  <2>1. i + 1 \in 1..k /\ (i + 1) - 1 = i
    OBVIOUS
  <2>2. x \in Nat /\ x < b /\ s[i + 1] = y + x * p /\ y \in Nat /\ y < p
    BY <1>2, <2>1 DEF Digits
  <2>3. w * i \in Nat /\ w * (i + 1) = w * i + w
    OBVIOUS
  <2>4. p \in Nat /\ b \in Nat /\ Pow2[w * (i + 1)] = p * b
    BY <2>3, Pow2Adds, Pow2Positive
  <2> HIDE DEF p, b, x, y
  <2>5. y + x * p \in Nat /\ y + x * p < p * b
    <3>1. x + 1 <= b /\ (x + 1) * p <= b * p
      BY <2>2, <2>4
    <3>2. (x + 1) * p = x * p + p /\ b * p = p * b /\ x * p \in Nat /\ p * b \in Nat
      BY <2>2, <2>4
    <3> DEFINE xp == x * p
               pb == p * b
    <3>3. xp + p <= pb /\ xp \in Nat /\ pb \in Nat
      BY <3>1, <3>2
    <3> HIDE DEF xp, pb
    <3>4. y + xp \in Nat /\ y + xp < pb
      BY <2>2, <2>4, <3>3
    <3> QED
      BY <3>4 DEF xp, pb
  <2> QED
    BY <2>2, <2>4, <2>5
<1>3. \A i \in Nat : i \in T
  <2> HIDE DEF T
  <2> QED
    BY <1>1, <1>2, InductionOn
<1> QED
  BY <1>3

\* the others are above,
LEMMA DigitsAbove ==
  ASSUME NEW k \in Nat, NEW w \in Nat, NEW d, NEW s, Digits(s, k, d, w), NEW i \in 0..k
  PROVE  \E r \in Nat : s[k] = s[i] + r * Pow2[w * i]
<1> DEFINE T == {m \in Nat : i + m <= k => \E r \in Nat : s[i + m] = s[i] + r * Pow2[w * i]}
           p == Pow2[w * i]
           y == s[i]
<1>0. p \in Nat /\ y \in Nat /\ w * i \in Nat
  <2>1. w * i \in Nat
    OBVIOUS
  <2> QED
    BY <2>1, Pow2Positive, DigitsFit
<1>1. 0 \in T
  <2>1. i + 0 = i /\ y = y + 0 * p
    BY <1>0
  <2>2. s[i + 0] = s[i] + 0 * Pow2[w * i]
    BY <2>1
  <2> QED
    BY <2>2
<1>2. ASSUME NEW m \in Nat, m \in T
      PROVE  m + 1 \in T
  <2> SUFFICES ASSUME i + (m + 1) <= k
               PROVE  \E r \in Nat : s[i + (m + 1)] = s[i] + r * Pow2[w * i]
    OBVIOUS
  <2>1. i + m <= k /\ i + (m + 1) \in 1..k /\ (i + (m + 1)) - 1 = i + m
    OBVIOUS
  <2> PICK r \in Nat : s[i + m] = s[i] + r * Pow2[w * i]
    BY <1>2, <2>1
  <2> DEFINE x == d[i + (m + 1)]
             q == Pow2[w * m]
  <2>2. x \in Nat /\ s[i + (m + 1)] = s[i + m] + x * Pow2[w * (i + m)]
    BY <2>1 DEF Digits
  <2>3. w * (i + m) = w * i + w * m /\ w * m \in Nat
    OBVIOUS
  <2>4. Pow2[w * (i + m)] = p * q /\ q \in Nat
    BY <1>0, <2>3, Pow2Adds, Pow2Positive
  <2>5. s[i + (m + 1)] = (y + r * p) + x * (p * q)
    BY <2>2, <2>4
  <2> HIDE DEF p, q, x, y
  <2>6. (y + r * p) + x * (p * q) = y + (r + x * q) * p /\ r + x * q \in Nat
    <3>1. x * (p * q) = (x * q) * p
      BY <1>0, <2>2, <2>4
    <3>2. x * q \in Nat
      BY <2>2, <2>4
    <3> DEFINE z == x * q
    <3> HIDE DEF z
    <3>3. (y + r * p) + z * p = y + (r + z) * p
      BY <1>0, <3>2 DEF z
    <3> QED
      BY <3>1, <3>2, <3>3 DEF z
  <2>7. s[i + (m + 1)] = y + (r + x * q) * p
    BY <2>5, <2>6
  <2> QED
    BY <2>6, <2>7 DEF y, p
<1>3. \A m \in Nat : m \in T
  <2> HIDE DEF T
  <2> QED
    BY <1>1, <1>2, InductionOn
<1>4. k - i \in Nat /\ i + (k - i) = k /\ k <= k
  OBVIOUS
<1> QED
  BY <1>3, <1>4

\* and each can be read.
LEMMA DigitsRead ==
  ASSUME NEW k \in Nat, NEW w \in Nat, NEW d, NEW s, Digits(s, k, d, w), NEW i \in 1..k
  PROVE  (s[k] \div Pow2[w * (i - 1)]) % Pow2[w] = d[i]
<1> DEFINE p == Pow2[w * (i - 1)]
           b == Pow2[w]
           x == d[i]
           y == s[i - 1]
<1>1. i \in 0..k /\ i - 1 \in 0..k /\ w * (i - 1) \in Nat /\ w * i = w * (i - 1) + w
  <2>1. i - 1 \in Nat /\ (i - 1) + 1 = i
    OBVIOUS
  <2> DEFINE j == i - 1
  <2> HIDE DEF j
  <2>2. w * j \in Nat /\ w * (j + 1) = w * j + w
    BY <2>1 DEF j
  <2> QED
    BY <2>1, <2>2 DEF j
<1>2. p \in Nat /\ b \in Nat /\ Pow2[w * i] = p * b
  BY <1>1, Pow2Adds, Pow2Positive
<1>3. x \in Nat /\ x < b /\ s[i] = y + x * p
  BY DEF Digits
<1>4. y \in Nat /\ y < p
  BY <1>1, DigitsFit
<1> PICK r \in Nat : s[k] = s[i] + r * Pow2[w * i]
  BY <1>1, DigitsAbove
<1> DEFINE n == s[k]
<1>5. n = (y + x * p) + r * (p * b)
  BY <1>2, <1>3
<1> HIDE DEF p, b, x, y, n
<1>6. n = (r * b + x) * p + y /\ r * b + x \in Nat
  <2>1. r * (p * b) = (r * b) * p /\ r * b \in Nat
    BY <1>2
  <2> DEFINE z == r * b
  <2>2. n = (y + x * p) + z * p /\ z \in Nat
    BY <1>5, <2>1
  <2> HIDE DEF z
  <2>3. n = (z + x) * p + y /\ z + x \in Nat
    BY <1>2, <1>3, <1>4, <2>2
  <2> QED
    BY <2>3 DEF z
<1>7. n \div p = r * b + x
  BY <1>2, <1>4, <1>6, DivIs
<1>8. (r * b + x) % b = x
  BY <1>2, <1>3, DivIs
<1> QED
  BY <1>7, <1>8 DEF n, p, b, x

\* The bytes of an argument are its lanes, cut to their width.
LEMMA PackedIs ==
  ASSUME NEW obj, IsObject(obj), ShapeOk(obj)
  PROVE  LET width == LaneShapes[obj.lane_type][2]
         IN /\ Packed(obj) \in Nat /\ Packed(obj) < Pow2[16 * ByteBits]
            /\ \A i \in DOMAIN obj.lanes :
                 BytesAt(Packed(obj), width * (i - 1), width) = obj.lanes[i].n % Pow2[LaneBits(obj)]
<1> DEFINE k == Len(obj.lanes)
           w == LaneBits(obj)
           width == LaneShapes[obj.lane_type][2]
           d == [i \in 1..k |-> obj.lanes[i].n % Pow2[w]]
           a == [i \in 1..k |-> d[i] * Pow2[w * (i - 1)]]
           s == Packing(obj)
<1>1. /\ k \in Nat /\ DOMAIN obj.lanes = 1..k
      /\ obj.lane_type \in DOMAIN LaneShapes /\ k * width = 16
  BY LanesOf, ShapeIs
<1>2. 1 \in Nat \ {0} /\ 0 \in Nat
  OBVIOUS
<1>3. w \in Nat /\ w = width * ByteBits
  BY <1>1, <1>2, LaneIs
<1>4. Pow2[w] \in Nat /\ Pow2[w] > 0
  BY <1>3, Pow2Positive
<1>5. \A i \in 1..k : d[i] \in Nat /\ d[i] < Pow2[w]
  <2> TAKE i \in 1..k
  <2>1. obj.lanes[i].n \in Nat
    BY <1>1 DEF IsObject, IsToken
  <2> QED
    BY <1>4, <2>1, DivMod
<1> DEFINE R(t) == t = [i \in 0..k |->
             IF i = 0 THEN 0 ELSE t[i - 1] + (obj.lanes[i].n % Pow2[w]) * Pow2[w * (i - 1)]]
<1>6. s = CHOOSE t : R(t)
  BY DEF Packing
<1>7. ASSUME NEW t
      PROVE  Sums(t, k, a) <=> R(t)
  <2>1. \A i \in 0..k : i # 0 => a[i] = (obj.lanes[i].n % Pow2[w]) * Pow2[w * (i - 1)]
    BY <1>1
  <2> HIDE DEF a
  <2> QED
    BY <2>1 DEF Sums
<1>8. s = CHOOSE t : Sums(t, k, a)
  <2> HIDE DEF R, s, a, k
  <2> QED
    BY <1>6, <1>7, Zenon
<1>9. Sums(s, k, a)
  <2> HIDE DEF s, a
  <2> QED
    BY <1>1, <1>8, SumsExist
<1>10. Digits(s, k, d, w)
  <2>1. \A i \in 0..k : s[i] = IF i = 0 THEN 0 ELSE s[i - 1] + a[i]
    BY <1>9 DEF Sums
  <2>2. \A i \in 1..k : i \in 0..k /\ i # 0 /\ a[i] = d[i] * Pow2[w * (i - 1)]
    OBVIOUS
  <2>3. 0 \in 0..k
    BY <1>1
  <2> HIDE DEF s, a, d
  <2> QED
    BY <1>5, <2>1, <2>2, <2>3 DEF Digits
<1>11. Packed(obj) = s[k]
  BY DEF Packed
<1>12. w * k = 16 * ByteBits
  <2>1. width \in Nat /\ ByteBits \in Nat
    BY <1>1, ShapesAre, Widths
  <2> HIDE DEF width, k, w
  <2>2. (width * ByteBits) * k = (k * width) * ByteBits
    BY <1>1, <2>1
  <2> QED
    BY <1>1, <1>3, <2>2
<1>13. Packed(obj) \in Nat /\ Packed(obj) < Pow2[16 * ByteBits]
  <2>1. k \in 0..k
    BY <1>1
  <2> HIDE DEF s, d, k, w
  <2>2. s[k] \in Nat /\ s[k] < Pow2[w * k]
    BY <1>1, <1>3, <1>10, <2>1, DigitsFit
  <2> QED
    BY <1>11, <1>12, <2>2
<1>14. ASSUME NEW i \in DOMAIN obj.lanes
       PROVE  BytesAt(Packed(obj), width * (i - 1), width) = obj.lanes[i].n % Pow2[w]
  <2>1. i \in 1..k /\ i \in Nat \ {0}
    BY <1>1
  <2>2. LaneOf(Packed(obj), w, i) = BytesAt(Packed(obj), width * (i - 1), width)
    BY <1>1, <1>13, <2>1, LaneIs
  <2>3. d[i] = obj.lanes[i].n % Pow2[w]
    BY <2>1
  <2> HIDE DEF s, d, k, w
  <2>4. (s[k] \div Pow2[w * (i - 1)]) % Pow2[w] = d[i]
    BY <1>1, <1>3, <1>10, <2>1, DigitsRead
  <2> QED
    BY <1>11, <2>2, <2>3, <2>4 DEF LaneOf
<1> QED
  BY <1>13, <1>14

-----------------------------------------------------------------------------
(* Arguments.                                                              *)

\* A token that is no NaN pattern stands for its number only, in every type,
LEMMA StandsIs ==
  ASSUME NEW token, token \notin {Canonical, Arithmetic}, NEW ty, NEW n
  PROVE  Stands(token, ty, n) <=> token = Num(n)
<1>1. ASSUME NEW bits, NEW frac
      PROVE  StandsForFloat(token, bits, frac, n) <=> token = Num(n)
  BY DEF StandsForFloat
<1>2. CASE ty = "f32"
  BY <1>1, <1>2 DEF Stands
<1>3. CASE ty = "f64"
  BY <1>1, <1>3 DEF Stands
<1>4. CASE ty # "f32" /\ ty # "f64"
  BY <1>4 DEF Stands
<1> QED
  BY <1>2, <1>3, <1>4

\* and a number is no pattern and no null.
LEMMA NumberIs ==
  ASSUME NEW token, IsToken(token), token.is = "num"
  PROVE  /\ token = Num(token.n) /\ token.n \in Nat
         /\ token \notin {Canonical, Arithmetic} /\ token # Null
<1>1. token = Num(token.n) /\ token.n \in Nat
  BY DEF IsToken, Num
<1>2. Canonical.is # "num" /\ Arithmetic.is # "num" /\ Null.is # "num"
  BY DEF Canonical, Arithmetic, Null, Text
<1> QED
  BY <1>1, <1>2

\* A number that is accepted as a value of a type.
LEMMA NumberParses ==
  ASSUME NEW obj, IsObject(obj), NEW bits,
         obj.type \in {"i32", "i64", "f32", "f64", "externref"}, bits = Size(obj.type),
         ParseNumber(obj, bits).ok
  PROVE  IsValue(ParseNumber(obj, bits).val) /\ Means(obj, ParseNumber(obj, bits).val)
<1> DEFINE v == Value(obj.type, obj.value.n)
<1>1. obj.value.is = "num" /\ obj.value.n < Pow2[bits]
  BY DEF ParseNumber, Parsed, Err
<1>2. ParseNumber(obj, bits).val = v
  BY <1>1 DEF ParseNumber, Parsed, Ok
<1>3. IsToken(obj.value)
  BY DEF IsObject
<1>4. /\ obj.value = Num(obj.value.n) /\ obj.value.n \in Nat
      /\ obj.value \notin {Canonical, Arithmetic}
  BY <1>1, <1>3, NumberIs
<1>5. v.ty = obj.type /\ v.none = FALSE /\ v.bits = obj.value.n
      /\ v \in [ty : {obj.type}, none : {FALSE}, bits : {obj.value.n}]
  BY DEF Value
<1>6. IsValue(v)
  <2>1. obj.type \in ValueTypes
    BY DEF ValueTypes
  <2>2. v \in [ty : ValueTypes, none : BOOLEAN, bits : Nat]
    BY <1>4, <2>1 DEF Value
  <2> HIDE DEF v
  <2> QED
    BY <1>1, <1>5, <2>2 DEF IsValue
<1>7. Means(obj, v)
  <2>1. Stands(obj.value, v.ty, v.bits)
    BY <1>4, <1>5, StandsIs
  <2>2. v.ty = obj.type /\ v.ty # "v128" /\ v.ty # "funcref" /\ ~ v.none
    BY <1>5
  <2> HIDE DEF v
  <2> QED
    BY <2>1, <2>2 DEF Means
<1> QED
  BY <1>2, <1>6, <1>7

\* The bytes of a vector.
LEMMA VectorParses ==
  ASSUME NEW obj, IsObject(obj), obj.type = "v128", ParseV128(obj).ok
  PROVE  /\ IsValue(ParseV128(obj).val)
         /\ ~ Oversize(obj) => Means(obj, ParseV128(obj).val)
<1> DEFINE v == Value("v128", Packed(obj))
           width == LaneShapes[obj.lane_type][2]
<1>1. ShapeOk(obj) /\ \A i \in DOMAIN obj.lanes : Parsed(obj.lanes[i], Bits64).ok
  BY DEF ParseV128, Err
<1>2. ParseV128(obj).val = v
  BY <1>1 DEF ParseV128, Ok
<1>3. /\ Packed(obj) \in Nat /\ Packed(obj) < Pow2[16 * ByteBits]
      /\ \A i \in DOMAIN obj.lanes :
           BytesAt(Packed(obj), width * (i - 1), width) = obj.lanes[i].n % Pow2[LaneBits(obj)]
  BY <1>1, PackedIs
<1>4. v.ty = "v128" /\ v.none = FALSE /\ v.bits = Packed(obj)
  BY DEF Value
<1>5. IsValue(v)
  <2>1. v \in [ty : ValueTypes, none : BOOLEAN, bits : Nat]
    BY <1>3 DEF Value, ValueTypes
  <2>2. Size("v128") = 16 * ByteBits
    BY DEF Size
  <2> HIDE DEF v
  <2> QED
    BY <1>3, <1>4, <2>1, <2>2 DEF IsValue
<1>6. ASSUME ~ Oversize(obj)
      PROVE  Means(obj, v)
  <2>1. /\ obj.array /\ obj.lane_type \in DOMAIN LaneShapes
        /\ Len(obj.lanes) * width = 16
    BY <1>1, ShapeIs
  <2>2. LaneBits(obj) \in Nat
    BY <2>1, LaneIs
  <2>3. Pow2[LaneBits(obj)] \in Nat
    BY <2>2, Pow2Positive
  <2>4. ASSUME NEW i \in DOMAIN obj.lanes
        PROVE  Stands(obj.lanes[i], obj.lane_type, BytesAt(Packed(obj), width * (i - 1), width))
    <3>1. IsToken(obj.lanes[i]) /\ obj.lanes[i].is = "num"
      BY <1>1 DEF IsObject, Parsed, Err
    <3>2. /\ obj.lanes[i] = Num(obj.lanes[i].n) /\ obj.lanes[i].n \in Nat
          /\ obj.lanes[i] \notin {Canonical, Arithmetic}
      BY <3>1, NumberIs
    <3>3. ~ (obj.lanes[i].n >= Pow2[LaneBits(obj)])
      BY <1>6, <2>1 DEF Oversize
    <3>4. obj.lanes[i].n % Pow2[LaneBits(obj)] = obj.lanes[i].n
      <4> DEFINE n == obj.lanes[i].n
                 p == Pow2[LaneBits(obj)]
      <4>1. n \in Nat /\ p \in Nat /\ n < p
        BY <2>3, <3>2, <3>3
      <4> HIDE DEF n, p
      <4>2. n % p = n
        <5>1. 0 * p + n = n
          BY <4>1
        <5> QED
          BY <4>1, <5>1, DivIs
      <4> QED
        BY <4>2 DEF n, p
    <3>5. BytesAt(Packed(obj), width * (i - 1), width) = obj.lanes[i].n
      BY <1>3, <3>4
    <3> HIDE DEF width
    <3> QED
      BY <3>2, <3>5, StandsIs
  <2>5. MeansLanes(obj, v.bits)
    BY <1>4, <2>1, <2>4 DEF MeansLanes
  <2> HIDE DEF v
  <2> QED
    BY <1>4, <2>5 DEF Means, MeansLanes
<1> QED
  BY <1>2, <1>5, <1>6

\* An argument that is accepted is a value its object means.
LEMMA ParsedIsMeant ==
  ASSUME NEW obj, IsObject(obj), ParseValue(obj).ok
  PROVE  /\ IsValue(ParseValue(obj).val)
         /\ ~ Oversize(obj) => Means(obj, ParseValue(obj).val)
<1>1. CASE obj.type \in {"i32", "f32"}
  <2>1. ParseValue(obj) = ParseNumber(obj, Bits32) /\ Size(obj.type) = Bits32
    BY <1>1 DEF ParseValue, Size
  <2> QED
    BY <1>1, <2>1, NumberParses
<1>2. CASE obj.type \in {"i64", "f64"}
  <2>1. ParseValue(obj) = ParseNumber(obj, Bits64) /\ Size(obj.type) = Bits64
    BY <1>2 DEF ParseValue, Size
  <2> QED
    BY <1>2, <2>1, NumberParses
<1>3. CASE obj.type = "v128"
  <2>1. ParseValue(obj) = ParseV128(obj)
    BY <1>3 DEF ParseValue
  <2> QED
    BY <1>3, <2>1, VectorParses
<1>4. CASE obj.type \in {"externref", "funcref"} /\ obj.value = Null
  <2> DEFINE v == NullOf(obj.type)
  <2>1. ParseValue(obj) = Ok(v)
    BY <1>4 DEF ParseValue
  <2>2. ParseValue(obj).val = v
    BY <2>1 DEF Ok
  <2>3. v.ty = obj.type /\ v.none = TRUE /\ v.bits = 0
    BY DEF NullOf
  <2>4. v \in [ty : ValueTypes, none : BOOLEAN, bits : Nat]
    BY <1>4 DEF NullOf, ValueTypes
  <2>5. Size(obj.type) = Bits32 /\ Bits32 \in Nat
    BY <1>4, Widths DEF Size
  <2>6. 0 < Pow2[Bits32]
    BY <2>5, Pow2Positive
  <2>7. v = NullOf(v.ty)
    BY <2>3
  <2> HIDE DEF v
  <2>8. IsValue(v)
    BY <1>4, <2>3, <2>4, <2>5, <2>6, <2>7 DEF IsValue
  <2>9. Means(obj, v)
    BY <1>4, <2>3 DEF Means
  <2> QED
    BY <2>2, <2>8, <2>9
<1>5. CASE obj.type = "externref" /\ obj.value # Null
  <2>1. ParseValue(obj) = ParseNumber(obj, Bits32) /\ Size(obj.type) = Bits32
    BY <1>5 DEF ParseValue, Size
  <2> QED
    BY <1>5, <2>1, NumberParses
<1>6. CASE obj.type = "funcref" /\ obj.value # Null
  <2>1. ParseValue(obj) = Err
    BY <1>6 DEF ParseValue
  <2> QED
    BY <2>1 DEF Err
<1>7. CASE obj.type \notin {"i32", "f32", "i64", "f64", "v128", "externref", "funcref"}
  <2>1. ParseValue(obj) = Err
    BY <1>7 DEF ParseValue
  <2> QED
    BY <2>1 DEF Err
<1> QED
  BY <1>1, <1>2, <1>3, <1>4, <1>5, <1>6, <1>7

\* A number in the range of its type is accepted.
LEMMA FitsParses ==
  ASSUME NEW n, NEW bits, n < Pow2[bits]
  PROVE  Parsed(Num(n), bits).ok
<1>1. Num(n).is = "num" /\ Num(n).n = n
  BY DEF Num
<1> QED
  BY <1>1 DEF Parsed, Ok

\* An object that means a value, without patterns, is accepted.
LEMMA MeantIsParsed ==
  ASSUME NEW obj, IsObject(obj), NEW v, IsValue(v), Means(obj, v),
         Tokens(obj) \cap {Canonical, Arithmetic} = {}
  PROVE  ParseValue(obj).ok
<1> DEFINE n == v.bits
<1>1. /\ v.ty \in ValueTypes /\ n \in Nat /\ n < Pow2[Size(v.ty)] /\ v.none \in BOOLEAN
      /\ v.none => v.ty \in {"externref", "funcref"}
      /\ obj.type = v.ty
  BY DEF IsValue, Means
<1>2. obj.value \notin {Canonical, Arithmetic}
  BY DEF Tokens
<1>3. \A x : Ok(x).ok
  BY DEF Ok
<1>4. ASSUME v.ty # "v128", ~ v.none
      PROVE  /\ v.ty # "funcref" /\ obj.value = Num(n) /\ obj.value # Null
             /\ ParseNumber(obj, Size(v.ty)).ok
  <2>1. v.ty # "funcref" /\ obj.value = Num(n)
    BY <1>2, <1>4, StandsIs DEF Means
  <2>2. Parsed(obj.value, Size(v.ty)).ok
    BY <1>1, <2>1, FitsParses
  <2>3. ParseNumber(obj, Size(v.ty)).ok
    BY <1>3, <2>2 DEF ParseNumber
  <2>4. obj.value # Null
    BY <2>1 DEF Num, Null, Text
  <2> QED
    BY <2>1, <2>3, <2>4
<1>5. CASE v.ty \in {"i32", "f32"}
  <2>1. ParseValue(obj) = ParseNumber(obj, Bits32) /\ Size(v.ty) = Bits32
    BY <1>1, <1>5 DEF ParseValue, Size
  <2> QED
    BY <1>1, <1>4, <1>5, <2>1
<1>6. CASE v.ty \in {"i64", "f64"}
  <2>1. ParseValue(obj) = ParseNumber(obj, Bits64) /\ Size(v.ty) = Bits64
    BY <1>1, <1>6 DEF ParseValue, Size
  <2> QED
    BY <1>1, <1>4, <1>6, <2>1
<1>7. CASE v.ty = "v128"
  <2> DEFINE width == LaneShapes[obj.lane_type][2]
  <2>1. MeansLanes(obj, n)
    BY <1>7 DEF Means, MeansLanes
  <2>2. ShapeOk(obj) /\ obj.lane_type \in DOMAIN LaneShapes
    BY <2>1, ShapeIs DEF MeansLanes
  <2>3. ASSUME NEW i \in DOMAIN obj.lanes
        PROVE  Parsed(obj.lanes[i], Bits64).ok
    <3> DEFINE m == BytesAt(n, width * (i - 1), width)
    <3>1. obj.lanes[i] \notin {Canonical, Arithmetic}
      BY DEF Tokens
    <3>2. Stands(obj.lanes[i], obj.lane_type, m)
      BY <2>1 DEF MeansLanes
    <3> HIDE DEF m
    <3>3. obj.lanes[i] = Num(m)
      BY <3>1, <3>2, StandsIs
    <3>4. i \in Nat \ {0}
      BY LanesOf
    <3>5. /\ LaneBits(obj) \in Nat /\ LaneBits(obj) <= Bits64
          /\ m \in Nat /\ m < Pow2[LaneBits(obj)]
      <4> HIDE DEF n
      <4> QED
        BY <1>1, <2>2, <3>4, LaneIs DEF m
    <3>6. m < Pow2[Bits64]
      <4>1. Pow2[LaneBits(obj)] <= Pow2[Bits64]
        BY <3>5, Pow2Grows, Widths
      <4>2. Pow2[LaneBits(obj)] \in Nat /\ Pow2[Bits64] \in Nat
        BY <3>5, Widths, Pow2Positive
      <4> QED
        BY <3>5, <4>1, <4>2
    <3> QED
      BY <3>3, <3>6, FitsParses
  <2>4. ParseV128(obj).ok
    BY <1>3, <2>2, <2>3 DEF ParseV128
  <2>5. ParseValue(obj) = ParseV128(obj)
    BY <1>1, <1>7 DEF ParseValue
  <2> QED
    BY <2>4, <2>5
<1>8. CASE v.ty \in {"externref", "funcref"} /\ v.none
  <2>1. obj.value = Null
    BY <1>8 DEF Means
  <2>2. ParseValue(obj) = Ok(NullOf(obj.type))
    BY <1>1, <1>8, <2>1 DEF ParseValue
  <2> QED
    BY <1>3, <2>2
<1>9. CASE v.ty \in {"externref", "funcref"} /\ ~ v.none
  <2>1. v.ty = "externref" /\ obj.value # Null /\ ParseNumber(obj, Size(v.ty)).ok
    BY <1>4, <1>9
  <2>2. ParseValue(obj) = ParseNumber(obj, Bits32) /\ Size(v.ty) = Bits32
    BY <1>1, <2>1 DEF ParseValue, Size
  <2> QED
    BY <2>1, <2>2
<1> QED
  BY <1>1, <1>5, <1>6, <1>7, <1>8, <1>9 DEF ValueTypes

-----------------------------------------------------------------------------
(* The invariant.                                                          *)

\* Until an argument is accepted the value is the initial one, which no
\* object that is rejected means.
VerdictInv ==
  /\ TypeOK /\ verdict \in {"none", "PASS", "FAIL"}
  /\ stage = "argument" => value = NullOf("externref")
  /\ stage = "judged" => (verdict = "PASS") = Means(object, value)

\* An object that is rejected does not mean the null of an external reference.
LEMMA RejectedIsNoNull ==
  ASSUME NEW obj, ~ ParseValue(obj).ok
  PROVE  ~ Means(obj, NullOf("externref"))
<1> DEFINE v == NullOf("externref")
<1>1. v.ty = "externref" /\ v.none = TRUE
  BY DEF NullOf
<1> SUFFICES ASSUME Means(obj, v)
             PROVE  ParseValue(obj).ok
  OBVIOUS
<1> HIDE DEF v
<1>2. obj.type = "externref" /\ obj.value = Null
  BY <1>1 DEF Means
<1>3. ParseValue(obj) = Ok(NullOf(obj.type))
  BY <1>2 DEF ParseValue
<1> QED
  BY <1>3 DEF Ok

LEMMA InitVerdict == Init => VerdictInv
<1> SUFFICES ASSUME Init
             PROVE  VerdictInv
  OBVIOUS
<1>1. /\ stage = "argument" /\ object = NoObject
      /\ value = NullOf("externref") /\ verdict = "none"
  BY DEF Init
<1> DEFINE v == NullOf("externref")
<1>2. v.ty = "externref" /\ v.none = TRUE /\ v.bits = 0 /\ v = NullOf(v.ty)
      /\ v \in [ty : ValueTypes, none : BOOLEAN, bits : Nat]
  BY DEF NullOf, ValueTypes
<1>3. Size("externref") = Bits32 /\ Bits32 \in Nat
  BY Widths DEF Size
<1>4. 0 < Pow2[Bits32]
  BY <1>3, Pow2Positive
<1> HIDE DEF v
<1>5. IsValue(v)
  BY <1>2, <1>3, <1>4 DEF IsValue
<1> QED
  BY <1>1, <1>5 DEF VerdictInv, TypeOK, v

\* An argument keeps the invariant and is what its object says.
LEMMA ArgumentStep ==
  ASSUME VerdictInv, Argument
  PROVE  /\ VerdictInv'
         /\ stage' = "called" /\ ~ Oversize(object') => Means(object', value')
         /\ (\E v \in Returned : Means(object', v))
              /\ Tokens(object') \cap {Canonical, Arithmetic} = {} => stage' = "called"
<1> DEFINE p == ParseValue(object')
<1>1. /\ stage = "argument" /\ object' \in Objects
      /\ IF p.ok THEN value' = p.val /\ stage' = "called" /\ UNCHANGED verdict
                 ELSE verdict' = "FAIL" /\ stage' = "judged" /\ UNCHANGED value
  BY DEF Argument
<1>2. /\ IsValue(value) /\ verdict = "none" /\ value = NullOf("externref")
  BY <1>1 DEF VerdictInv, TypeOK
<1>3. IsObject(object')
  BY <1>1, ObjectsAre
<1>4. p.ok => IsValue(p.val) /\ (~ Oversize(object') => Means(object', p.val))
  BY <1>3, ParsedIsMeant
<1>5. ~ p.ok => ~ Means(object', NullOf("externref"))
  BY RejectedIsNoNull
<1>6. ASSUME NEW v \in Returned, Means(object', v), Tokens(object') \cap {Canonical, Arithmetic} = {}
      PROVE  p.ok
  <2>1. IsValue(v)
    BY ConvertAssumption
  <2> QED
    BY <1>3, <1>6, <2>1, MeantIsParsed
<1> HIDE DEF p
<1>7. CASE p.ok
  <2>1. value' = p.val /\ stage' = "called" /\ verdict' = "none"
    BY <1>1, <1>2, <1>7
  <2>2. VerdictInv'
    BY <1>1, <1>4, <1>7, <2>1 DEF VerdictInv, TypeOK
  <2> QED
    BY <1>4, <1>7, <2>1, <2>2
<1>8. CASE ~ p.ok
  <2>1. value' = NullOf("externref") /\ stage' = "judged" /\ verdict' = "FAIL"
    BY <1>1, <1>2, <1>8
  <2>2. IsValue(value') /\ ~ Means(object', value')
    BY <1>2, <1>5, <1>8, <2>1
  <2>3. (verdict' = "PASS") = Means(object', value')
    <3>1. Means(object', value') \in BOOLEAN
      BY DEF Means
    <3> HIDE DEF Means
    <3> QED
      BY <2>1, <2>2, <3>1
  <2>4. VerdictInv'
    BY <1>1, <2>1, <2>2, <2>3 DEF VerdictInv, TypeOK
  <2> QED
    BY <1>6, <1>8, <2>1, <2>4
<1> QED
  BY <1>7, <1>8

\* What a call returns is a value.
LEMMA ReturnStep ==
  ASSUME VerdictInv, Return
  PROVE  VerdictInv'
<1>1. /\ stage = "called" /\ value' \in Returned \cup {value}
      /\ stage' = "returned" /\ object' = NoObject /\ verdict' = verdict
  BY DEF Return
<1>2. IsValue(value) /\ verdict = "none"
  BY <1>1 DEF VerdictInv, TypeOK
<1>3. IsValue(value')
  BY <1>1, <1>2, ConvertAssumption
<1> QED
  BY <1>1, <1>2, <1>3 DEF VerdictInv, TypeOK

\* A verdict is the meaning of what is expected.
LEMMA ExpectStep ==
  ASSUME VerdictInv, Expect
  PROVE  VerdictInv'
<1> DEFINE m == MatchExpected(value, object')
<1>1. /\ stage = "returned" /\ object' \in Objects
      /\ verdict' = IF m.ok /\ m.val THEN "PASS" ELSE "FAIL"
      /\ stage' = "judged" /\ value' = value
  BY DEF Expect
<1>2. IsValue(value)
  BY DEF VerdictInv, TypeOK
<1>3. Passes(m) <=> Means(object', value)
  BY <1>1, <1>2, ObjectsAre, MatchIsMeaning
<1>4. (verdict' = "PASS") <=> Passes(m)
  <2> HIDE DEF m
  <2> QED
    BY <1>1 DEF Passes
<1>5. verdict' \in {"PASS", "FAIL"}
  <2> HIDE DEF m
  <2> QED
    BY <1>1
<1> HIDE DEF m
<1>6. (verdict' = "PASS") = Means(object', value')
  <2>1. Means(object', value') \in BOOLEAN
    BY DEF Means
  <2>2. (verdict' = "PASS") <=> Means(object', value')
    BY <1>1, <1>3, <1>4
  <2> HIDE DEF Means
  <2> QED
    BY <2>1, <2>2
<1>7. verdict' # "none" /\ stage' # "argument"
  BY <1>1, <1>5
<1> QED
  BY <1>1, <1>2, <1>5, <1>6, <1>7 DEF VerdictInv, TypeOK

LEMMA VerdictInvKept == VerdictInv /\ [Next]_vars => VerdictInv'
<1> SUFFICES ASSUME VerdictInv, [Next]_vars
             PROVE  VerdictInv'
  OBVIOUS
<1>1. CASE Argument
  BY <1>1, ArgumentStep
<1>2. CASE Return
  BY <1>2, ReturnStep
<1>3. CASE Expect
  BY <1>3, ExpectStep
<1>4. CASE UNCHANGED vars
  <2>1. stage' = stage /\ object' = object /\ value' = value /\ verdict' = verdict
    BY <1>4 DEF vars
  <2> QED
    BY <2>1 DEF VerdictInv, TypeOK
<1> QED
  BY <1>1, <1>2, <1>3, <1>4 DEF Next

LEMMA VerdictInvHolds == Spec => []VerdictInv
<1> QED
  BY InitVerdict, VerdictInvKept, PTL DEF Spec

-----------------------------------------------------------------------------
(* The results.                                                            *)

\* match_expected (convert.rs:70-158) passes a result exactly when it is a
\* value the expected object means: for bytes and floats of every width,
\* every object of the corpus and every value a call returns.
THEOREM VerdictsAreMeant == Spec => []VerdictIsMeaning
<1>1. VerdictInv => VerdictIsMeaning
  BY DEF VerdictInv, VerdictIsMeaning
<1> QED
  BY <1>1, VerdictInvHolds, PTL

\* parse_value (convert.rs:10-68) turns an object into a value it means, and
\* does so for every object that means one.
THEOREM ArgumentsAreMeant == Spec => ArgumentIsMeant
<1> DEFINE A == stage = "argument" /\ ~Oversize(object') =>
       /\ stage' = "called" => Means(object', value')
       /\ (\E v \in Returned : Means(object', v)) /\ Tokens(object') \cap {Canonical, Arithmetic} = {}
            => stage' = "called"
<1>1. VerdictInv /\ [Next]_vars => [A]_vars
  <2> SUFFICES ASSUME VerdictInv, Next
               PROVE  A
    OBVIOUS
  <2>1. CASE Argument
    BY <2>1, ArgumentStep
  <2>2. CASE Return \/ Expect
    BY <2>2 DEF Return, Expect
  <2> QED
    BY <2>1, <2>2 DEF Next
<1> HIDE DEF A
<1>2. Spec => [][A]_vars
  BY <1>1, VerdictInvHolds, PTL DEF Spec
<1> QED
  BY <1>2 DEF ArgumentIsMeant, A
=============================================================================
