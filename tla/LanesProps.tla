---------------------------- MODULE LanesProps ----------------------------
(***************************************************************************)
(* What the vector instructions mean, by the WebAssembly specification:    *)
(* over the numbers and the bits of the lanes, without the functions of    *)
(* Lanes that stand for the closures of simd.rs.                           *)
(***************************************************************************)
EXTENDS Lanes, FiniteSets

Done(os) == result # None /\ todo.op \in os
K == todo.k
\* Lane i of vector v at level k, and the number it is
At(v, k, i) == (v \div 2^(i * W * 2^k)) % 2^(W * 2^k)
IntOf(x, k, sx) == IF sx /\ x >= 2^(W * 2^k - 1) THEN x - 2^(W * 2^k) ELSE x
BitAt(v, j) == (v \div 2^j) % 2
Idx(k) == 0 .. (N \div 2^k) - 1
Wide(k) == 2^(W * 2^k)                    \* patterns of a lane
Range(k, sx) == IF sx THEN -(Wide(k) \div 2) .. (Wide(k) \div 2) - 1 ELSE 0 .. Wide(k) - 1
Size(n) == IF n < 0 THEN -n ELSE n
A(i) == At(todo.a, K, i)
B(i) == At(todo.b, K, i)
R(i) == At(result, K, i)
x_(i) == IntOf(A(i), K, todo.sx)
y_(i) == IntOf(B(i), K, todo.sx)

\* Results fit a vector, or the scalar an extraction or a reduction gives.
TypeOK ==
  /\ todo = None => result = None
  /\ result \notin {None, Panic} =>
       result \in 0 .. (IF todo.op = "extract" THEN 2^(W * IF K = 3 THEN 8 ELSE 4)
                        ELSE IF todo.op \in {"any_true", "all_true"} THEN 2
                        ELSE IF todo.op = "bitmask" THEN 2^(N \div 2^K) ELSE 2^(W * N)) - 1

\* The sums and products the code writes with plain + and * fit the types it
\* widens to, for all lanes: no build with overflow checks panics (avgr_u,
\* q15mulr_sat_s, extadd_pairwise, extmul, dot).
IntermediatesFit == result # Panic

\* r, read as a number of the type, is the nearest one to n that the type has
Nearest(r, n, k, sx) ==
  /\ IntOf(r, k, sx) \in Range(k, sx)
  /\ n \in Range(k, sx) => IntOf(r, k, sx) = n
  /\ n \notin Range(k, sx) => \A z \in Range(k, sx) : Size(IntOf(r, k, sx) - n) <= Size(z - n)

\* Saturating additions, subtractions, narrowings and the Q15 product give,
\* in every lane, the nearest number to the exact one (rounded at the half
\* upwards for Q15); a narrowing has first its lanes of a, then those of b,
\* and reads them as signed whatever type it narrows to.
SaturationIsNearest ==
  /\ Done({"add_sat"}) => \A i \in Idx(K) : Nearest(R(i), x_(i) + y_(i), K, todo.sx)
  /\ Done({"sub_sat"}) => \A i \in Idx(K) : Nearest(R(i), x_(i) - y_(i), K, todo.sx)
  /\ Done({"q15mulr"}) => \A i \in Idx(K) :
       LET one == Wide(K) \div 2
           p == IntOf(A(i), K, TRUE) * IntOf(B(i), K, TRUE)
       IN \E m \in -one .. one : /\ 2 * p - one < 2 * m * one
                                 /\ 2 * m * one <= 2 * p + one /\ Nearest(R(i), m, K, TRUE)
  /\ Done({"narrow"}) => \A j \in Idx(K - 1) :
       LET n == N \div 2^K
           from == IF j < n THEN A(j) ELSE B(j - n)
       IN Nearest(At(result, K - 1, j), IntOf(from, K, TRUE), K - 1, todo.sx)

\* Lanes of a result twice as wide are the exact numbers: those of the low or
\* high half, extended or multiplied, or sums of neighbours; a dot product
\* wraps in its one case that does not fit.
WideningIsExact ==
  Done({"extend", "extmul", "extadd", "dot"}) =>
    \A i \in Idx(K + 1) :
      LET h == IF todo.hi THEN i + N \div 2^(K + 1) ELSE i
          r == IntOf(At(result, K + 1, i), K + 1, todo.sx)
      IN CASE todo.op = "extend" -> r = x_(h)
           [] todo.op = "extmul" -> r = x_(h) * y_(h)
           [] todo.op = "extadd" -> r = x_(2 * i) + x_(2 * i + 1)
           [] todo.op = "dot" ->
                LET d == x_(2 * i) * y_(2 * i) + x_(2 * i + 1) * y_(2 * i + 1)
                IN (r - d) % Wide(K + 1) = 0 /\ (r # d => d = Wide(K + 1) \div 2)

\* Wrapping arithmetic agrees with the numbers in every lane and carries
\* nothing into the next; the rest is the one of two numbers, their mean
\* rounded up, a magnitude (of the least number: itself) or a count.
ArithmeticStaysInLane ==
  Done({"add", "sub", "mul", "neg", "abs", "min", "max", "avgr", "popcnt"}) =>
    \A i \in Idx(K) :
      LET r == IntOf(R(i), K, todo.sx)
          Same(n) == (R(i) - n) % Wide(K) = 0
      IN CASE todo.op = "add" -> Same(A(i) + B(i))
           [] todo.op = "sub" -> Same(A(i) - B(i))
           [] todo.op = "mul" -> Same(IntOf(A(i), K, TRUE) * IntOf(B(i), K, TRUE))
           [] todo.op = "neg" -> Same(-A(i))
           [] todo.op = "abs" -> Same(Size(IntOf(A(i), K, TRUE))) /\ R(i) <= Wide(K) \div 2
           [] todo.op = "min" -> r \in {x_(i), y_(i)} /\ r <= x_(i) /\ r <= y_(i)
           [] todo.op = "max" -> r \in {x_(i), y_(i)} /\ r >= x_(i) /\ r >= y_(i)
           [] todo.op = "avgr" -> 2 * r - A(i) - B(i) \in {0, 1}
           [] todo.op = "popcnt" -> R(i) = Cardinality({j \in 0 .. W * 2^K - 1 : BitAt(A(i), j) = 1})

\* Every bit of a shifted lane comes from the same lane, as far away as the
\* count modulo the width of the lane, or is a zero or the lane's sign.
ShiftsStayInLane ==
  Done({"shl", "shr"}) =>
    LET w == W * 2^K
        n == todo.x % w
        From(j) == IF todo.op = "shl" THEN j - n ELSE j + n
    IN \A i \in Idx(K) : \A j \in 0 .. w - 1 :
         BitAt(R(i), j) = IF From(j) \in 0 .. w - 1 THEN BitAt(A(i), From(j))
                          ELSE IF todo.sx THEN BitAt(A(i), w - 1) ELSE 0

\* Comparisons fill each lane with the truth of the relation of its numbers;
\* a bitmask has the sign of lane i in bit i; a vector is any-true when some
\* byte is not zero and all-true at a level when every lane has such a byte.
TruthByLane ==
  /\ Done({"eq", "ne", "lt", "gt", "le", "ge"}) =>
       \A i \in Idx(K) :
         LET holds == CASE todo.op = "eq" -> A(i) = B(i) [] todo.op = "ne" -> A(i) # B(i)
                        [] todo.op = "lt" -> x_(i) < y_(i) [] todo.op = "gt" -> x_(i) > y_(i)
                        [] todo.op = "le" -> x_(i) <= y_(i) [] todo.op = "ge" -> x_(i) >= y_(i)
         IN \A j \in 0 .. W * 2^K - 1 : BitAt(R(i), j) = IF holds THEN 1 ELSE 0
  /\ Done({"bitmask"}) => \A i \in Idx(K) : BitAt(result, i) = BitAt(todo.a, (i + 1) * W * 2^K - 1)
  /\ Done({"any_true"}) => (result = 1) = (\E j \in Idx(0) : At(todo.a, 0, j) # 0)
  /\ Done({"all_true"}) =>
       (result = 1) = (\A i \in Idx(K) : \E j \in i * 2^K .. (i + 1) * 2^K - 1 : At(todo.a, 0, j) # 0)

\* Swizzle, shuffle and the lane instructions move whole bytes: an index past
\* the vector selects a zero or the second operand, a replaced lane leaves
\* the others, a lane taken out of a splat or a replacement is the scalar's
\* low bits.  The logic instructions choose bit by bit.
BytesAreSelected ==
  /\ Done({"swizzle"}) => \A i \in Idx(0) :
       At(result, 0, i) = IF B(i) \in Idx(0) THEN A(B(i)) ELSE 0
  /\ Done({"shuffle"}) => \A i \in Idx(0) : \E j \in 0 .. 2 * N - 1 :
       j = todo.x[i] /\ R(i) = IF j \in Idx(0) THEN A(j) ELSE B(j - N)
  /\ Done({"splat"}) => \A i \in Idx(0) : At(result, 0, i) = At(todo.x, 0, i % 2^K)
  /\ Done({"replace"}) => \A i \in Idx(0) :
       LET in == i \div 2^K = todo.b
       IN At(result, 0, i) = IF in THEN At(todo.x, 0, i % 2^K) ELSE At(todo.a, 0, i)
  /\ Done({"extract"}) =>
       (result - IntOf(At(todo.a, K, todo.b), K, todo.sx)) % 2^(W * IF K = 3 THEN 8 ELSE 4) = 0
  /\ Done({"and", "andnot", "or", "xor", "not", "bitselect"}) =>
       \A j \in 0 .. W * N - 1 :
         LET p == BitAt(todo.a, j) = 1
             q == todo.op # "not" /\ BitAt(todo.b, j) = 1
         IN (BitAt(result, j) = 1) =
              CASE todo.op = "and" -> p /\ q [] todo.op = "andnot" -> p /\ ~q
                [] todo.op = "or" -> p \/ q [] todo.op = "xor" -> p # q [] todo.op = "not" -> ~p
                [] todo.op = "bitselect" -> IF BitAt(todo.x, j) = 1 THEN p ELSE q

\* Floats in lanes: relations are those of the numbers, of which a NaN has
\* none but inequality; pmin and pmax give their first operand unless the
\* second is strictly smaller or larger, so also for NaNs and for two zeros;
\* truncations to integers are the number towards zero or the nearest end of
\* the type, zero for a NaN, with the lanes a narrower operand lacks zero.
FloatsByLane ==
  LET t == IF K = 2 THEN "f32" ELSE "f64"
      half(k) == Wide(k) \div 2
      Nan(f, u, k) == f % half(k) > (2^Exp[u] - 1) * 2^Frac[u]
      Key(f) == IF f >= half(K) THEN half(K) - f ELSE f
      Rel(f, g) == IF Nan(f, t, K) \/ Nan(g, t, K) THEN "none"
                   ELSE IF Key(f) = Key(g) THEN "=" ELSE IF Key(f) < Key(g) THEN "<" ELSE ">"
      \* r is the float f of type u at level k, cut to an i32 lane
      Cut(r, f, u, k) ==
        LET one == Sc!One(u)
            n == Sc!Steps(f, u)
            z == IntOf(r, 2, todo.sx)
            lo == IF todo.sx THEN -half(2) ELSE 0
            hi == (IF todo.sx THEN half(2) ELSE Wide(2)) - 1
        IN IF Nan(f, u, k) THEN r = 0
           ELSE IF n <= (lo - 1) * one THEN z = lo ELSE IF n >= (hi + 1) * one THEN z = hi
           ELSE Size(z * one) <= Size(n) /\ Size(n - z * one) < one
  IN /\ Done({"feq", "fne", "flt", "fgt", "fle", "fge"}) => \A i \in Idx(K) :
          R(i) = IF Rel(A(i), B(i)) \in
                      CASE todo.op = "feq" -> {"="} [] todo.op = "fne" -> {"<", ">", "none"}
                        [] todo.op = "flt" -> {"<"} [] todo.op = "fle" -> {"<", "="}
                        [] todo.op = "fgt" -> {">"} [] todo.op = "fge" -> {">", "="}
                 THEN Wide(K) - 1 ELSE 0
     /\ Done({"pmin"}) => \A i \in Idx(K) : R(i) = IF Rel(A(i), B(i)) = ">" THEN B(i) ELSE A(i)
     /\ Done({"pmax"}) => \A i \in Idx(K) : R(i) = IF Rel(A(i), B(i)) = "<" THEN B(i) ELSE A(i)
     /\ Done({"fmin", "fmax", "fceil", "ffloor", "ftrunc", "fnearest"}) => \A i \in Idx(K) :
          Nan(R(i), t, K) = (Nan(A(i), t, K) \/ (todo.op \in {"fmin", "fmax"} /\ Nan(B(i), t, K)))
     /\ Done({"trunc_sat"}) => \A i \in Idx(2) : Cut(R(i), A(i), "f32", 2)
     /\ Done({"trunc_zero"}) => \A i \in Idx(2) :
          IF i \in Idx(3) THEN Cut(At(result, 2, i), A(i), "f64", 3) ELSE At(result, 2, i) = 0
=============================================================================
