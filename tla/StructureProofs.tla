--------------------------- MODULE StructureProofs --------------------------
(***************************************************************************)
(* Proofs about decoded and checked bodies (Body, Machine): the decoder's  *)
(* targets and the validator's control frames both follow the nesting of   *)
(* the operators, for every module and bodies of any length.               *)
(***************************************************************************)
EXTENDS MachineProps, SequenceTheorems, FiniteSetTheorems, WellFoundedInduction, TLAPS

-----------------------------------------------------------------------------
(* The invariant.                                                          *)

\* The blocks open before each position of a body, outermost first: what the
\* decoder keeps in `open`, as a function of the operators alone.
OpenNext(s, i, p) ==
  IF i.op \in Openers THEN Append(s, p)
  ELSE IF i.op = "end" /\ s # <<>> THEN Front(s)
  ELSE s

OpenAt(b) ==
  LET at[q \in 1 .. Len(b) + 1] ==
        IF q = 1 THEN <<>> ELSE OpenNext(at[q - 1], b[q - 1], q - 1)
  IN at

Instructions == InstrOf(Nat)

\* Position q is inside the block opened at p, and in no block in between.
Directly(b, p, q) ==
  q \in p + 1 .. Len(b) /\ OpenAt(b)[q] = Append(OpenAt(b)[p], p)

\* The block opened at p continues after its end.
Closed(b, p) == b[p].end \in Nat \ {0} /\ Directly(b, p, b[p].end - 1) /\ b[b[p].end - 1].op = "end"

\* The if at p has an else, and both continue at the same place.
HasElse(b, p) ==
  LET q == b[p].else_ - 1 IN
  /\ b[p].else_ \in Nat \ {0}
  /\ Directly(b, p, q) /\ b[q].op = "else" /\ b[q].end = b[p].end

\* What the decoder knows of position p while the blocks s are still open, and
\* whether the body is complete.
PlaceOk(b, s, done, p) ==
  /\ b[p].op \in Openers => IF \E j \in DOMAIN s : s[j] = p THEN b[p].end = 0 ELSE Closed(b, p)
  /\ b[p].op = "if" => b[p].else_ = b[p].end \/ HasElse(b, p)
  /\ b[p].op = "else" =>
       /\ OpenAt(b)[p] # <<>> /\ b[Last(OpenAt(b)[p])].op = "if"
       /\ b[Last(OpenAt(b)[p])].else_ = p + 1
  /\ b[p].op = "end" => (OpenAt(b)[p] = <<>>) = (done /\ p = Len(b))

BodyOk(b, s, done) ==
  /\ b \in Seq(Instructions)
  /\ s = OpenAt(b)[Len(b) + 1]
  /\ \A p \in 1..Len(b) : PlaceOk(b, s, done, p)
  /\ done => b # <<>> /\ b[Len(b)].op = "end" /\ OpenAt(b)[Len(b)] = <<>>

\* The decoder works through the bodies one after the other.
DecodeInv ==
  /\ fn \in Local
  /\ bodies \in [DOMAIN Funcs -> Seq(Instructions)]
  /\ IF phase \in {"decode", "malformed"}
     THEN \A f \in Local :
            /\ f < fn => BodyOk(bodies[f], <<>>, TRUE)
            /\ f = fn => BodyOk(bodies[f], open, FALSE)
            /\ f > fn => bodies[f] = <<>>
     ELSE \A f \in Local : BodyOk(bodies[f], <<>>, TRUE)

CtrlType ==
  [kind : {"block", "loop", "if", "else"}, ins : Seq(BodyType), outs : Seq(BodyType),
   height : Nat, unreachable : BOOLEAN]
CheckerType == [stack : Seq(BodyType \cup {Bot}), ctrls : Seq(CtrlType)]

\* The operands an opener takes besides the parameters of its block, and what
\* is below them.
Taken(i) == Len(Types[i.bt].ins) + IF i.op = "if" THEN 1 ELSE 0
Under(d, i) == Popped(d, Taken(i)).stack

\* Past its else, an if is an else.
Kind(i, q) == IF i.op = "if" /\ i.else_ # i.end /\ i.else_ <= q THEN "else" ELSE i.op

\* Label j + 1 of the checker c at q is the block opened at p when the checker
\* was d.
BlockOk(b, c, q, j, p, d) ==
  LET i == b[p]
      t == Types[i.bt]
      l == c.ctrls[j + 1]
  IN
  /\ i.bt \in DOMAIN Types /\ Len(d.ctrls) = j
  /\ \A m \in 1..j : c.ctrls[m] = d.ctrls[m]
  /\ l.ins = t.ins /\ l.outs = t.outs /\ l.height = Len(Under(d, i))
  /\ \A m \in 1..Len(Under(d, i)) : c.stack[m] = Under(d, i)[m]
  /\ l.kind = Kind(i, q)

\* The labels are nested in the stack.
HeightsOk(c) ==
  \A j \in 1..Len(c.ctrls) :
    /\ c.ctrls[j].height <= Len(c.stack)
    /\ \A m \in 1..j : c.ctrls[m].height <= c.ctrls[j].height

\* The checker at q has the blocks that are open there.
StateOk(f, b, cs, q) ==
  LET c == cs[q]
      s == OpenAt(b)[q]
  IN
  /\ c \in CheckerType
  /\ Len(c.ctrls) = Len(s) + 1 /\ HeightsOk(c)
  /\ c.ctrls[1].kind = "block" /\ c.ctrls[1].ins = <<>> /\ c.ctrls[1].height = 0
  /\ c.ctrls[1].outs = FuncTypeOf(f).outs
  /\ \A j \in 1..Len(s) : BlockOk(b, c, q, j, s[j], cs[s[j]])

ChecksOk(f, b, cs) ==
  /\ Len(cs) \in 1 .. Len(b) + 1
  /\ \A q \in 1 .. Len(cs) - 1 : Accepts(f, cs[q], b[q]) /\ cs[q + 1] = Checked(f, cs[q], b[q])
  /\ \A q \in 1..Len(cs) :
       IF q <= Len(b) THEN StateOk(f, b, cs, q)
       ELSE cs[q] = [stack |-> FuncTypeOf(f).outs, ctrls |-> <<>>]

AllChecked(f, b, cs) == ChecksOk(f, b, cs) /\ Len(cs) = Len(b) + 1

CheckInv ==
  /\ checked \in [DOMAIN Funcs -> Seq(CheckerType)]
  /\ CASE phase \in {"decode", "malformed"} -> \A f \in Local : checked[f] = <<>>
       [] phase \in {"validate", "invalid"} ->
            \A f \in Local :
              /\ f < fn => AllChecked(f, bodies[f], checked[f])
              /\ f = fn => ChecksOk(f, bodies[f], checked[f])
              /\ f > fn => checked[f] = <<>>
       [] OTHER -> \A f \in Local : AllChecked(f, bodies[f], checked[f])

StructInv == DecodeInv /\ CheckInv

-----------------------------------------------------------------------------
(* Numbers and sequences.                                                  *)

\* A set of numbers has a least one.
LEMMA LeastNatural ==
  ASSUME NEW T, T \subseteq Nat, T # {}
  PROVE  \E x \in T : \A y \in T : x <= y
<1> DEFINE R == OpToRel(<, Nat)
<1>1. IsWellFoundedOn(R, Nat)
  BY NatLessThanWellFounded
<1>2. \A x, y \in Nat : y < x => <<y, x>> \in R
  BY DEF OpToRel
<1> HIDE DEF R
<1>3. \E x \in T : \A y \in T : ~ (<<y, x>> \in R)
  BY <1>1, WFMin
<1> PICK x \in T : \A y \in T : ~ (<<y, x>> \in R)
  BY <1>3
<1>4. ASSUME NEW y \in T
      PROVE  x <= y
  <2>1. ~ (<<y, x>> \in R) /\ x \in Nat /\ y \in Nat
    OBVIOUS
  <2>2. ~ (y < x)
    BY <2>1, <1>2
  <2> QED
    BY <2>1, <2>2
<1> QED
  BY <1>4

\* A set that has 0 and every successor of a number it has, has every number.
LEMMA NaturalsIn ==
  ASSUME NEW T, 0 \in T, \A n \in Nat : n \in T => n + 1 \in T
  PROVE  \A n \in Nat : n \in T
<1> SUFFICES ASSUME Nat \ T # {}
             PROVE  FALSE
  OBVIOUS
<1>1. PICK x \in Nat \ T : \A y \in Nat \ T : x <= y
  BY LeastNatural
<1>2. x # 0 /\ x - 1 \in Nat
  OBVIOUS
<1>3. x - 1 \in T
  BY <1>1, <1>2
<1> QED
  BY <1>2, <1>3

\* The smaller of two numbers.
LEMMA MinOfTwo ==
  ASSUME NEW x \in Int, NEW y \in Int
  PROVE  Min({x, y}) = IF x <= y THEN x ELSE y
<1> DEFINE m == IF x <= y THEN x ELSE y
<1>1. m \in {x, y} /\ \A z \in {x, y} : m <= z
  OBVIOUS
<1>2. \A w \in {x, y} : (\A z \in {x, y} : w <= z) => w = m
  OBVIOUS
<1> HIDE DEF m
<1>3. Min({x, y}) \in {x, y} /\ \A z \in {x, y} : Min({x, y}) <= z
  BY <1>1 DEF Min
<1> QED
  BY <1>2, <1>3 DEF m

\* All but the last element.
LEMMA FrontOk ==
  ASSUME NEW S, NEW s \in Seq(S), s # <<>>
  PROVE  /\ Front(s) \in Seq(S) /\ Len(s) \in Nat \ {0} /\ Len(Front(s)) = Len(s) - 1
         /\ \A i \in 1 .. Len(s) - 1 : Front(s)[i] = s[i]
         /\ Last(s) \in S /\ Last(s) = s[Len(s)]
<1>1. Len(s) \in Nat \ {0}
  BY EmptySeq
<1>2. \A i \in 1 .. Len(s) - 1 : s[i] \in S
  BY <1>1, ElementOfSeq
<1>3. /\ SubSeq(s, 1, Len(s) - 1) \in Seq(S)
      /\ Len(SubSeq(s, 1, Len(s) - 1)) = IF 1 <= Len(s) - 1 THEN (Len(s) - 1) - 1 + 1 ELSE 0
      /\ \A i \in 1 .. (Len(s) - 1) - 1 + 1 : SubSeq(s, 1, Len(s) - 1)[i] = s[1 + i - 1]
  BY <1>1, <1>2, SubSeqProperties
<1>4. s[Len(s)] \in S
  BY <1>1, ElementOfSeq
<1>5. Len(Front(s)) = Len(s) - 1
  <2> DEFINE n == Len(s)
             l == Len(SubSeq(s, 1, n - 1))
  <2>1. l = IF 1 <= n - 1 THEN (n - 1) - 1 + 1 ELSE 0
    BY <1>3
  <2>2. n \in Nat \ {0}
    BY <1>1
  <2>3. l = n - 1
    <3> HIDE DEF n, l
    <3> QED
      BY <2>1, <2>2
  <2> QED
    BY <2>3 DEF Front
<1>6. \A i \in 1 .. Len(s) - 1 : Front(s)[i] = s[i]
  <2> TAKE i \in 1 .. Len(s) - 1
  <2>1. i \in 1 .. (Len(s) - 1) - 1 + 1 /\ 1 + i - 1 = i
    BY <1>1
  <2> QED
    BY <1>3, <2>1 DEF Front
<1> QED
  BY <1>1, <1>3, <1>4, <1>5, <1>6 DEF Front, Last

\* One more element.
LEMMA AppendOk ==
  ASSUME NEW S, NEW s \in Seq(S), NEW e \in S
  PROVE  /\ Append(s, e) \in Seq(S) /\ Append(s, e) # <<>>
         /\ Len(s) \in Nat /\ Len(Append(s, e)) = Len(s) + 1
         /\ \A i \in 1..Len(s) : Append(s, e)[i] = s[i]
         /\ Append(s, e)[Len(s) + 1] = e /\ Last(Append(s, e)) = e
BY AppendProperties, LenProperties DEF Last

-----------------------------------------------------------------------------
(* Nesting.                                                                *)

\* The recursive definition of OpenAt defines a function.
LEMMA OpenAtDef ==
  ASSUME NEW b, Len(b) \in Nat
  PROVE  OpenAt(b) =
           [q \in 1 .. Len(b) + 1 |->
              IF q = 1 THEN <<>> ELSE OpenNext(OpenAt(b)[q - 1], b[q - 1], q - 1)]
<1> DEFINE Step(f, q) == IF q = 1 THEN <<>> ELSE OpenNext(f[q - 1], b[q - 1], q - 1)
           T == {n \in Nat : \E f : f = [q \in 1 .. n + 1 |-> Step(f, q)]}
<1>1. 0 \in T
  <2> DEFINE f == [q \in 1 .. 0 + 1 |-> <<>>]
  <2>1. f = [q \in 1 .. 0 + 1 |-> Step(f, q)]
    OBVIOUS
  <2> HIDE DEF f, Step
  <2> QED
    BY <2>1
<1>2. ASSUME NEW n \in Nat, n \in T
      PROVE  n + 1 \in T
  <2> PICK f : f = [q \in 1 .. n + 1 |-> Step(f, q)]
    BY <1>2
  <2> DEFINE g == [q \in 1 .. (n + 1) + 1 |-> IF q = n + 2 THEN Step(f, q) ELSE f[q]]
  <2>1. ASSUME NEW q \in 1 .. (n + 1) + 1
        PROVE  g[q] = Step(g, q)
    <3>1. q # 1 => q - 1 \in 1 .. n + 1
      OBVIOUS
    <3>2. q # 1 => g[q - 1] = f[q - 1]
      BY <3>1
    <3>3. Step(g, q) = Step(f, q)
      <4> HIDE DEF g
      <4> QED
        BY <3>2
    <3>4. g[q] = Step(f, q)
      <4> HIDE DEF Step
      <4>1. CASE q = n + 2
        BY <4>1
      <4>2. CASE q # n + 2
        <5>1. q \in 1 .. n + 1
          BY <4>2
        <5>2. f[q] = Step(f, q)
          BY <5>1
        <5> QED
          BY <4>2, <5>2
      <4> QED
        BY <4>1, <4>2
    <3> QED
      BY <3>3, <3>4
  <2>2. g = [q \in 1 .. (n + 1) + 1 |-> Step(g, q)]
    <3> HIDE DEF Step
    <3> QED
      BY <2>1
  <2> HIDE DEF g, Step
  <2> QED
    BY <2>2
<1> HIDE DEF Step
<1>3. PICK f : f = [q \in 1 .. Len(b) + 1 |-> Step(f, q)]
  <2> HIDE DEF T
  <2>1. \A n \in Nat : n \in T
    BY <1>1, <1>2, NaturalsIn
  <2> QED
    BY <2>1 DEF T
<1>4. OpenAt(b) = CHOOSE g : g = [q \in 1 .. Len(b) + 1 |-> Step(g, q)]
  BY DEF OpenAt, Step
<1>5. OpenAt(b) = [q \in 1 .. Len(b) + 1 |-> Step(OpenAt(b), q)]
  BY <1>3, <1>4
<1> QED
  BY <1>5 DEF Step

\* One position further.
LEMMA OpenAtNext ==
  ASSUME NEW b, Len(b) \in Nat
  PROVE  /\ OpenAt(b)[1] = <<>>
         /\ \A q \in 1..Len(b) : OpenAt(b)[q + 1] = OpenNext(OpenAt(b)[q], b[q], q)
<1> DEFINE at == OpenAt(b)
<1>1. at = [q \in 1 .. Len(b) + 1 |-> IF q = 1 THEN <<>> ELSE OpenNext(at[q - 1], b[q - 1], q - 1)]
  BY OpenAtDef
<1> HIDE DEF at
<1>2. at[1] = <<>>
  <2>1. 1 \in 1 .. Len(b) + 1
    OBVIOUS
  <2> QED
    BY <1>1, <2>1
<1>3. ASSUME NEW q \in 1..Len(b)
      PROVE  at[q + 1] = OpenNext(at[q], b[q], q)
  <2>1. q + 1 \in 1 .. Len(b) + 1 /\ q + 1 # 1 /\ (q + 1) - 1 = q
    OBVIOUS
  <2>2. at[q + 1] = OpenNext(at[(q + 1) - 1], b[(q + 1) - 1], (q + 1) - 1)
    BY <1>1, <2>1
  <2> QED
    BY <2>1, <2>2
<1> QED
  BY <1>2, <1>3 DEF at

\* Only the operators matter.
LEMMA OpenAtSame ==
  ASSUME NEW b, NEW c, Len(b) \in Nat, Len(c) \in Nat, NEW n \in Nat, n <= Len(b), n <= Len(c),
         \A p \in 1..n : b[p].op = c[p].op
  PROVE  \A q \in 1 .. n + 1 : OpenAt(b)[q] = OpenAt(c)[q]
<1> DEFINE T == {m \in Nat : m <= n => OpenAt(b)[m + 1] = OpenAt(c)[m + 1]}
<1>1. 0 \in T
  BY OpenAtNext
<1>2. ASSUME NEW m \in Nat, m \in T
      PROVE  m + 1 \in T
  <2> SUFFICES ASSUME m + 1 <= n
               PROVE  OpenAt(b)[(m + 1) + 1] = OpenAt(c)[(m + 1) + 1]
    OBVIOUS
  <2>1. m + 1 \in 1..n /\ m + 1 \in 1..Len(b) /\ m + 1 \in 1..Len(c)
    OBVIOUS
  <2>2. OpenAt(b)[m + 1] = OpenAt(c)[m + 1]
    BY <1>2
  <2>3. /\ OpenAt(b)[(m + 1) + 1] = OpenNext(OpenAt(b)[m + 1], b[m + 1], m + 1)
        /\ OpenAt(c)[(m + 1) + 1] = OpenNext(OpenAt(c)[m + 1], c[m + 1], m + 1)
    BY <2>1, OpenAtNext
  <2> QED
    BY <2>1, <2>2, <2>3 DEF OpenNext
<1> HIDE DEF T
<1>3. \A m \in Nat : m \in T
  BY <1>1, <1>2, NaturalsIn
<1> QED
  <2> TAKE q \in 1 .. n + 1
  <2>1. q - 1 \in Nat /\ q - 1 <= n /\ (q - 1) + 1 = q
    OBVIOUS
  <2> QED
    BY <1>3, <2>1 DEF T

\* What is open at a position was opened before it, in this order, and stayed
\* open ever since.
NestedAt(at, b, q) ==
  LET s == at[q] IN
  /\ s \in Seq(1 .. q - 1)
  /\ \A j \in 1..Len(s) :
       /\ b[s[j]].op \in Openers
       /\ Len(at[s[j]]) = j - 1 /\ \A m \in 1 .. j - 1 : at[s[j]][m] = s[m]
       /\ \A r \in s[j] + 1 .. q : j <= Len(at[r]) /\ \A m \in 1..j : at[r][m] = s[m]

\* One position further, the same blocks are open, or one less, or one more.
LEMMA NestedNext ==
  ASSUME NEW at, NEW b, NEW q \in Nat \ {0}, NestedAt(at, b, q),
         at[q + 1] = OpenNext(at[q], b[q], q)
  PROVE  NestedAt(at, b, q + 1)
<1> DEFINE s == at[q]
           t == at[q + 1]
<1>1. s \in Seq(1 .. q - 1) /\ s \in Seq(1..q) /\ Len(s) \in Nat
  <2>1. s \in Seq(1 .. q - 1)
    BY DEF NestedAt
  <2>2. 1 .. q - 1 \subseteq 1..q
    OBVIOUS
  <2> QED
    BY <2>1, <2>2, SeqMonotonic, LenProperties
<1>2. /\ t \in Seq(1..q) /\ Len(t) \in Nat /\ Len(t) <= Len(s) + 1
      /\ \A j \in 1..Len(t) : j <= Len(s) => t[j] = s[j]
      /\ Len(t) = Len(s) + 1 => t[Len(t)] = q /\ b[q].op \in Openers
  <2>1. CASE b[q].op \in Openers
    <3>1. t = Append(s, q) /\ q \in 1..q
      BY <2>1 DEF OpenNext
    <3> QED
      BY <1>1, <2>1, <3>1, AppendOk
  <2>2. CASE b[q].op \notin Openers /\ b[q].op = "end" /\ s # <<>>
    <3>1. t = Front(s)
      BY <2>2 DEF OpenNext
    <3>2. t \in Seq(1..q) /\ Len(t) = Len(s) - 1 /\ Len(s) \in Nat \ {0}
          /\ \A i \in 1 .. Len(s) - 1 : t[i] = s[i]
      BY <1>1, <2>2, <3>1, FrontOk
    <3> HIDE DEF s, t
    <3> QED
      BY <3>2
  <2>3. CASE b[q].op \notin Openers /\ ~ (b[q].op = "end" /\ s # <<>>)
    <3>1. t = s
      BY <2>3 DEF OpenNext
    <3> HIDE DEF s, t
    <3> QED
      BY <1>1, <3>1
  <2> QED
    BY <2>1, <2>2, <2>3
<1>3. ASSUME NEW j \in 1..Len(t)
      PROVE  /\ b[t[j]].op \in Openers
             /\ Len(at[t[j]]) = j - 1 /\ \A m \in 1 .. j - 1 : at[t[j]][m] = t[m]
             /\ \A r \in t[j] + 1 .. q + 1 : j <= Len(at[r]) /\ \A m \in 1..j : at[r][m] = t[m]
  <2>1. CASE j <= Len(s)
    <3>1. j \in 1..Len(s) /\ \A m \in 1..j : t[m] = s[m]
      <4> HIDE DEF s, t
      <4>1. j \in 1..Len(s)
        BY <1>1, <1>2, <2>1
      <4>2. \A m \in 1..j : m \in 1..Len(t) /\ m <= Len(s)
        BY <1>1, <1>2, <2>1
      <4> QED
        BY <1>2, <4>1, <4>2
    <3>2. /\ b[s[j]].op \in Openers
          /\ Len(at[s[j]]) = j - 1 /\ \A m \in 1 .. j - 1 : at[s[j]][m] = s[m]
          /\ \A r \in s[j] + 1 .. q : j <= Len(at[r]) /\ \A m \in 1..j : at[r][m] = s[m]
      BY <3>1 DEF NestedAt
    <3>3. s[j] = t[j]
      BY <3>1
    <3>4. ASSUME NEW r \in t[j] + 1 .. q + 1
          PROVE  j <= Len(at[r]) /\ \A m \in 1..j : at[r][m] = t[m]
      <4>1. CASE r = q + 1
        <5> HIDE DEF s
        <5> QED
          BY <1>2, <4>1
      <4>2. CASE r # q + 1
        <5>1. t[j] \in 1..q
          BY <1>2, ElementOfSeq
        <5>2. r \in s[j] + 1 .. q
          <6> HIDE DEF s, t
          <6> QED
            BY <3>3, <4>2, <5>1
        <5>3. j <= Len(at[r]) /\ \A m \in 1..j : at[r][m] = s[m]
          BY <3>2, <5>2
        <5> QED
          BY <3>1, <5>3
      <4> QED
        BY <4>1, <4>2
    <3>5. \A m \in 1 .. j - 1 : at[t[j]][m] = t[m]
      <4>1. \A m \in 1 .. j - 1 : m \in 1..j
        OBVIOUS
      <4> QED
        BY <3>1, <3>2, <3>3, <4>1
    <3> QED
      BY <3>2, <3>3, <3>4, <3>5
  <2>2. CASE j > Len(s)
    <3>1. j = Len(s) + 1 /\ j = Len(t) /\ Len(t) = Len(s) + 1
      <4> HIDE DEF s, t
      <4> QED
        BY <1>1, <1>2, <2>2
    <3>2. t[j] = q /\ b[q].op \in Openers
      BY <1>2, <3>1
    <3>3. Len(at[q]) = j - 1 /\ \A m \in 1 .. j - 1 : at[q][m] = t[m]
      <4>1. \A m \in 1 .. j - 1 : m \in 1..Len(t) /\ m <= Len(s)
        <5> HIDE DEF s, t
        <5> QED
          BY <1>1, <3>1
      <4>2. Len(s) = j - 1
        <5> HIDE DEF s, t
        <5> QED
          BY <1>1, <3>1
      <4> QED
        BY <1>2, <4>1, <4>2
    <3>4. \A r \in q + 1 .. q + 1 : r = q + 1
      OBVIOUS
    <3>5. j <= Len(t)
      BY <1>2, <3>1
    <3> QED
      BY <3>2, <3>3, <3>4, <3>5
  <2> QED
    <3> HIDE DEF s, t
    <3> QED
      BY <1>1, <1>2, <2>1, <2>2
<1> QED
  <2>1. t \in Seq(1 .. (q + 1) - 1)
    <3>1. (q + 1) - 1 = q
      OBVIOUS
    <3> QED
      BY <1>2, <3>1
  <2> QED
    BY <1>3, <2>1 DEF NestedAt

\* Blocks are nested at every position of every body.
LEMMA Nested ==
  ASSUME NEW b, Len(b) \in Nat
  PROVE  \A q \in 1 .. Len(b) + 1 : NestedAt(OpenAt(b), b, q)
<1> DEFINE at == OpenAt(b)
           T  == {n \in Nat : n <= Len(b) => NestedAt(at, b, n + 1)}
<1>1. at[1] = <<>> /\ \A q \in 1..Len(b) : at[q + 1] = OpenNext(at[q], b[q], q)
  BY OpenAtNext
<1> HIDE DEF at
<1>2. 0 \in T
  <2>1. at[1] = <<>> /\ Len(<<>>) = 0 /\ <<>> \in Seq(1 .. 1 - 1)
    BY <1>1, EmptySeq
  <2>2. \A j \in 1..Len(<<>>) : FALSE
    BY <2>1
  <2>3. NestedAt(at, b, 1)
    BY <2>1, <2>2 DEF NestedAt
  <2> QED
    BY <2>3
<1>3. ASSUME NEW n \in Nat, n \in T
      PROVE  n + 1 \in T
  <2> SUFFICES ASSUME n + 1 <= Len(b)
               PROVE  NestedAt(at, b, (n + 1) + 1)
    OBVIOUS
  <2>1. n + 1 \in Nat \ {0} /\ n + 1 \in 1..Len(b)
    OBVIOUS
  <2>2. NestedAt(at, b, n + 1)
    BY <1>3
  <2> QED
    BY <1>1, <2>1, <2>2, NestedNext
<1> HIDE DEF T
<1>4. \A n \in Nat : n \in T
  BY <1>2, <1>3, NaturalsIn
<1>5. \A q \in 1 .. Len(b) + 1 : NestedAt(at, b, q)
  <2> TAKE q \in 1 .. Len(b) + 1
  <2>1. q - 1 \in Nat /\ q - 1 <= Len(b) /\ (q - 1) + 1 = q
    OBVIOUS
  <2> QED
    BY <1>4, <2>1 DEF T
<1> QED
  BY <1>5 DEF at

-----------------------------------------------------------------------------
(* Instructions.                                                           *)

\* What is written is an instruction without targets.
LEMMA OperatorOk ==
  ASSUME NEW op \in Operators
  PROVE  /\ op \in Instructions
         /\ op.op = "end" <=> op = End
         /\ op.op \in Openers => op.end = 0
         /\ op.op = "if" => op.else_ = 0
         /\ op.op = "else" => op.end = 0
<1> USE DEF Operators, Instructions, InstrOf
<1>1. op \in Instructions
  <2>1. {0} \subseteq Nat
    OBVIOUS
  <2> QED
    BY <2>1
<1>2. op.op = "end" <=> op = End
  BY DEF End
<1>3. op.op \in Openers => op.end = 0
  BY DEF Openers
<1>4. op.op = "if" => op.else_ = 0
  OBVIOUS
<1>5. op.op = "else" => op.end = 0
  OBVIOUS
<1> QED
  BY <1>1, <1>2, <1>3, <1>4, <1>5

\* Patching a target leaves an instruction an instruction.
LEMMA PatchEnd ==
  ASSUME NEW i \in Instructions, i.op \in Openers \cup {"else"}, NEW n \in Nat
  PROVE  /\ [i EXCEPT !.end = n] \in Instructions
         /\ [i EXCEPT !.end = n].op = i.op /\ [i EXCEPT !.end = n].end = n
         /\ i.op = "if" => [i EXCEPT !.end = n].else_ = i.else_
<1> USE DEF Instructions, InstrOf, Openers
<1>1. CASE i.op \in {"block", "loop"}
  <2>1. i \in [op : {"block", "loop"}, bt : Nat, end : Nat]
    BY <1>1
  <2> QED
    BY <1>1, <2>1
<1>2. CASE i.op = "if"
  <2>1. i \in [op : {"if"}, bt : Nat, else_ : Nat, end : Nat]
    BY <1>2
  <2> QED
    BY <1>2, <2>1
<1>3. CASE i.op = "else"
  <2>1. i \in [op : {"else"}, end : Nat]
    BY <1>3
  <2> QED
    BY <1>3, <2>1
<1> QED
  BY <1>1, <1>2, <1>3

\* ... the other one.
LEMMA PatchElse ==
  ASSUME NEW i \in Instructions, i.op = "if", NEW n \in Nat
  PROVE  /\ [i EXCEPT !.else_ = n] \in Instructions
         /\ [i EXCEPT !.else_ = n].op = i.op /\ [i EXCEPT !.else_ = n].else_ = n
         /\ [i EXCEPT !.else_ = n].end = i.end
<1> USE DEF Instructions, InstrOf
<1>1. i \in [op : {"if"}, bt : Nat, else_ : Nat, end : Nat]
  OBVIOUS
<1> QED
  BY <1>1

\* Targets are numbers.
LEMMA TargetsAreNumbers ==
  ASSUME NEW i \in Instructions
  PROVE  /\ i.op \in Openers => i.end \in Nat /\ i.bt \in Nat
         /\ i.op = "if" => i.else_ \in Nat
         /\ i.op = "else" => i.end \in Nat
<1> USE DEF Instructions, InstrOf, Openers
<1>1. i.op \in Openers => i.end \in Nat /\ i.bt \in Nat
  OBVIOUS
<1>2. i.op = "if" => i.else_ \in Nat
  OBVIOUS
<1>3. i.op = "else" => i.end \in Nat
  OBVIOUS
<1> QED
  BY <1>1, <1>2, <1>3

\* Replacing one element of a sequence.
LEMMA ReplaceOk ==
  ASSUME NEW S, NEW s \in Seq(S), NEW k \in 1..Len(s), NEW e \in S
  PROVE  /\ [s EXCEPT ![k] = e] \in Seq(S) /\ Len([s EXCEPT ![k] = e]) = Len(s)
         /\ [s EXCEPT ![k] = e][k] = e
         /\ \A i \in 1..Len(s) : i # k => [s EXCEPT ![k] = e][i] = s[i]
BY ExceptSeq

-----------------------------------------------------------------------------
(* Decoding.                                                               *)

\* A body with one more operator, whatever was patched.
Grown(b, c) ==
  /\ b \in Seq(Instructions) /\ c \in Seq(Instructions) /\ Len(c) = Len(b) + 1
  /\ \A p \in 1..Len(b) : c[p].op = b[p].op

\* It has the same nesting.
LEMMA GrownOpen ==
  ASSUME NEW b, NEW c, Grown(b, c)
  PROVE  /\ Len(b) \in Nat /\ Len(c) \in Nat
         /\ \A q \in 1 .. Len(b) + 1 : OpenAt(c)[q] = OpenAt(b)[q]
         /\ OpenAt(c)[Len(c) + 1] =
              OpenNext(OpenAt(b)[Len(b) + 1], c[Len(b) + 1], Len(b) + 1)
<1>1. Len(b) \in Nat /\ Len(c) \in Nat /\ Len(c) = Len(b) + 1
  BY LenProperties DEF Grown
<1>2. \A q \in 1 .. Len(b) + 1 : OpenAt(b)[q] = OpenAt(c)[q]
  BY <1>1, OpenAtSame DEF Grown
<1>3. Len(b) + 1 \in 1..Len(c)
  BY <1>1
<1>4. OpenAt(c)[(Len(b) + 1) + 1] = OpenNext(OpenAt(c)[Len(b) + 1], c[Len(b) + 1], Len(b) + 1)
  BY <1>1, <1>3, OpenAtNext
<1>5. Len(b) + 1 \in 1 .. Len(b) + 1 /\ (Len(b) + 1) + 1 = Len(c) + 1
  BY <1>1
<1> QED
  BY <1>1, <1>2, <1>4, <1>5

\* Blocks directly around a position stay so.
LEMMA GrownDirectly ==
  ASSUME NEW b, NEW c, Grown(b, c), NEW p \in 1..Len(b), NEW q
  PROVE  Directly(b, p, q) => Directly(c, p, q) /\ q \in 1..Len(b)
<1> SUFFICES ASSUME Directly(b, p, q)
             PROVE  Directly(c, p, q) /\ q \in 1..Len(b)
  OBVIOUS
<1>1. Len(b) \in Nat /\ Len(c) = Len(b) + 1 /\ q \in p + 1 .. Len(b)
  BY GrownOpen DEF Directly, Grown
<1>2. q \in 1..Len(b) /\ q \in p + 1 .. Len(c) /\ q \in 1 .. Len(b) + 1 /\ p \in 1 .. Len(b) + 1
  BY <1>1
<1> QED
  BY <1>2, GrownOpen DEF Directly

Among(p, s) == \E j \in DOMAIN s : s[j] = p

\* A place the step did not touch, nor what it refers to.
LEMMA PlaceKept ==
  ASSUME NEW b, NEW c, NEW s, NEW t, NEW done \in BOOLEAN, NEW p \in 1..Len(b),
         Grown(b, c), PlaceOk(b, s, FALSE, p), c[p] = b[p],
         Among(p, s) <=> Among(p, t),
         \A q \in 1..Len(b) : b[p].op = "if" /\ HasElse(b, p) /\ q = b[p].else_ - 1 => c[q].end = b[q].end,
         b[p].op = "else" => c[Last(OpenAt(b)[p])].else_ = b[Last(OpenAt(b)[p])].else_
  PROVE  PlaceOk(c, t, done, p)
<1>0. /\ Len(b) \in Nat /\ Len(c) = Len(b) + 1 /\ OpenAt(c)[p] = OpenAt(b)[p]
      /\ \A q \in 1..Len(b) : c[q].op = b[q].op
  BY GrownOpen DEF Grown
<1>1. c[p].op \in Openers => IF Among(p, t) THEN c[p].end = 0 ELSE Closed(c, p)
  <2>1. CASE Among(p, t)
    BY <2>1 DEF PlaceOk, Among
  <2>2. CASE b[p].op \in Openers /\ ~ Among(p, t)
    <3>1. /\ b[p].end \in Nat \ {0} /\ Directly(b, p, b[p].end - 1)
          /\ b[b[p].end - 1].op = "end"
      BY <2>2 DEF PlaceOk, Among, Closed
    <3>2. Directly(c, p, b[p].end - 1) /\ b[p].end - 1 \in 1..Len(b)
      BY <3>1, GrownDirectly
    <3> QED
      BY <1>0, <2>2, <3>1, <3>2 DEF Closed
  <2> QED
    BY <2>1, <2>2
<1>2. c[p].op = "if" => c[p].else_ = c[p].end \/ HasElse(c, p)
  <2> SUFFICES ASSUME b[p].op = "if", HasElse(b, p)
               PROVE  HasElse(c, p)
    BY DEF PlaceOk
  <2>1. /\ b[p].else_ \in Nat \ {0} /\ Directly(b, p, b[p].else_ - 1)
        /\ b[b[p].else_ - 1].op = "else" /\ b[b[p].else_ - 1].end = b[p].end
    BY DEF HasElse
  <2>2. Directly(c, p, b[p].else_ - 1) /\ b[p].else_ - 1 \in 1..Len(b)
    BY <2>1, GrownDirectly
  <2>3. c[b[p].else_ - 1].end = b[b[p].else_ - 1].end
    BY <2>2
  <2> QED
    BY <1>0, <2>1, <2>2, <2>3 DEF HasElse
<1>3. c[p].op = "else" =>
        /\ OpenAt(c)[p] # <<>> /\ c[Last(OpenAt(c)[p])].op = "if"
        /\ c[Last(OpenAt(c)[p])].else_ = p + 1
  <2> SUFFICES ASSUME b[p].op = "else"
               PROVE  /\ OpenAt(b)[p] # <<>> /\ c[Last(OpenAt(b)[p])].op = "if"
                      /\ c[Last(OpenAt(b)[p])].else_ = p + 1
    BY <1>0
  <2>1. /\ OpenAt(b)[p] # <<>> /\ b[Last(OpenAt(b)[p])].op = "if"
        /\ b[Last(OpenAt(b)[p])].else_ = p + 1
    BY DEF PlaceOk
  <2>2. NestedAt(OpenAt(b), b, p)
    BY <1>0, Nested
  <2>3. Last(OpenAt(b)[p]) \in 1 .. p - 1
    BY <2>1, <2>2, FrontOk DEF NestedAt
  <2>4. Last(OpenAt(b)[p]) \in 1..Len(b)
    <3> HIDE DEF NestedAt
    <3> QED
      BY <1>0, <2>3
  <2> QED
    BY <1>0, <2>1, <2>4
<1>4. c[p].op = "end" => (OpenAt(c)[p] = <<>>) = (done /\ p = Len(c))
  <2>1. p # Len(c)
    BY <1>0
  <2>2. b[p].op = "end" => OpenAt(b)[p] # <<>>
    BY DEF PlaceOk
  <2> QED
    BY <1>0, <2>1, <2>2
<1> QED
  BY <1>1, <1>2, <1>3, <1>4 DEF PlaceOk, Among

\* What is open after the body so far.
LEMMA OpenNow ==
  ASSUME NEW b, NEW s, NEW done, BodyOk(b, s, done)
  PROVE  /\ Len(b) \in Nat /\ s \in Seq(1..Len(b)) /\ NestedAt(OpenAt(b), b, Len(b) + 1)
         /\ \A p \in 1..Len(b) : b[p] \in Instructions /\ NestedAt(OpenAt(b), b, p)
<1>1. Len(b) \in Nat /\ b \in Seq(Instructions)
  BY LenProperties DEF BodyOk
<1>2. NestedAt(OpenAt(b), b, Len(b) + 1) /\ \A p \in 1..Len(b) : NestedAt(OpenAt(b), b, p)
  BY <1>1, Nested
<1>3. OpenAt(b)[Len(b) + 1] \in Seq(1 .. (Len(b) + 1) - 1) /\ (Len(b) + 1) - 1 = Len(b)
  BY <1>1, <1>2 DEF NestedAt
<1>4. \A p \in 1..Len(b) : b[p] \in Instructions
  BY <1>1, ElementOfSeq
<1> QED
  BY <1>1, <1>2, <1>3, <1>4 DEF BodyOk

\* The innermost open block is an opener whose inside reaches up to here.
LEMMA Innermost ==
  ASSUME NEW b, NEW s, NEW done, BodyOk(b, s, done), s # <<>>
  PROVE  /\ Last(s) \in 1..Len(b) /\ b[Last(s)].op \in Openers
         /\ s = Append(OpenAt(b)[Last(s)], Last(s))
         /\ Len(s) \in Nat \ {0} /\ Last(s) = s[Len(s)]
         /\ \A j \in 1..Len(s) : s[j] = Last(s) => j = Len(s)
<1> DEFINE k == Last(s)
           n == Len(b)
           u == OpenAt(b)[k]
<1>1. n \in Nat /\ s \in Seq(1..n) /\ s = OpenAt(b)[n + 1]
  BY OpenNow DEF BodyOk
<1>2. k \in 1..n /\ k = s[Len(s)] /\ Len(s) \in Nat \ {0}
  BY <1>1, FrontOk
<1>3. Len(s) \in 1..Len(s)
  BY <1>2
<1>4. /\ b[k].op \in Openers /\ Len(u) = Len(s) - 1
      /\ \A m \in 1 .. Len(s) - 1 : u[m] = s[m]
  <2>1. NestedAt(OpenAt(b), b, n + 1)
    BY OpenNow
  <2>2. \A j \in 1..Len(s) :
          /\ b[s[j]].op \in Openers /\ Len(OpenAt(b)[s[j]]) = j - 1
          /\ \A m \in 1 .. j - 1 : OpenAt(b)[s[j]][m] = s[m]
    <3> HIDE DEF n
    <3> QED
      BY <1>1, <2>1 DEF NestedAt
  <2> QED
    BY <1>2, <1>3, <2>2
<1>5. u \in Seq(1 .. k - 1)
  BY <1>2, OpenNow DEF NestedAt
<1>6. u \in Seq(1..n) /\ k \in 1..n
  <2>1. 1 .. k - 1 \subseteq 1..n
    BY <1>1, <1>2
  <2> QED
    BY <1>2, <1>5, <2>1, SeqMonotonic
<1>7. /\ Append(u, k) \in Seq(1..n) /\ Len(Append(u, k)) = Len(u) + 1
      /\ \A i \in 1..Len(u) : Append(u, k)[i] = u[i]
      /\ Append(u, k)[Len(u) + 1] = k
  BY <1>6, AppendOk
<1>8. s = Append(u, k)
  <2>1. Len(s) = Len(Append(u, k))
    BY <1>2, <1>4, <1>7
  <2>2. \A i \in 1..Len(s) : s[i] = Append(u, k)[i]
    <3> HIDE DEF k, n, u
    <3> TAKE i \in 1..Len(s)
    <3>1. CASE i = Len(s)
      BY <1>2, <1>4, <1>7, <3>1
    <3>2. CASE i # Len(s)
      <4>1. i \in 1 .. Len(s) - 1 /\ i \in 1..Len(u)
        BY <1>2, <1>4, <3>2
      <4> QED
        BY <1>4, <1>7, <4>1
    <3> QED
      BY <3>1, <3>2
  <2> QED
    BY <1>1, <1>7, <2>1, <2>2, SeqEqual
<1>9. ASSUME NEW j \in 1..Len(s), s[j] = k
      PROVE  j = Len(s)
  <2> SUFFICES ASSUME j # Len(s)
               PROVE  FALSE
    OBVIOUS
  <2>1. j \in 1 .. Len(s) - 1 /\ j \in 1..Len(u)
    <3> HIDE DEF k, n, u
    <3> QED
      BY <1>2, <1>4
  <2>2. u[j] \in 1 .. k - 1
    BY <1>5, <2>1, ElementOfSeq
  <2>3. u[j] = k
    BY <1>4, <1>9, <2>1
  <2> QED
    <3> HIDE DEF k, n, u
    <3> QED
      BY <1>2, <2>2, <2>3
<1> QED
  BY <1>2, <1>4, <1>8, <1>9

\* An operator that patches nothing.
LEMMA PlainStep ==
  ASSUME NEW b, NEW s, BodyOk(b, s, FALSE), NEW op \in Operators, op.op # "else",
         op.op = "end" => s = <<>>
  PROVE  BodyOk(Append(b, op), OpenNext(s, op, Len(b) + 1), op.op = "end")
<1> DEFINE c == Append(b, op)
           n == Len(b)
           t == OpenNext(s, op, n + 1)
           done == op.op = "end"
<1>1. n \in Nat /\ s \in Seq(1..n) /\ b \in Seq(Instructions) /\ s = OpenAt(b)[n + 1]
  BY OpenNow DEF BodyOk
<1>2. /\ op \in Instructions /\ (op.op \in Openers => op.end = 0)
      /\ (op.op = "if" => op.else_ = 0)
  BY OperatorOk
<1>3. /\ c \in Seq(Instructions) /\ Len(c) = n + 1 /\ c # <<>>
      /\ \A i \in 1..n : c[i] = b[i]
      /\ c[n + 1] = op
  BY <1>1, <1>2, AppendOk
<1> HIDE DEF c
<1>4. Grown(b, c)
  BY <1>1, <1>3 DEF Grown
<1>5. t = OpenAt(c)[Len(c) + 1] /\ OpenAt(c)[n + 1] = s
  <2>1. n + 1 \in 1 .. n + 1
    BY <1>1
  <2> QED
    BY <1>1, <1>3, <1>4, <2>1, GrownOpen
<1>6. /\ \A p \in 1..n : Among(p, s) <=> Among(p, t)
      /\ op.op \in Openers => Among(n + 1, t)
  <2>1. CASE op.op \in Openers
    <3>1. t = Append(s, n + 1) /\ n + 1 \in 1 .. n + 1 /\ 1..n \subseteq 1 .. n + 1
      BY <1>1, <2>1 DEF OpenNext
    <3>2. s \in Seq(1 .. n + 1)
      BY <1>1, <3>1, SeqMonotonic
    <3>3. /\ t \in Seq(1 .. n + 1) /\ Len(s) \in Nat /\ Len(t) = Len(s) + 1
          /\ \A i \in 1..Len(s) : t[i] = s[i]
          /\ t[Len(s) + 1] = n + 1
      BY <3>1, <3>2, AppendOk
    <3>4. DOMAIN s = 1..Len(s) /\ DOMAIN t = 1..Len(t)
      BY <1>1, <3>3, LenProperties
    <3> HIDE DEF t, n
    <3>5. \A p \in 1..n : Among(p, s) <=> Among(p, t)
      <4> TAKE p \in 1..n
      <4>1. p # n + 1
        BY <1>1
      <4>2. \A j \in 1 .. Len(s) + 1 : j \in 1..Len(s) \/ j = Len(s) + 1
        BY <3>3
      <4>3. \A j \in 1..Len(s) : j \in 1 .. Len(s) + 1
        BY <3>3
      <4> QED
        BY <3>3, <3>4, <4>1, <4>2, <4>3 DEF Among
    <3>6. Len(s) + 1 \in 1..Len(t)
      BY <3>3
    <3> QED
      BY <3>3, <3>4, <3>5, <3>6 DEF Among
  <2>2. CASE op.op \notin Openers
    <3>1. t = s
      BY <2>2 DEF OpenNext
    <3> QED
      BY <2>2, <3>1
  <2> QED
    BY <2>1, <2>2
<1>7. ASSUME NEW p \in 1..n
      PROVE  PlaceOk(c, t, done, p)
  <2>1. PlaceOk(b, s, FALSE, p) /\ NestedAt(OpenAt(b), b, p)
    BY OpenNow DEF BodyOk
  <2>2. b[p].op = "else" => Last(OpenAt(b)[p]) \in 1..n
    <3> SUFFICES ASSUME b[p].op = "else"
                 PROVE  Last(OpenAt(b)[p]) \in 1..n
      OBVIOUS
    <3>1. OpenAt(b)[p] # <<>> /\ OpenAt(b)[p] \in Seq(1 .. p - 1)
      BY <2>1 DEF PlaceOk, NestedAt
    <3>2. Last(OpenAt(b)[p]) \in 1 .. p - 1
      BY <3>1, FrontOk
    <3> QED
      BY <1>1, <3>2
  <2>3. Among(p, s) <=> Among(p, t)
    BY <1>6
  <2>4. done \in BOOLEAN
    OBVIOUS
  <2> HIDE DEF t, done
  <2> QED
    BY <1>3, <1>4, <2>1, <2>2, <2>3, <2>4, PlaceKept
<1>8. PlaceOk(c, t, done, n + 1)
  <2>1. op.op = "end" => op.op \notin Openers
    BY DEF Openers
  <2>2. n + 1 = Len(c)
    BY <1>3
  <2>3. op.op = "if" => op.op \in Openers
    BY DEF Openers
  <2> HIDE DEF t
  <2> QED
    BY <1>2, <1>3, <1>5, <1>6, <2>1, <2>2, <2>3 DEF PlaceOk, Among
<1>9. \A p \in 1..Len(c) : PlaceOk(c, t, done, p)
  <2>1. \A p \in 1..Len(c) : p \in 1..n \/ p = n + 1
    BY <1>1, <1>3
  <2> HIDE DEF t, done, n
  <2> QED
    BY <1>7, <1>8, <2>1
<1>10. done => c # <<>> /\ c[Len(c)].op = "end" /\ OpenAt(c)[Len(c)] = <<>>
  BY <1>3, <1>5
<1> QED
  BY <1>3, <1>5, <1>9, <1>10 DEF BodyOk, c

\* What CloseBlock does to the positions of the body.
LEMMA CloseBlockOk ==
  ASSUME NEW b \in Seq(Instructions), NEW k \in 1..Len(b), b[k].op \in Openers,
         b[k].op = "if" /\ b[k].else_ # 0 =>
           /\ b[k].else_ - 1 \in 1..Len(b) /\ b[k].else_ - 1 # k
           /\ b[b[k].else_ - 1].op = "else"
  PROVE  LET c == CloseBlock(b, k)
             n == Len(b)
             armed == b[k].op = "if" /\ b[k].else_ # 0
         IN
         /\ Grown(b, c) /\ c[n + 1] = End
         /\ c[k].end = n + 2
         /\ b[k].op = "if" => c[k].else_ = IF armed THEN b[k].else_ ELSE n + 2
         /\ armed => c[b[k].else_ - 1].end = n + 2
         /\ \A p \in 1..n : p # k /\ (armed => p # b[k].else_ - 1) => c[p] = b[p]
<1> DEFINE n    == Len(b)
           here == n + 2
           i1   == [b[k] EXCEPT !.end = here]
           b1   == [b EXCEPT ![k] = i1]
           new  == Append(b1, End)
           armed == b[k].op = "if" /\ b[k].else_ # 0
           c    == CloseBlock(b, k)
           e    == b[k].else_ - 1
<1>1. /\ n \in Nat /\ here \in Nat /\ b[k] \in Instructions
      /\ \A p \in 1..n : b[p] \in Instructions
  BY LenProperties, ElementOfSeq
<1>2. /\ i1 \in Instructions /\ i1.op = b[k].op /\ i1.end = here
      /\ b[k].op = "if" => i1.else_ = b[k].else_
  <2> HIDE DEF here
  <2> QED
    BY <1>1, PatchEnd
<1>3. End \in Instructions /\ End.op = "end"
  BY DEF End, Instructions, InstrOf
<1>4. /\ b1 \in Seq(Instructions) /\ Len(b1) = n /\ b1[k] = i1
      /\ \A p \in 1..n : p # k => b1[p] = b[p]
  <2> HIDE DEF i1, n
  <2> QED
    BY <1>2, ReplaceOk DEF n
<1>5. /\ new \in Seq(Instructions) /\ Len(new) = n + 1 /\ new[n + 1] = End
      /\ \A p \in 1..n : new[p] = b1[p]
  <2> HIDE DEF b1, n
  <2> QED
    BY <1>3, <1>4, AppendOk
<1>6. /\ k \in 1 .. n + 1 /\ k # n + 1 /\ n + 1 \in 1 .. n + 1
      /\ \A p \in 1..n : p \in 1 .. n + 1 /\ p # n + 1
  BY <1>1
<1>7. c = CASE b[k].op # "if"   -> new
            [] b[k].op = "if" /\ b[k].else_ = 0 -> [new EXCEPT ![k] = [new[k] EXCEPT !.else_ = here]]
            [] OTHER -> [new EXCEPT ![e] = [new[e] EXCEPT !.end = here]]
  BY DEF CloseBlock
<1>8. new[k] = i1
  BY <1>4, <1>5
<1> HIDE DEF new, b1, i1, here, n, c
<1>9. CASE b[k].op # "if"
  <2>1. c = new
    BY <1>7, <1>9
  <2>2. \A p \in 1..n : c[p].op = b[p].op
    BY <1>2, <1>4, <1>5, <2>1
  <2> QED
    BY <1>2, <1>4, <1>5, <1>8, <1>9, <2>1, <2>2 DEF Grown, n, c, here
<1>10. CASE b[k].op = "if" /\ b[k].else_ = 0
  <2> DEFINE i2 == [i1 EXCEPT !.else_ = here]
  <2>1. c = [new EXCEPT ![k] = i2]
    BY <1>7, <1>8, <1>10
  <2>2. i2 \in Instructions /\ i2.op = "if" /\ i2.else_ = here /\ i2.end = here
    BY <1>1, <1>2, <1>10, PatchElse
  <2> HIDE DEF i2
  <2>3. /\ c \in Seq(Instructions) /\ Len(c) = n + 1 /\ c[k] = i2
        /\ \A p \in 1 .. n + 1 : p # k => c[p] = new[p]
    BY <1>5, <1>6, <2>1, <2>2, ReplaceOk
  <2>4. c[n + 1] = End
    BY <1>1, <1>5, <1>6, <2>3
  <2>5. \A p \in 1..n : p # k => c[p] = b[p]
    BY <1>4, <1>5, <1>6, <2>3
  <2>6. \A p \in 1..n : c[p].op = b[p].op
    BY <1>10, <2>2, <2>3, <2>5
  <2> QED
    BY <1>10, <2>2, <2>3, <2>4, <2>5, <2>6 DEF Grown, n, c, here
<1>11. CASE armed
  <2> DEFINE i2 == [b[e] EXCEPT !.end = here]
  <2>1. e \in 1..n /\ e # k /\ b[e].op = "else"
    BY <1>11 DEF n
  <2> HIDE DEF e
  <2>2. new[e] = b[e]
    BY <1>4, <1>5, <2>1
  <2>3. c = [new EXCEPT ![e] = i2]
    BY <1>7, <1>11, <2>2
  <2>4. i2 \in Instructions /\ i2.op = "else" /\ i2.end = here
    BY <1>1, <2>1, PatchEnd
  <2> HIDE DEF i2
  <2>5. /\ c \in Seq(Instructions) /\ Len(c) = n + 1 /\ c[e] = i2
        /\ \A p \in 1 .. n + 1 : p # e => c[p] = new[p]
    BY <1>5, <1>6, <2>1, <2>3, <2>4, ReplaceOk
  <2>6. c[n + 1] = End
    BY <1>1, <1>5, <1>6, <2>1, <2>5
  <2>7. c[k] = i1
    BY <1>6, <1>8, <2>1, <2>5
  <2>8. \A p \in 1..n : p # k /\ p # e => c[p] = b[p]
    BY <1>4, <1>5, <1>6, <2>5
  <2>9. \A p \in 1..n : c[p].op = b[p].op
    BY <1>2, <1>11, <2>1, <2>4, <2>5, <2>7, <2>8
  <2> QED
    BY <1>2, <1>11, <2>4, <2>5, <2>6, <2>7, <2>8, <2>9 DEF Grown, n, c, here, e
<1> QED
  BY <1>9, <1>10, <1>11

\* The block directly around a position is the last one open there.
LEMMA DirectlyLast ==
  ASSUME NEW b, Len(b) \in Nat, NEW p \in 1..Len(b), NEW q, Directly(b, p, q)
  PROVE  /\ OpenAt(b)[q] # <<>> /\ Last(OpenAt(b)[q]) = p
         /\ Len(OpenAt(b)[p]) \in Nat /\ Len(OpenAt(b)[q]) = Len(OpenAt(b)[p]) + 1
         /\ \A m \in 1..Len(OpenAt(b)[p]) : OpenAt(b)[q][m] = OpenAt(b)[p][m]
<1> DEFINE u == OpenAt(b)[p]
<1>1. p \in 1 .. Len(b) + 1
  OBVIOUS
<1>2. u \in Seq(1 .. p - 1)
  BY <1>1, Nested DEF NestedAt
<1>3. 1 .. p - 1 \subseteq 1..p /\ p \in 1..p
  OBVIOUS
<1>4. u \in Seq(1..p)
  BY <1>2, <1>3, SeqMonotonic
<1>5. OpenAt(b)[q] = Append(u, p)
  BY DEF Directly
<1> HIDE DEF u
<1>6. /\ Append(u, p) # <<>> /\ Len(u) \in Nat /\ Len(Append(u, p)) = Len(u) + 1
      /\ \A i \in 1..Len(u) : Append(u, p)[i] = u[i]
      /\ Last(Append(u, p)) = p
  BY <1>3, <1>4, AppendOk
<1> QED
  BY <1>5, <1>6 DEF u

\* `end` of an open block.
LEMMA EndStep ==
  ASSUME NEW b, NEW s, BodyOk(b, s, FALSE), s # <<>>
  PROVE  BodyOk(CloseBlock(b, Last(s)), Front(s), FALSE)
<1> DEFINE n == Len(b)
           k == Last(s)
           c == CloseBlock(b, k)
           t == Front(s)
           armed == b[k].op = "if" /\ b[k].else_ # 0
           e == b[k].else_ - 1
<1>1. n \in Nat /\ s \in Seq(1..n) /\ b \in Seq(Instructions) /\ s = OpenAt(b)[n + 1]
  BY OpenNow DEF BodyOk
<1>2. /\ k \in 1..n /\ b[k].op \in Openers /\ s = Append(OpenAt(b)[k], k)
      /\ Len(s) \in Nat \ {0} /\ k = s[Len(s)]
      /\ \A j \in 1..Len(s) : s[j] = k => j = Len(s)
  BY Innermost
<1>3. \A p \in 1..n : PlaceOk(b, s, FALSE, p)
  BY DEF BodyOk
<1>4. b[k].end = 0
  <2>1. Len(s) \in DOMAIN s
    BY <1>1, <1>2, LenProperties
  <2> QED
    BY <1>2, <1>3, <2>1 DEF PlaceOk
<1>5. armed => /\ HasElse(b, k) /\ b[k].else_ \in Nat \ {0} /\ Directly(b, k, e)
               /\ b[e].op = "else" /\ e \in 1..n /\ e # k
  <2> SUFFICES ASSUME armed
               PROVE  /\ HasElse(b, k) /\ b[k].else_ \in Nat \ {0} /\ Directly(b, k, e)
                      /\ b[e].op = "else" /\ e \in 1..n /\ e # k
    OBVIOUS
  <2>1. HasElse(b, k)
    BY <1>2, <1>3, <1>4 DEF PlaceOk
  <2>2. b[k].else_ \in Nat \ {0} /\ Directly(b, k, e) /\ b[e].op = "else"
    BY <2>1 DEF HasElse
  <2>3. e \in k + 1 .. n
    BY <2>2 DEF Directly
  <2>4. e \in 1..n /\ e # k
    <3> HIDE DEF e, k, n
    <3>1. k \in 1..n /\ n \in Nat
      BY <1>1, <1>2
    <3> QED
      BY <2>3, <3>1
  <2> QED
    BY <2>1, <2>2, <2>4
<1>6. /\ Grown(b, c) /\ c[n + 1] = End
      /\ c[k].end = n + 2
      /\ b[k].op = "if" => c[k].else_ = IF armed THEN b[k].else_ ELSE n + 2
      /\ armed => c[e].end = n + 2
      /\ \A p \in 1..n : p # k /\ (armed => p # e) => c[p] = b[p]
  BY <1>1, <1>2, <1>5, CloseBlockOk
<1> HIDE DEF c
<1>7. /\ c \in Seq(Instructions) /\ Len(c) = n + 1 /\ \A p \in 1..n : c[p].op = b[p].op
      /\ \A q \in 1 .. n + 1 : OpenAt(c)[q] = OpenAt(b)[q]
  BY <1>6, GrownOpen DEF Grown
<1>8. End.op = "end" /\ "end" \notin Openers
  BY DEF End, Openers
<1>9. t = OpenAt(c)[Len(c) + 1]
  BY <1>1, <1>6, <1>8, GrownOpen DEF OpenNext
<1>10. /\ t \in Seq(1..n) /\ Len(t) = Len(s) - 1 /\ \A i \in 1 .. Len(s) - 1 : t[i] = s[i]
  BY <1>1, FrontOk
<1>11. DOMAIN s = 1..Len(s) /\ DOMAIN t = 1..Len(t)
  BY <1>1, <1>10, LenProperties
<1>12. ~ Among(k, t) /\ \A p \in 1..n : p # k => (Among(p, s) <=> Among(p, t))
  <2> HIDE DEF t, k, n
  <2>1. \A j \in 1 .. Len(s) - 1 : j \in 1..Len(s) /\ j # Len(s)
    BY <1>2
  <2>2. \A j \in 1..Len(s) : j \in 1 .. Len(s) - 1 \/ j = Len(s)
    BY <1>2
  <2>3. ~ Among(k, t)
    BY <1>2, <1>10, <1>11, <2>1 DEF Among
  <2>4. \A p \in 1..n : p # k => (Among(p, s) <=> Among(p, t))
    BY <1>2, <1>10, <1>11, <2>1, <2>2 DEF Among
  <2> QED
    BY <2>3, <2>4
<1>13. OpenAt(c)[n + 1] = s /\ n + 1 \in 1 .. n + 1 /\ OpenAt(c)[k] = OpenAt(b)[k]
  <2>1. n + 1 \in 1 .. n + 1 /\ k \in 1 .. n + 1
    BY <1>1, <1>2
  <2> QED
    BY <1>1, <1>7, <2>1
<1>14. PlaceOk(c, t, FALSE, k)
  <2>1. Closed(c, k)
    <3>1. n + 2 \in Nat \ {0} /\ (n + 2) - 1 = n + 1 /\ n + 1 \in k + 1 .. n + 1
      BY <1>1, <1>2
    <3> HIDE DEF n, k
    <3>2. Directly(c, k, n + 1)
      BY <1>2, <1>7, <1>13, <3>1 DEF Directly
    <3> QED
      BY <1>6, <1>8, <3>1, <3>2 DEF Closed
  <2>2. b[k].op = "if" => c[k].else_ = c[k].end \/ HasElse(c, k)
    <3>1. CASE armed
      <4>1. Directly(c, k, e)
        BY <1>2, <1>5, <1>6, <3>1, GrownDirectly
      <4> QED
        BY <1>5, <1>6, <1>7, <3>1, <4>1 DEF HasElse
    <3>2. CASE ~ armed
      BY <1>6, <3>2
    <3> QED
      BY <3>1, <3>2
  <2>3. b[k].op # "else" /\ b[k].op # "end"
    BY <1>2 DEF Openers
  <2> QED
    BY <1>2, <1>7, <1>12, <2>1, <2>2, <2>3 DEF PlaceOk, Among
<1>15. ASSUME armed
       PROVE  PlaceOk(c, t, FALSE, e)
  <2>1. c[e].op = "else" /\ c[e].op \notin Openers
    BY <1>5, <1>7, <1>15 DEF Openers
  <2>2. OpenAt(b)[e] # <<>> /\ Last(OpenAt(b)[e]) = k
    <3>1. Directly(b, k, e) /\ Len(b) \in Nat /\ k \in 1..Len(b)
      BY <1>1, <1>2, <1>5, <1>15
    <3> HIDE DEF k, e
    <3> QED
      BY <3>1, DirectlyLast
  <2>3. OpenAt(c)[e] = OpenAt(b)[e]
    <3>1. e \in 1 .. n + 1
      BY <1>1, <1>5, <1>15
    <3> QED
      BY <1>7, <3>1
  <2>4. c[k].op = "if" /\ c[k].else_ = b[k].else_
    BY <1>2, <1>6, <1>7, <1>15
  <2>5. b[k].else_ = e + 1
    BY <1>5, <1>15
  <2> HIDE DEF k, t, e
  <2> QED
    BY <2>1, <2>2, <2>3, <2>4, <2>5 DEF PlaceOk
<1>16. ASSUME NEW p \in 1..n, p # k, armed => p # e
       PROVE  PlaceOk(c, t, FALSE, p)
  <2>1. c[p] = b[p]
    BY <1>6, <1>16
  <2>2. ASSUME NEW q \in 1..n, b[p].op = "if", HasElse(b, p), q = b[p].else_ - 1
        PROVE  c[q].end = b[q].end
    <3>1. Directly(b, p, q) /\ b[q].op = "else"
      BY <2>2 DEF HasElse
    <3>2. q # k
      BY <1>2, <3>1 DEF Openers
    <3>3. armed => q # e
      <4> SUFFICES ASSUME armed, q = e
                   PROVE  FALSE
        OBVIOUS
      <4>1. Directly(b, k, e) /\ Len(b) \in Nat /\ k \in 1..Len(b)
        BY <1>1, <1>2, <1>5
      <4>2. Directly(b, p, e) /\ p \in 1..Len(b)
        BY <3>1
      <4> HIDE DEF k, e, n
      <4>3. Last(OpenAt(b)[e]) = k
        BY <4>1, DirectlyLast
      <4>4. Last(OpenAt(b)[e]) = p
        BY <4>1, <4>2, DirectlyLast
      <4> QED
        BY <1>16, <4>3, <4>4
    <3> QED
      BY <1>6, <3>2, <3>3
  <2>3. ASSUME b[p].op = "else"
        PROVE  c[Last(OpenAt(b)[p])].else_ = b[Last(OpenAt(b)[p])].else_
    <3> DEFINE l == Last(OpenAt(b)[p])
    <3>1. OpenAt(b)[p] # <<>> /\ b[l].op = "if" /\ b[l].else_ = p + 1
      BY <1>3, <2>3 DEF PlaceOk
    <3>2. l \in 1..n
      <4>1. OpenAt(b)[p] \in Seq(1 .. p - 1)
        BY OpenNow DEF NestedAt
      <4>2. l \in 1 .. p - 1
        BY <3>1, <4>1, FrontOk
      <4> HIDE DEF l, n
      <4> QED
        BY <1>1, <4>2
    <3>3. armed => l # e
      BY <1>5, <3>1
    <3> HIDE DEF l
    <3>4. c[l].else_ = b[l].else_
      <4>1. CASE l = k
        <5>1. armed
          BY <3>1, <4>1
        <5> QED
          BY <1>6, <3>1, <4>1, <5>1
      <4>2. CASE l # k
        <5>1. c[l] = b[l]
          BY <1>6, <3>2, <3>3, <4>2
        <5> QED
          BY <5>1
      <4> QED
        BY <4>1, <4>2
    <3> QED
      BY <3>4 DEF l
  <2>4. PlaceOk(b, s, FALSE, p) /\ (Among(p, s) <=> Among(p, t)) /\ FALSE \in BOOLEAN
    BY <1>3, <1>12, <1>16
  <2> HIDE DEF t
  <2> QED
    BY <1>6, <2>1, <2>2, <2>3, <2>4, PlaceKept
<1>17. PlaceOk(c, t, FALSE, n + 1)
  <2>1. c[n + 1].op = "end" /\ OpenAt(c)[n + 1] # <<>>
    BY <1>6, <1>8, <1>13
  <2> HIDE DEF t, n
  <2> QED
    BY <1>8, <2>1 DEF PlaceOk
<1>18. \A p \in 1..Len(c) : PlaceOk(c, t, FALSE, p)
  <2>1. \A p \in 1..Len(c) : p \in 1..n \/ p = n + 1
    BY <1>1, <1>7
  <2> HIDE DEF t, n
  <2> QED
    BY <1>14, <1>15, <1>16, <1>17, <2>1
<1> QED
  BY <1>7, <1>9, <1>18 DEF BodyOk, c

\* `else` of an open if.
LEMMA ElseStep ==
  ASSUME NEW b, NEW s, BodyOk(b, s, FALSE), s # <<>>, NEW op \in Operators, op.op = "else",
         b[Last(s)].op = "if", b[Last(s)].else_ = 0
  PROVE  BodyOk(Append([b EXCEPT ![Last(s)].else_ = Len(b) + 2], op), s, FALSE)
<1> DEFINE n == Len(b)
           k == Last(s)
           i == [b[k] EXCEPT !.else_ = n + 2]
           d == [b EXCEPT ![k] = i]
           c == Append(d, op)
<1>1. n \in Nat /\ s \in Seq(1..n) /\ b \in Seq(Instructions) /\ s = OpenAt(b)[n + 1]
  BY OpenNow DEF BodyOk
<1>2. /\ k \in 1..n /\ b[k].op \in Openers /\ s = Append(OpenAt(b)[k], k)
      /\ Len(s) \in Nat \ {0} /\ k = s[Len(s)] /\ b[k] \in Instructions
  BY Innermost, OpenNow
<1>3. \A p \in 1..n : PlaceOk(b, s, FALSE, p)
  BY DEF BodyOk
<1>4. Among(k, s) /\ b[k].end = 0
  <2>1. Len(s) \in DOMAIN s
    BY <1>1, <1>2, LenProperties
  <2> QED
    BY <1>2, <1>3, <2>1 DEF PlaceOk, Among
<1>5. i \in Instructions /\ i.op = "if" /\ i.else_ = n + 2 /\ i.end = 0
  <2>1. n + 2 \in Nat
    BY <1>1
  <2> HIDE DEF n
  <2> QED
    BY <1>2, <1>4, <2>1, PatchElse
<1>6. op \in Instructions /\ op.end = 0
  BY OperatorOk
<1> HIDE DEF i
<1>7. d \in Seq(Instructions) /\ Len(d) = n /\ d[k] = i /\ \A p \in 1..n : p # k => d[p] = b[p]
  BY <1>1, <1>2, <1>5, ReplaceOk
<1> HIDE DEF d
<1>8. /\ c \in Seq(Instructions) /\ Len(c) = n + 1 /\ c[n + 1] = op
      /\ \A p \in 1..n : c[p] = d[p]
  BY <1>6, <1>7, AppendOk
<1> HIDE DEF c, n
<1>9. c[k] = i /\ \A p \in 1..n : p # k => c[p] = b[p]
  BY <1>2, <1>7, <1>8
<1>10. Grown(b, c)
  <2>1. \A p \in 1..n : c[p].op = b[p].op
    BY <1>5, <1>9
  <2> QED
    BY <1>1, <1>8, <2>1 DEF Grown, n
<1>11. /\ OpenAt(c)[n + 1] = s /\ OpenAt(c)[k] = OpenAt(b)[k]
       /\ OpenAt(c)[Len(c) + 1] = s
  <2>1. n + 1 \in 1 .. n + 1 /\ k \in 1 .. n + 1
    BY <1>1, <1>2
  <2>2. /\ \A q \in 1 .. n + 1 : OpenAt(c)[q] = OpenAt(b)[q]
        /\ OpenAt(c)[Len(c) + 1] = OpenNext(OpenAt(b)[n + 1], c[n + 1], n + 1)
    BY <1>10, GrownOpen DEF n
  <2>3. op.op \notin Openers /\ op.op # "end"
    BY DEF Openers
  <2> QED
    BY <1>1, <1>8, <2>1, <2>2, <2>3 DEF OpenNext
<1>12. PlaceOk(c, s, FALSE, k)
  <2>1. HasElse(c, k)
    <3>1. n + 2 \in Nat \ {0} /\ (n + 2) - 1 = n + 1 /\ n + 1 \in k + 1 .. n + 1
      BY <1>1, <1>2
    <3> HIDE DEF k
    <3>2. Directly(c, k, n + 1)
      BY <1>2, <1>8, <1>11, <3>1 DEF Directly
    <3>3. c[n + 1].op = "else" /\ c[n + 1].end = c[k].end
      BY <1>5, <1>6, <1>8, <1>9
    <3> QED
      BY <1>5, <1>9, <3>1, <3>2, <3>3 DEF HasElse
  <2>2. c[k].op = "if" /\ c[k].end = 0
    BY <1>5, <1>9
  <2> HIDE DEF k
  <2> QED
    BY <1>4, <2>1, <2>2 DEF PlaceOk, Among
<1>13. ASSUME NEW p \in 1..n, p # k
       PROVE  PlaceOk(c, s, FALSE, p)
  <2>1. c[p] = b[p]
    BY <1>9, <1>13
  <2>2. ASSUME NEW q \in 1..n, b[p].op = "if", HasElse(b, p), q = b[p].else_ - 1
        PROVE  c[q].end = b[q].end
    <3>1. b[q].op = "else"
      BY <2>2 DEF HasElse
    <3> QED
      BY <1>9, <3>1
  <2>3. ASSUME b[p].op = "else"
        PROVE  c[Last(OpenAt(b)[p])].else_ = b[Last(OpenAt(b)[p])].else_
    <3> DEFINE l == Last(OpenAt(b)[p])
    <3>1. OpenAt(b)[p] # <<>> /\ b[l].op = "if" /\ b[l].else_ = p + 1
      BY <1>3, <2>3 DEF PlaceOk
    <3>2. l \in 1..n
      <4>1. OpenAt(b)[p] \in Seq(1 .. p - 1)
        BY OpenNow DEF NestedAt, n
      <4>2. l \in 1 .. p - 1
        BY <3>1, <4>1, FrontOk
      <4> HIDE DEF l
      <4> QED
        BY <1>1, <4>2
    <3>3. l # k
      BY <3>1
    <3> HIDE DEF l, k
    <3>4. c[l].else_ = b[l].else_
      BY <1>9, <3>2, <3>3
    <3> QED
      BY <3>4 DEF l
  <2>4. PlaceOk(b, s, FALSE, p) /\ FALSE \in BOOLEAN
    BY <1>3
  <2> QED
    BY <1>10, <2>1, <2>2, <2>3, <2>4, PlaceKept DEF n
<1>14. PlaceOk(c, s, FALSE, n + 1)
  <2>1. op.op \notin Openers /\ op.op # "end" /\ op.op # "if"
    BY DEF Openers
  <2>2. (n + 1) + 1 = n + 2
    BY <1>1
  <2>3. c[k].op = "if" /\ c[k].else_ = n + 2
    BY <1>5, <1>9
  <2> QED
    BY <1>8, <1>11, <2>1, <2>2, <2>3 DEF PlaceOk
<1>15. \A p \in 1..Len(c) : PlaceOk(c, s, FALSE, p)
  <2>1. \A p \in 1..Len(c) : p \in 1..n \/ p = n + 1
    BY <1>1, <1>8
  <2> QED
    BY <1>12, <1>13, <1>14, <2>1
<1>16. BodyOk(c, s, FALSE)
  BY <1>8, <1>11, <1>15 DEF BodyOk
<1> QED
  BY <1>16 DEF c, d, i, n

\* One operator further, the body is as it should be.
LEMMA DecodeStep ==
  ASSUME NEW b, NEW s, BodyOk(b, s, FALSE), NEW op \in Operators, ~ Misplaced(op, b, s)
  PROVE  LET d == DecodeOp(op, b, s)
         IN  BodyOk(d.out, d.open, BodyEnds(op, s)) /\ (BodyEnds(op, s) => d.open = <<>>)
<1> DEFINE d == DecodeOp(op, b, s)
           done == BodyEnds(op, s)
<1>1. op.op = "end" <=> op = End
  BY OperatorOk
<1> SUFFICES BodyOk(d.out, d.open, done) /\ (done => d.open = <<>>)
  OBVIOUS
<1>2. CASE op.op \in Openers
  <2>1. op.op # "else" /\ op.op # "end" /\ op # End /\ done = FALSE
    BY <1>1, <1>2 DEF Openers, BodyEnds
  <2>2. BodyOk(Append(b, op), OpenNext(s, op, Len(b) + 1), op.op = "end")
    BY <2>1, PlainStep
  <2>3. d.out = Append(b, op) /\ d.open = Append(s, Len(b) + 1)
    BY <1>2, <2>1 DEF DecodeOp
  <2>4. OpenNext(s, op, Len(b) + 1) = Append(s, Len(b) + 1)
    BY <1>2 DEF OpenNext
  <2>5. (op.op = "end") = FALSE
    BY <2>1
  <2> HIDE DEF d, done
  <2> QED
    BY <2>1, <2>2, <2>3, <2>4, <2>5
<1>3. CASE op.op = "end" /\ s # <<>>
  <2>1. op.op \notin Openers /\ op = End /\ done = FALSE
    BY <1>1, <1>3 DEF Openers, BodyEnds
  <2>2. d.out = CloseBlock(b, Last(s)) /\ d.open = Front(s)
    BY <1>3, <2>1 DEF DecodeOp
  <2>3. BodyOk(CloseBlock(b, Last(s)), Front(s), FALSE)
    BY <1>3, EndStep
  <2> HIDE DEF d, done
  <2> QED
    BY <2>1, <2>2, <2>3
<1>4. CASE op.op = "else"
  <2>1. op.op \notin Openers /\ op # End /\ done = FALSE
    BY <1>1, <1>4 DEF Openers, BodyEnds
  <2>2. d.out = Append([b EXCEPT ![Last(s)].else_ = Len(b) + 2], op) /\ d.open = s
    BY <1>4, <2>1 DEF DecodeOp
  <2>3. s # <<>> /\ b[Last(s)].op = "if" /\ b[Last(s)].else_ = 0
    BY <1>4 DEF Misplaced
  <2>4. BodyOk(Append([b EXCEPT ![Last(s)].else_ = Len(b) + 2], op), s, FALSE)
    BY <1>4, <2>3, ElseStep
  <2> HIDE DEF d, done
  <2> QED
    BY <2>1, <2>2, <2>4
<1>5. CASE op.op \notin Openers \cup {"else"} /\ ~ (op.op = "end" /\ s # <<>>)
  <2>1. op.op = "end" => s = <<>>
    BY <1>5
  <2>2. BodyOk(Append(b, op), OpenNext(s, op, Len(b) + 1), op.op = "end")
    BY <1>5, <2>1, PlainStep
  <2>3. d.out = Append(b, op) /\ d.open = s
    BY <1>1, <1>5 DEF DecodeOp
  <2>4. OpenNext(s, op, Len(b) + 1) = s
    BY <1>5 DEF OpenNext
  <2>5. done = (op.op = "end")
    BY <1>1, <2>1 DEF BodyEnds
  <2>6. done => s = <<>>
    BY DEF BodyEnds
  <2> HIDE DEF d, done
  <2> QED
    BY <2>2, <2>3, <2>4, <2>5, <2>6
<1> QED
  BY <1>2, <1>3, <1>4, <1>5

-----------------------------------------------------------------------------
(* The functions of the module itself come last.                           *)

\* They are numbered from First on.
LEMMA LocalIsInterval ==
  /\ Len(Funcs) \in Local /\ First \in Local
  /\ Local = First .. Len(Funcs) /\ First \in Nat \ {0}
  /\ DOMAIN Funcs = 1..Len(Funcs) /\ Len(Funcs) \in Nat
<1> DEFINE n == Len(Funcs)
<1>1. Funcs \in Seq(FunDecl) /\ Funcs # <<>> /\ ~ Funcs[n].host
  BY BodyAssumption, MachineAssumption DEF Last
<1>2. n \in Nat \ {0} /\ DOMAIN Funcs = 1..n
  BY <1>1, EmptySeq, LenProperties
<1>3. \A f \in 1..n : Funcs[f].host \in BOOLEAN
  <2> TAKE f \in 1..n
  <2>1. Funcs[f] \in FunDecl
    BY <1>1, ElementOfSeq
  <2> QED
    BY <2>1 DEF FunDecl
<1> HIDE DEF n
<1>4. Local = {f \in 1..n : ~ Funcs[f].host}
  BY <1>2 DEF Local, Imported
<1>5. n \in Local /\ Local \subseteq Nat
  BY <1>1, <1>2, <1>4
<1>6. PICK l \in Local : \A f \in Local : l <= f
  <2>1. Local # {}
    BY <1>5
  <2> QED
    BY <1>5, <2>1, LeastNatural
<1>7. l \in 1..n
  BY <1>4
<1>8. Local = l..n
  <2>1. ASSUME NEW f \in l..n
        PROVE  f \in Local
    <3>1. f \in 1..n
      BY <1>2, <1>7
    <3>2. ~ Funcs[f].host
      <4>1. CASE f = l
        BY <1>4, <4>1
      <4>2. CASE l < f
        BY <1>2, <1>4, <1>7, <3>1, <4>2, MachineAssumption
      <4> QED
        BY <1>7, <4>1, <4>2
    <3> QED
      BY <1>4, <3>1, <3>2
  <2>2. ASSUME NEW f \in Local
        PROVE  f \in l..n
    BY <1>2, <1>4, <1>6
  <2> QED
    BY <2>1, <2>2
<1>9. Cardinality(Local) = n - l + 1
  <2>1. l \in Int /\ n \in Int /\ ~ (l > n)
    BY <1>2, <1>7
  <2>2. Cardinality(l..n) = IF l > n THEN 0 ELSE n - l + 1
    BY <2>1, FS_Interval
  <2> QED
    BY <1>8, <2>1, <2>2
<1>10. First = l
  BY <1>2, <1>7, <1>9 DEF First, n
<1> QED
  BY <1>2, <1>5, <1>7, <1>8, <1>10 DEF n

\* What follows a function of the module is one.
LEMMA NextLocal ==
  ASSUME NEW f \in Local
  PROVE  /\ f \in Nat \ {0} /\ f \in DOMAIN Funcs /\ First <= f /\ f <= Len(Funcs)
         /\ f < Len(Funcs) => f + 1 \in Local
         /\ \A g \in Local : /\ g \in Nat \ {0}
                             /\ g < f + 1 <=> g < f \/ g = f
                             /\ g > f + 1 => g > f
<1>1. /\ Local = First .. Len(Funcs) /\ First \in Nat \ {0} /\ Len(Funcs) \in Nat
  BY LocalIsInterval
<1> HIDE DEF Local, First
<1> QED
  BY <1>1, LocalIsInterval

\* An empty body is decoded as far as it goes.
LEMMA EmptyBodyOk == BodyOk(<<>>, <<>>, FALSE)
<1>1. <<>> \in Seq(Instructions) /\ Len(<<>>) = 0
  BY EmptySeq
<1>2. OpenAt(<<>>)[1] = <<>>
  BY <1>1, OpenAtNext
<1>3. OpenAt(<<>>)[Len(<<>>) + 1] = <<>>
  <2>1. Len(<<>>) + 1 = 1
    BY <1>1
  <2> QED
    BY <1>2, <2>1
<1>4. \A p \in 1..Len(<<>>) : PlaceOk(<<>>, <<>>, FALSE, p)
  BY <1>1
<1> QED
  BY <1>1, <1>3, <1>4 DEF BodyOk

\* The decoder keeps its invariant.
LEMMA DecodeKeepsBodies ==
  ASSUME DecodeInv, Decode
  PROVE  DecodeInv'
<1>1. /\ phase = "decode" /\ fn \in Local
      /\ bodies \in [DOMAIN Funcs -> Seq(Instructions)]
      /\ \A f \in Local : /\ f < fn => BodyOk(bodies[f], <<>>, TRUE)
                          /\ f = fn => BodyOk(bodies[f], open, FALSE)
                          /\ f > fn => bodies[f] = <<>>
  BY DEF DecodeInv, Decode
<1>2. fn \in DOMAIN Funcs /\ fn \in Nat \ {0}
  BY <1>1, NextLocal
<1>3. CASE phase' = "malformed" /\ UNCHANGED codeVars
  <2>1. phase' \in {"decode", "malformed"} /\ fn' = fn /\ bodies' = bodies /\ open' = open
    BY <1>3 DEF codeVars
  <2> HIDE DEF Local
  <2> QED
    BY <1>1, <2>1 DEF DecodeInv
<1>4. ASSUME NEW op \in Following, ~ Misplaced(op, bodies[fn], open),
             bodies' = [bodies EXCEPT ![fn] = DecodeOp(op, bodies[fn], open).out],
             open' = DecodeOp(op, bodies[fn], open).open,
             \/ ~ BodyEnds(op, open) /\ UNCHANGED <<phase, fn, checked>>
             \/ BodyEnds(op, open) /\ fn < Len(Funcs)
                /\ fn' = fn + 1 /\ UNCHANGED <<phase, checked>>
             \/ /\ BodyEnds(op, open) /\ fn = Len(Funcs)
                /\ phase' = "validate" /\ fn' = First
                /\ checked' = [checked EXCEPT ![First] = <<NewChecker(First)>>]
      PROVE  DecodeInv'
  <2> DEFINE done == BodyEnds(op, open)
             out  == DecodeOp(op, bodies[fn], open).out
  <2>1. op \in Operators
    BY DEF Following
  <2>2. BodyOk(out, open', done) /\ (done => open' = <<>>)
    BY <1>1, <1>4, <2>1, DecodeStep
  <2>3. out \in Seq(Instructions)
    BY <2>2 DEF BodyOk
  <2> HIDE DEF out
  <2>4. /\ bodies' \in [DOMAIN Funcs -> Seq(Instructions)]
        /\ bodies'[fn] = out
        /\ \A f \in Local : f # fn => bodies'[f] = bodies[f]
    <3>1. \A f \in Local : f \in DOMAIN Funcs
      BY DEF Local
    <3> HIDE DEF Local
    <3> QED
      BY <1>1, <1>2, <1>4, <2>3, <3>1 DEF out
  <2>5. CASE ~ done
    <3>1. fn' = fn /\ phase' = "decode" /\ done = FALSE
      BY <1>1, <1>4, <2>5
    <3>2. BodyOk(out, open', FALSE)
      BY <2>2, <3>1
    <3> HIDE DEF Local, out, done
    <3>4. ASSUME NEW f \in Local
          PROVE  /\ f < fn' => BodyOk(bodies'[f], <<>>, TRUE)
                 /\ f = fn' => BodyOk(bodies'[f], open', FALSE)
                 /\ f > fn' => bodies'[f] = <<>>
      <4>1. CASE f = fn
        <5>1. ~ f < fn /\ ~ f > fn /\ bodies'[f] = out
          BY <1>2, <2>4, <4>1
        <5> QED
          BY <3>1, <3>2, <5>1
      <4>2. CASE f # fn
        <5>1. bodies'[f] = bodies[f]
          BY <2>4, <4>2
        <5> QED
          BY <1>1, <3>1, <4>2, <5>1
      <4> QED
        BY <4>1, <4>2
    <3> QED
      BY <1>1, <2>4, <3>1, <3>4 DEF DecodeInv
  <2>6. CASE done /\ fn < Len(Funcs)
    <3>1. fn' = fn + 1 /\ phase' = "decode" /\ done = TRUE /\ open' = <<>>
      <4>1. fn' = fn + 1 /\ phase' = "decode"
        BY <1>1, <1>2, <1>4, <2>6, LocalIsInterval
      <4> QED
        BY <2>2, <2>6, <4>1
    <3>2. BodyOk(out, <<>>, TRUE)
      BY <2>2, <3>1
    <3>3. fn + 1 \in Local /\ fn # fn + 1 /\ fn < fn + 1
          /\ \A g \in Local : /\ g \in Nat \ {0} /\ (g < fn + 1 <=> g < fn \/ g = fn)
                              /\ (g > fn + 1 => g > fn)
      BY <1>1, <1>2, <2>6, NextLocal
    <3> HIDE DEF Local, done
    <3>4. ASSUME NEW f \in Local
          PROVE  /\ f < fn' => BodyOk(bodies'[f], <<>>, TRUE)
                 /\ f = fn' => BodyOk(bodies'[f], open', FALSE)
                 /\ f > fn' => bodies'[f] = <<>>
      <4>1. f < fn' => BodyOk(bodies'[f], <<>>, TRUE)
        <5>1. CASE f = fn
          BY <2>4, <3>2, <5>1
        <5>2. CASE f # fn
          BY <1>1, <2>4, <3>1, <3>3, <5>2
        <5> QED
          BY <5>1, <5>2
      <4>2. f = fn' => BodyOk(bodies'[f], open', FALSE)
        <5> SUFFICES ASSUME f = fn + 1
                     PROVE  BodyOk(bodies'[f], open', FALSE)
          BY <3>1
        <5>1. f > fn /\ f # fn
          BY <1>2
        <5>2. bodies'[f] = <<>>
          BY <1>1, <2>4, <5>1
        <5> QED
          BY <3>1, <5>2, EmptyBodyOk
      <4>3. f > fn' => bodies'[f] = <<>>
        <5> SUFFICES ASSUME f > fn + 1
                     PROVE  bodies'[f] = <<>>
          BY <3>1
        <5>1. f > fn /\ f # fn
          BY <1>2, <3>3
        <5> QED
          BY <1>1, <2>4, <5>1
      <4> QED
        BY <4>1, <4>2, <4>3
    <3> QED
      BY <2>4, <3>1, <3>3, <3>4 DEF DecodeInv
  <2>7. CASE done /\ fn = Len(Funcs)
    <3>1. fn' = First /\ phase' = "validate" /\ done = TRUE /\ open' = <<>>
      <4>1. fn' = First /\ phase' = "validate"
        BY <1>1, <1>2, <1>4, <2>7
      <4> QED
        BY <2>2, <2>7, <4>1
    <3>2. BodyOk(out, <<>>, TRUE)
      BY <2>2, <3>1
    <3>3. First \in Local /\ \A f \in Local : f \in Nat \ {0} /\ f <= fn
      BY <1>1, <2>7, LocalIsInterval, NextLocal
    <3> HIDE DEF Local, First
    <3>4. ASSUME NEW f \in Local
          PROVE  BodyOk(bodies'[f], <<>>, TRUE)
      <4>1. CASE f = fn
        BY <2>4, <3>2, <4>1
      <4>2. CASE f # fn
        <5>1. f < fn
          BY <1>2, <3>3, <4>2
        <5> QED
          BY <1>1, <2>4, <4>2, <5>1
      <4> QED
        BY <4>1, <4>2
    <3> QED
      BY <2>4, <3>1, <3>3, <3>4 DEF DecodeInv
  <2> QED
    BY <1>4, <2>5, <2>6, <2>7
<1> QED
  BY <1>3, <1>4 DEF Decode

\* Running code is neither decoded nor validated.
LEMMA RunSteps ==
  ASSUME Invoke \/ Execute
  PROVE  phase \in {"ready", "run"} /\ phase' \in {"run", "trap", "done"} /\ UNCHANGED codeVars
<1>1. ASSUME NEW st, PopFrame(st), phase = "run"
      PROVE  phase' \in {"run", "done"}
  BY <1>1 DEF PopFrame
<1>2. ASSUME NEW f, NEW st, NEW callers, PushFrame(f, st, callers)
      PROVE  phase' \in {"run", "trap"}
  BY <1>2 DEF PushFrame, Trap
<1>3. ASSUME NEW d, NEW st, Branch(d, st), phase = "run"
      PROVE  phase' \in {"run", "done"}
  BY <1>1, <1>3 DEF Branch
<1>4. CASE Invoke
  BY <1>2, <1>4 DEF Invoke
<1>5. CASE Execute
  <2>1. UNCHANGED codeVars
    BY <1>5 DEF Execute
  <2>2. CASE EndOfBody
    BY <1>1, <2>1, <2>2 DEF EndOfBody
  <2>3. CASE ExecUnreachable
    BY <2>1, <2>3 DEF ExecUnreachable, At, Trap
  <2>4. CASE ExecBlock \/ ExecIf \/ ExecElse \/ ExecEnd
    BY <2>1, <2>4 DEF ExecBlock, ExecIf, ExecElse, ExecEnd, At
  <2>5. CASE ExecBr \/ ExecBrIf \/ ExecBrTable
    BY <1>3, <2>1, <2>5 DEF ExecBr, ExecBrIf, ExecBrTable, At
  <2>6. CASE ExecReturn
    BY <1>1, <2>1, <2>6 DEF ExecReturn, At
  <2>7. CASE ExecCall
    BY <1>2, <2>1, <2>7 DEF ExecCall, At, Trap
  <2>8. CASE ExecSimple \/ ExecLocalGet \/ ExecLocalSet
    BY <2>1, <2>8 DEF ExecSimple, ExecLocalGet, ExecLocalSet, At, Replace
  <2> QED
    BY <1>5, <2>2, <2>3, <2>4, <2>5, <2>6, <2>7, <2>8 DEF Execute
<1> QED
  BY <1>4, <1>5

\* Validation leaves the bodies alone.
LEMMA ValidateSteps ==
  ASSUME Validate, fn \in Local
  PROVE  /\ phase = "validate" /\ phase' \in {"validate", "invalid", "ready"}
         /\ fn' \in Local /\ bodies' = bodies /\ open' = open
<1>1. fn + 1 \in Local \/ ~ fn < Len(Funcs)
  BY NextLocal
<1> QED
  BY <1>1 DEF Validate

\* So the bodies stay as the decoder left them.
LEMMA BodiesStay ==
  ASSUME DecodeInv, Validate \/ Invoke \/ Execute \/ UNCHANGED vars
  PROVE  DecodeInv'
<1>1. fn \in Local
  BY DEF DecodeInv
<1>2. CASE UNCHANGED vars
  BY <1>2 DEF vars, codeVars, DecodeInv
<1>3. CASE Validate \/ Invoke \/ Execute
  <2>1. phase \notin {"decode", "malformed"} /\ phase' \notin {"decode", "malformed"}
        /\ fn' \in Local /\ bodies' = bodies
    BY <1>1, <1>3, RunSteps, ValidateSteps DEF codeVars
  <2> QED
    BY <2>1 DEF DecodeInv
<1> QED
  BY <1>2, <1>3

\* Nothing is decoded yet: the first body is empty, with no block open.
LEMMA DecodeInit == Init => DecodeInv
<1> SUFFICES ASSUME Init
             PROVE  DecodeInv
  OBVIOUS
<1>1. First \in Local /\ Local \subseteq DOMAIN Funcs /\ <<>> \in Seq(Instructions)
  BY LocalIsInterval, EmptySeq DEF Local
<1>2. ASSUME NEW f \in Local
      PROVE  ~ f < First
  <2>1. Local = First .. Len(Funcs) /\ First \in Nat /\ Len(Funcs) \in Nat
    BY LocalIsInterval
  <2> HIDE DEF Local, First
  <2> QED
    BY <2>1
<1>3. /\ fn = First /\ phase = "decode" /\ open = <<>>
      /\ bodies = [f \in DOMAIN Funcs |-> <<>>]
  BY DEF Init
<1> HIDE DEF Local, First
<1>4. \A f \in Local : bodies[f] = <<>>
  BY <1>1, <1>3
<1> QED
  BY <1>1, <1>2, <1>3, <1>4, EmptyBodyOk DEF DecodeInv

-----------------------------------------------------------------------------
(* The validator.                                                          *)

\* The parts of a checker.
LEMMA CheckerParts ==
  ASSUME NEW c \in CheckerType
  PROVE  /\ c.stack \in Seq(BodyType \cup {Bot}) /\ c.ctrls \in Seq(CtrlType)
         /\ c = [stack |-> c.stack, ctrls |-> c.ctrls]
         /\ Len(c.stack) \in Nat /\ Len(c.ctrls) \in Nat
         /\ \A j \in 1..Len(c.ctrls) :
              /\ c.ctrls[j] \in CtrlType /\ c.ctrls[j].height \in Nat
              /\ c.ctrls[j].ins \in Seq(BodyType) /\ c.ctrls[j].outs \in Seq(BodyType)
         /\ c.ctrls # <<>> => Len(c.ctrls) \in Nat \ {0} /\ Last(c.ctrls) = c.ctrls[Len(c.ctrls)]
<1>1. /\ c.stack \in Seq(BodyType \cup {Bot}) /\ c.ctrls \in Seq(CtrlType)
      /\ c = [stack |-> c.stack, ctrls |-> c.ctrls]
  BY DEF CheckerType
<1>2. \A j \in 1..Len(c.ctrls) : c.ctrls[j] \in CtrlType
  BY <1>1, ElementOfSeq
<1>3. \A l \in CtrlType : l.height \in Nat /\ l.ins \in Seq(BodyType) /\ l.outs \in Seq(BodyType)
  BY DEF CtrlType
<1>4. Len(c.stack) \in Nat /\ Len(c.ctrls) \in Nat
  BY <1>1, LenProperties
<1>5. c.ctrls # <<>> => Len(c.ctrls) \in Nat \ {0}
  BY <1>1, EmptySeq
<1> QED
  BY <1>1, <1>2, <1>3, <1>4, <1>5 DEF Last

\* A prefix of a sequence.
LEMMA PrefixOk ==
  ASSUME NEW S, NEW s \in Seq(S), NEW n \in 0..Len(s)
  PROVE  /\ SubSeq(s, 1, n) \in Seq(S) /\ Len(SubSeq(s, 1, n)) = n /\ Len(s) \in Nat
         /\ \A m \in 1..n : SubSeq(s, 1, n)[m] = s[m]
<1>1. Len(s) \in Nat /\ n \in Nat /\ n <= Len(s)
  BY LenProperties
<1>2. \A m \in 1..n : s[m] \in S
  BY <1>1, ElementOfSeq
<1>3. /\ SubSeq(s, 1, n) \in Seq(S)
      /\ Len(SubSeq(s, 1, n)) = IF 1 <= n THEN n - 1 + 1 ELSE 0
      /\ \A m \in 1 .. n - 1 + 1 : SubSeq(s, 1, n)[m] = s[1 + m - 1]
  BY <1>1, <1>2, SubSeqProperties
<1>4. Len(SubSeq(s, 1, n)) = n
  BY <1>1, <1>3
<1>5. \A m \in 1..n : m \in 1 .. n - 1 + 1 /\ 1 + m - 1 = m
  BY <1>1
<1> QED
  BY <1>1, <1>3, <1>4, <1>5

\* One sequence after the other.
LEMMA ConcatOk ==
  ASSUME NEW S, NEW s \in Seq(S), NEW t \in Seq(S)
  PROVE  /\ s \o t \in Seq(S) /\ Len(s \o t) = Len(s) + Len(t)
         /\ Len(s) \in Nat /\ Len(t) \in Nat
         /\ \A m \in 1..Len(s) : (s \o t)[m] = s[m]
         /\ \A m \in 1..Len(t) : (s \o t)[Len(s) + m] = t[m]
<1>1. Len(s) \in Nat /\ Len(t) \in Nat
  BY LenProperties
<1>2. /\ s \o t \in Seq(S) /\ Len(s \o t) = Len(s) + Len(t)
      /\ \A m \in 1 .. Len(s) + Len(t) :
           (s \o t)[m] = IF m <= Len(s) THEN s[m] ELSE t[m - Len(s)]
  BY ConcatProperties
<1>3. \A m \in 1..Len(s) : m \in 1 .. Len(s) + Len(t) /\ m <= Len(s)
  BY <1>1
<1>4. \A m \in 1..Len(t) : Len(s) + m \in 1 .. Len(s) + Len(t) /\ ~ Len(s) + m <= Len(s)
                           /\ (Len(s) + m) - Len(s) = m
  BY <1>1
<1> QED
  BY <1>1, <1>2, <1>3, <1>4

\* A checker before an instruction.
Live(c) == c \in CheckerType /\ c.ctrls # <<>> /\ Last(c.ctrls).height <= Len(c.stack)

\* d has the labels of c and the operands that are not the innermost label's.
Flat(c, d) ==
  /\ d \in CheckerType /\ Len(d.ctrls) = Len(c.ctrls)
  /\ \A m \in 1..Len(c.ctrls) :
       /\ d.ctrls[m].kind = c.ctrls[m].kind /\ d.ctrls[m].height = c.ctrls[m].height
       /\ d.ctrls[m].ins = c.ctrls[m].ins /\ d.ctrls[m].outs = c.ctrls[m].outs
       /\ m < Len(c.ctrls) => d.ctrls[m] = c.ctrls[m]
  /\ Last(c.ctrls).height <= Len(d.stack)
  /\ \A m \in 1..Last(c.ctrls).height : d.stack[m] = c.stack[m]

\* Another stack.
LEMMA Restacked ==
  ASSUME NEW c \in CheckerType, NEW st
  PROVE  [c EXCEPT !.stack = st] = [stack |-> st, ctrls |-> c.ctrls]
BY DEF CheckerType

\* Operands popped.
LEMMA PoppedOk ==
  ASSUME NEW c, Live(c), NEW k \in Nat
  PROVE  LET d == Popped(c, k) IN
         /\ d \in CheckerType /\ d.ctrls = c.ctrls
         /\ Len(d.stack) \in Nat /\ Len(c.stack) \in Nat /\ Last(c.ctrls).height \in Nat
         /\ Last(c.ctrls).height <= Len(d.stack) /\ Len(d.stack) <= Len(c.stack)
         /\ Len(d.stack) = IF k <= Avail(c) THEN Len(c.stack) - k ELSE Last(c.ctrls).height
         /\ \A m \in 1..Len(d.stack) : d.stack[m] = c.stack[m]
<1> DEFINE n == Len(c.stack)
           h == Last(c.ctrls).height
           l == n - Min({k, Avail(c)})
           d == Popped(c, k)
<1>1. /\ c \in CheckerType /\ h \in Nat /\ n \in Nat /\ h <= n
      /\ c.stack \in Seq(BodyType \cup {Bot}) /\ c.ctrls \in Seq(CtrlType)
      /\ c = [stack |-> c.stack, ctrls |-> c.ctrls]
  <2>1. c \in CheckerType /\ c.ctrls # <<>> /\ h <= n
    BY DEF Live
  <2>2. Len(c.ctrls) \in Nat \ {0} /\ Last(c.ctrls) = c.ctrls[Len(c.ctrls)]
    BY <2>1, CheckerParts
  <2>3. Len(c.ctrls) \in 1..Len(c.ctrls)
    BY <2>2
  <2>4. h \in Nat
    BY <2>1, <2>2, <2>3, CheckerParts
  <2> QED
    BY <2>1, <2>4, CheckerParts
<1>2. Avail(c) = n - h
  BY DEF Avail
<1>3. Min({k, Avail(c)}) = IF k <= Avail(c) THEN k ELSE Avail(c)
  <2>1. Avail(c) \in Int
    BY <1>1, <1>2
  <2> QED
    BY <2>1, MinOfTwo
<1>4. d = [stack |-> SubSeq(c.stack, 1, l), ctrls |-> c.ctrls]
  <2>1. d = [c EXCEPT !.stack = SubSeq(c.stack, 1, l)]
    BY DEF Popped
  <2> HIDE DEF d, l
  <2> QED
    BY <1>1, <2>1, Restacked
<1>5. l \in 0..n /\ h <= l /\ l = IF k <= Avail(c) THEN n - k ELSE h
  <2> HIDE DEF n, h
  <2> QED
    BY <1>1, <1>2, <1>3
<1> HIDE DEF l, d
<1>6. /\ SubSeq(c.stack, 1, l) \in Seq(BodyType \cup {Bot}) /\ Len(SubSeq(c.stack, 1, l)) = l
      /\ \A m \in 1..l : SubSeq(c.stack, 1, l)[m] = c.stack[m]
  BY <1>1, <1>5, PrefixOk
<1>7. d \in CheckerType
  BY <1>1, <1>4, <1>6 DEF CheckerType
<1>8. d.stack = SubSeq(c.stack, 1, l) /\ d.ctrls = c.ctrls
  BY <1>4
<1> HIDE DEF h, n
<1>9. /\ d \in CheckerType /\ d.ctrls = c.ctrls
      /\ Len(d.stack) \in Nat /\ n \in Nat /\ h \in Nat
      /\ h <= Len(d.stack) /\ Len(d.stack) <= n
      /\ Len(d.stack) = IF k <= Avail(c) THEN n - k ELSE h
      /\ \A m \in 1..Len(d.stack) : d.stack[m] = c.stack[m]
  BY <1>1, <1>5, <1>6, <1>7, <1>8
<1> QED
  BY <1>9 DEF d, h, n

\* Operands pushed.
LEMMA PushedOk ==
  ASSUME NEW c \in CheckerType, NEW ts \in Seq(BodyType \cup {Bot})
  PROVE  LET d == Pushed(c, ts) IN
         /\ d \in CheckerType /\ d.ctrls = c.ctrls /\ d.stack = c.stack \o ts
         /\ Len(c.stack) \in Nat /\ Len(ts) \in Nat /\ Len(d.stack) = Len(c.stack) + Len(ts)
         /\ \A m \in 1..Len(c.stack) : d.stack[m] = c.stack[m]
<1>1. /\ c.stack \in Seq(BodyType \cup {Bot}) /\ c.ctrls \in Seq(CtrlType)
      /\ c = [stack |-> c.stack, ctrls |-> c.ctrls]
  BY CheckerParts
<1>2. Pushed(c, ts) = [stack |-> c.stack \o ts, ctrls |-> c.ctrls]
  <2>1. Pushed(c, ts) = [c EXCEPT !.stack = c.stack \o ts]
    BY DEF Pushed
  <2> QED
    BY <2>1, Restacked
<1>3. /\ c.stack \o ts \in Seq(BodyType \cup {Bot})
      /\ Len(c.stack \o ts) = Len(c.stack) + Len(ts)
      /\ Len(c.stack) \in Nat /\ Len(ts) \in Nat
      /\ \A m \in 1..Len(c.stack) : (c.stack \o ts)[m] = c.stack[m]
  BY <1>1, ConcatOk
<1>4. Pushed(c, ts) \in CheckerType
  BY <1>1, <1>2, <1>3 DEF CheckerType
<1>5. Pushed(c, ts).stack = c.stack \o ts /\ Pushed(c, ts).ctrls = c.ctrls
  BY <1>2
<1> QED
  BY <1>3, <1>4, <1>5

\* Pushing what the validator pushes, after popping, keeps labels.
LEMMA FlatReplaced ==
  ASSUME NEW c, Live(c), NEW k \in Nat, NEW ts \in Seq(BodyType \cup {Bot})
  PROVE  Flat(c, Pushed(Popped(c, k), ts))
<1> DEFINE d == Popped(c, k)
           e == Pushed(d, ts)
           h == Last(c.ctrls).height
<1>1. /\ d \in CheckerType /\ d.ctrls = c.ctrls
      /\ Len(d.stack) \in Nat /\ h \in Nat /\ h <= Len(d.stack)
      /\ \A m \in 1..Len(d.stack) : d.stack[m] = c.stack[m]
  BY PoppedOk
<1> HIDE DEF d
<1>2. /\ e \in CheckerType /\ e.ctrls = d.ctrls
      /\ Len(ts) \in Nat /\ Len(e.stack) = Len(d.stack) + Len(ts)
      /\ \A m \in 1..Len(d.stack) : e.stack[m] = d.stack[m]
  BY <1>1, PushedOk
<1> HIDE DEF e, h
<1>3. h <= Len(e.stack) /\ \A m \in 1..h : m \in 1..Len(d.stack)
  BY <1>1, <1>2
<1>4. \A m \in 1..h : e.stack[m] = c.stack[m]
  BY <1>1, <1>2, <1>3
<1> QED
  BY <1>1, <1>2, <1>3, <1>4 DEF Flat, d, e, h

\* Popping operands leaves the labels and what is below the top one.
LEMMA FlatPopped ==
  ASSUME NEW c, Live(c), NEW k \in Nat
  PROVE  Flat(c, Popped(c, k))
<1> DEFINE d == Popped(c, k)
           h == Last(c.ctrls).height
<1>1. /\ d \in CheckerType /\ d.ctrls = c.ctrls
      /\ Len(d.stack) \in Nat /\ h \in Nat /\ h <= Len(d.stack)
      /\ \A m \in 1..Len(d.stack) : d.stack[m] = c.stack[m]
  BY PoppedOk
<1> HIDE DEF d, h
<1>2. \A m \in 1..h : d.stack[m] = c.stack[m]
  BY <1>1
<1> QED
  BY <1>1, <1>2 DEF Flat, d, h

\* So does pushing results, and doing nothing.
LEMMA FlatPushed ==
  ASSUME NEW c, Live(c), NEW ts \in Seq(BodyType \cup {Bot})
  PROVE  Flat(c, Pushed(c, ts)) /\ Flat(c, c)
<1> DEFINE e == Pushed(c, ts)
           h == Last(c.ctrls).height
<1>1. c \in CheckerType /\ c.ctrls # <<>> /\ h <= Len(c.stack) /\ h \in Nat
  BY PoppedOk DEF Live
<1>2. /\ e \in CheckerType /\ e.ctrls = c.ctrls /\ Len(c.stack) \in Nat
      /\ Len(ts) \in Nat /\ Len(e.stack) = Len(c.stack) + Len(ts)
      /\ \A m \in 1..Len(c.stack) : e.stack[m] = c.stack[m]
  BY <1>1, PushedOk
<1> HIDE DEF e, h
<1>3. h <= Len(e.stack) /\ \A m \in 1..h : e.stack[m] = c.stack[m]
  BY <1>1, <1>2
<1> QED
  BY <1>1, <1>2, <1>3 DEF Flat, e, h

\* After an unconditional branch anything may be on the stack of the label.
LEMMA FlatUnreachable ==
  ASSUME NEW c, Live(c)
  PROVE  Flat(c, Unreachable(c))
<1> DEFINE h == Last(c.ctrls).height
           n == Len(c.ctrls)
           l == [c.ctrls[n] EXCEPT !.unreachable = TRUE]
           e == Unreachable(c)
<1>1. /\ c \in CheckerType /\ n \in Nat \ {0} /\ h <= Len(c.stack) /\ h \in Nat
      /\ c.stack \in Seq(BodyType \cup {Bot}) /\ c.ctrls \in Seq(CtrlType)
      /\ Last(c.ctrls) = c.ctrls[n] /\ Len(c.stack) \in Nat
  BY CheckerParts, PoppedOk DEF Live
<1>2. c.ctrls[n] \in CtrlType /\ n \in 1..n
  BY <1>1, ElementOfSeq
<1>3. /\ l \in CtrlType /\ l.kind = c.ctrls[n].kind /\ l.height = c.ctrls[n].height
      /\ l.ins = c.ctrls[n].ins /\ l.outs = c.ctrls[n].outs
  BY <1>2 DEF CtrlType
<1>4. e = [stack |-> SubSeq(c.stack, 1, h), ctrls |-> [c.ctrls EXCEPT ![n] = l]]
  BY DEF Unreachable
<1> HIDE DEF l
<1>5. /\ [c.ctrls EXCEPT ![n] = l] \in Seq(CtrlType) /\ Len([c.ctrls EXCEPT ![n] = l]) = n
      /\ [c.ctrls EXCEPT ![n] = l][n] = l
      /\ \A m \in 1..n : m # n => [c.ctrls EXCEPT ![n] = l][m] = c.ctrls[m]
  BY <1>1, <1>2, <1>3, ReplaceOk
<1>6. h \in 0..Len(c.stack)
  BY <1>1
<1>7. /\ SubSeq(c.stack, 1, h) \in Seq(BodyType \cup {Bot}) /\ Len(SubSeq(c.stack, 1, h)) = h
      /\ \A m \in 1..h : SubSeq(c.stack, 1, h)[m] = c.stack[m]
  <2> HIDE DEF h
  <2> QED
    BY <1>1, <1>6, PrefixOk
<1>8. /\ e \in CheckerType /\ e.ctrls = [c.ctrls EXCEPT ![n] = l]
      /\ e.stack = SubSeq(c.stack, 1, h)
  BY <1>4, <1>5, <1>7 DEF CheckerType
<1>9. ASSUME NEW m \in 1..n
      PROVE  /\ e.ctrls[m].kind = c.ctrls[m].kind /\ e.ctrls[m].height = c.ctrls[m].height
             /\ e.ctrls[m].ins = c.ctrls[m].ins /\ e.ctrls[m].outs = c.ctrls[m].outs
             /\ m < n => e.ctrls[m] = c.ctrls[m]
  <2> HIDE DEF n, e
  <2>1. CASE m = n
    BY <1>1, <1>3, <1>5, <1>8, <2>1
  <2>2. CASE m # n
    BY <1>1, <1>5, <1>8, <2>2
  <2> QED
    BY <2>1, <2>2
<1>10. h <= Len(e.stack) /\ \A m \in 1..h : e.stack[m] = c.stack[m]
  BY <1>1, <1>7, <1>8
<1> HIDE DEF e, h, n
<1> QED
  BY <1>5, <1>8, <1>9, <1>10 DEF Flat, e, h, n

\* Instructions other than those of blocks keep the labels.
LEMMA PlainChecks ==
  ASSUME NEW c, Live(c), NEW i \in Instructions, NEW f \in DOMAIN Funcs,
         i.op \notin Openers \cup {"else", "end"}, Accepts(f, c, i)
  PROVE  Flat(c, Checked(f, c, i))
<1> DEFINE Operand1 == BodyType \cup {Bot}
<1>1. \A ts : ts \in Seq(BodyType) => ts \in Seq(Operand1)
  BY SeqMonotonic
<1>2. \A g \in DOMAIN Funcs :
        /\ FuncTypeOf(g).ins \in Seq(BodyType) /\ FuncTypeOf(g).outs \in Seq(BodyType)
        /\ Funcs[g].locals \in Seq(BodyType)
  <2> TAKE g \in DOMAIN Funcs
  <2>1. Funcs \in Seq(FunDecl) /\ Types \in Seq(FunType) /\ Funcs[g].ty \in DOMAIN Types
    BY BodyAssumption
  <2>2. Funcs[g] \in FunDecl
    BY <2>1, LenProperties, ElementOfSeq
  <2>3. Types[Funcs[g].ty] \in FunType
    BY <2>1, LenProperties, ElementOfSeq
  <2> QED
    BY <2>2, <2>3 DEF FuncTypeOf, FunDecl, FunType
<1>3. LocalsOf(f) \in Seq(BodyType)
  BY <1>2, ConcatOk DEF LocalsOf
<1>4. \A t \in Operand1 : <<t>> \in Seq(Operand1)
  OBVIOUS
<1>5. \A n \in DOMAIN LocalsOf(f) : <<LocalsOf(f)[n]>> \in Seq(Operand1)
  <2> TAKE n \in DOMAIN LocalsOf(f)
  <2>1. LocalsOf(f)[n] \in BodyType
    BY <1>3, LenProperties, ElementOfSeq
  <2> QED
    BY <1>4, <2>1
<1>6. CASE i.op \in {"unreachable", "br", "br_table", "return"}
  BY <1>6, FlatUnreachable DEF Checked
<1>7. CASE i.op = "nop"
  <2>1. <<>> \in Seq(Operand1)
    BY EmptySeq
  <2> QED
    BY <1>7, <2>1, FlatPushed DEF Checked
<1>8. CASE i.op = "br_if"
  <2>1. i.depth \in Nat
    BY <1>8 DEF Instructions, InstrOf
  <2>2. HasLabel(c, i.depth)
    BY <1>8 DEF Accepts
  <2>3. Len(c.ctrls) \in Nat /\ c \in CheckerType
    BY CheckerParts DEF Live
  <2>4. Len(c.ctrls) - i.depth \in 1..Len(c.ctrls)
    BY <2>1, <2>2, <2>3 DEF HasLabel
  <2>5. LabelTypes(c, i.depth) \in Seq(BodyType)
    BY <2>3, <2>4, CheckerParts DEF LabelTypes, Label
  <2> DEFINE ts == LabelTypes(c, i.depth)
  <2>6. Checked(f, c, i) = Pushed(Popped(c, Len(ts) + 1), ts)
    BY <1>8 DEF Checked
  <2>7. Len(ts) + 1 \in Nat /\ ts \in Seq(Operand1)
    BY <1>1, <2>5, LenProperties
  <2> HIDE DEF ts
  <2> QED
    BY <2>6, <2>7, FlatReplaced
<1>9. CASE i.op = "call"
  <2>1. i.func \in DOMAIN Funcs
    BY <1>9 DEF Accepts
  <2>2. Checked(f, c, i) =
          Pushed(Popped(c, Len(FuncTypeOf(i.func).ins)), FuncTypeOf(i.func).outs)
    BY <1>9 DEF Checked
  <2>3. Len(FuncTypeOf(i.func).ins) \in Nat /\ FuncTypeOf(i.func).outs \in Seq(Operand1)
    BY <1>1, <1>2, <2>1, LenProperties
  <2> QED
    BY <2>2, <2>3, FlatReplaced
<1>10. CASE i.op \in {"drop", "local.set"}
  <2>1. Checked(f, c, i) = Popped(c, 1)
    BY <1>10 DEF Checked
  <2> QED
    BY <2>1, FlatPopped
<1>11. CASE i.op = "select"
  <2>1. Checked(f, c, i) = Pushed(Popped(c, 3), <<Selected(c)>>)
    BY <1>11 DEF Checked
  <2>2. Selected(c) \in Operand1
    <3>1. c \in CheckerType /\ c.stack \in Seq(Operand1) /\ Len(c.stack) \in Nat
          /\ Last(c.ctrls).height \in Nat
      BY CheckerParts, PoppedOk DEF Live
    <3>2. ASSUME NEW n \in 1..2
          PROVE  Operand(c, n) \in Operand1
      <4>1. CASE n < Avail(c)
        <5>1. Len(c.stack) - n \in 1..Len(c.stack)
          BY <3>1, <4>1 DEF Avail
        <5>2. c.stack[Len(c.stack) - n] \in Operand1
          BY <3>1, <5>1, ElementOfSeq
        <5> QED
          BY <4>1, <5>2 DEF Operand
      <4>2. CASE ~ n < Avail(c)
        BY <4>2 DEF Operand
      <4> QED
        BY <4>1, <4>2
    <3> QED
      BY <3>2 DEF Selected
  <2>3. <<Selected(c)>> \in Seq(Operand1)
    BY <1>4, <2>2
  <2> QED
    BY <2>1, <2>3, FlatReplaced
<1>12. CASE i.op = "const"
  <2>1. Checked(f, c, i) = Pushed(c, <<i.ty>>) /\ i.ty \in BodyType
    BY <1>12 DEF Checked, Instructions, InstrOf
  <2>2. <<i.ty>> \in Seq(Operand1)
    BY <1>4, <2>1
  <2> QED
    BY <2>1, <2>2, FlatPushed
<1>13. CASE i.op \in {"eqz", "extend"}
  <2>1. Checked(f, c, i) = Pushed(Popped(c, 1), <<IF i.op = "eqz" THEN "i32" ELSE "i64">>)
    BY <1>13 DEF Checked
  <2>2. <<IF i.op = "eqz" THEN "i32" ELSE "i64">> \in Seq(Operand1)
    BY <1>4 DEF BodyType
  <2> QED
    BY <2>1, <2>2, FlatReplaced
<1>14. CASE i.op \in {"local.get", "local.tee"}
  <2>1. i.idx \in DOMAIN LocalsOf(f)
    BY <1>14 DEF Accepts
  <2>2. <<LocalsOf(f)[i.idx]>> \in Seq(Operand1)
    BY <1>5, <2>1
  <2>3. Checked(f, c, i) = IF i.op = "local.get" THEN Pushed(c, <<LocalsOf(f)[i.idx]>>)
                           ELSE Pushed(Popped(c, 1), <<LocalsOf(f)[i.idx]>>)
    BY <1>14 DEF Checked
  <2> QED
    BY <2>2, <2>3, FlatPushed, FlatReplaced
<1>15. i.op \in {"unreachable", "br", "br_table", "return", "nop", "br_if", "call", "drop",
                 "local.set", "select", "const", "eqz", "extend", "local.get", "local.tee"}
  BY DEF Instructions, InstrOf, Openers
<1> QED
  BY <1>6, <1>7, <1>8, <1>9, <1>10, <1>11, <1>12, <1>13, <1>14, <1>15

-----------------------------------------------------------------------------
(* One instruction further.                                                *)

\* Label j + 1 of c is one of d, apart from its kind.
LabelKept(c, d, j) ==
  /\ \A m \in 1..j : d.ctrls[m] = c.ctrls[m]
  /\ d.ctrls[j + 1].ins = c.ctrls[j + 1].ins /\ d.ctrls[j + 1].outs = c.ctrls[j + 1].outs
  /\ d.ctrls[j + 1].height = c.ctrls[j + 1].height
  /\ \A m \in 1..c.ctrls[j + 1].height : d.stack[m] = c.stack[m]

\* A label that stays is still that of its block.
LEMMA BlockKept ==
  ASSUME NEW b, NEW c, NEW d, NEW n, NEW j \in Nat \ {0}, NEW p, NEW o,
         BlockOk(b, c, n, j, p, o), Kind(b[p], n + 1) = d.ctrls[j + 1].kind,
         LabelKept(c, d, j)
  PROVE  BlockOk(b, d, n + 1, j, p, o)
<1> DEFINE i == b[p]
<1>1. /\ i.bt \in DOMAIN Types /\ Len(o.ctrls) = j
      /\ \A m \in 1..j : c.ctrls[m] = o.ctrls[m]
      /\ c.ctrls[j + 1].ins = Types[i.bt].ins /\ c.ctrls[j + 1].outs = Types[i.bt].outs
      /\ c.ctrls[j + 1].height = Len(Under(o, i))
      /\ \A m \in 1..Len(Under(o, i)) : c.stack[m] = Under(o, i)[m]
  BY DEF BlockOk
<1> HIDE DEF i
<1>2. /\ \A m \in 1..j : d.ctrls[m] = o.ctrls[m]
      /\ \A m \in 1..Len(Under(o, i)) : d.stack[m] = Under(o, i)[m]
  BY <1>1 DEF LabelKept
<1> QED
  BY <1>1, <1>2 DEF BlockOk, LabelKept, i

\* A complete body.
LEMMA CompleteBody ==
  ASSUME NEW b, BodyOk(b, <<>>, TRUE)
  PROVE  /\ Len(b) \in Nat /\ b # <<>> /\ b[Len(b)].op = "end" /\ OpenAt(b)[Len(b)] = <<>>
         /\ \A p \in 1..Len(b) :
              /\ b[p] \in Instructions
              /\ b[p].op \in Openers => Closed(b, p)
              /\ b[p].op = "if" => b[p].else_ = b[p].end \/ HasElse(b, p)
              /\ b[p].op = "else" =>
                   /\ OpenAt(b)[p] # <<>> /\ b[Last(OpenAt(b)[p])].op = "if"
                   /\ b[Last(OpenAt(b)[p])].else_ = p + 1
              /\ b[p].op = "end" => (OpenAt(b)[p] = <<>>) = (p = Len(b))
<1>1. Len(b) \in Nat /\ \A p \in 1..Len(b) : b[p] \in Instructions /\ PlaceOk(b, <<>>, TRUE, p)
  BY OpenNow DEF BodyOk
<1>2. b # <<>> /\ b[Len(b)].op = "end" /\ OpenAt(b)[Len(b)] = <<>>
  BY DEF BodyOk
<1>3. ASSUME NEW p \in 1..Len(b)
      PROVE  /\ b[p].op \in Openers => Closed(b, p)
             /\ b[p].op = "if" => b[p].else_ = b[p].end \/ HasElse(b, p)
             /\ b[p].op = "else" =>
                  /\ OpenAt(b)[p] # <<>> /\ b[Last(OpenAt(b)[p])].op = "if"
                  /\ b[Last(OpenAt(b)[p])].else_ = p + 1
             /\ b[p].op = "end" => (OpenAt(b)[p] = <<>>) = (p = Len(b))
  <2>1. PlaceOk(b, <<>>, TRUE, p)
    BY <1>1
  <2>2. DOMAIN <<>> = {}
    OBVIOUS
  <2>3. b[p].op \in Openers => Closed(b, p)
    BY <2>1, <2>2 DEF PlaceOk
  <2> QED
    BY <2>1, <2>3 DEF PlaceOk
<1> QED
  BY <1>1, <1>2, <1>3

\* The blocks open at a place of a body.
LEMMA OpenBlocks ==
  ASSUME NEW b, Len(b) \in Nat, NEW n \in 1 .. Len(b) + 1
  PROVE  /\ OpenAt(b)[n] \in Seq(1 .. n - 1) /\ Len(OpenAt(b)[n]) \in Nat
         /\ \A j \in 1..Len(OpenAt(b)[n]) :
              /\ OpenAt(b)[n][j] \in 1 .. n - 1 /\ OpenAt(b)[n][j] \in 1..Len(b)
              /\ b[OpenAt(b)[n][j]].op \in Openers
              /\ Len(OpenAt(b)[OpenAt(b)[n][j]]) = j - 1
<1> DEFINE s == OpenAt(b)[n]
<1>1. NestedAt(OpenAt(b), b, n)
  BY Nested
<1>2. /\ s \in Seq(1 .. n - 1)
      /\ \A j \in 1..Len(s) : b[s[j]].op \in Openers /\ Len(OpenAt(b)[s[j]]) = j - 1
  BY <1>1 DEF NestedAt
<1> HIDE DEF s
<1>3. Len(s) \in Nat /\ \A j \in 1..Len(s) : s[j] \in 1 .. n - 1
  BY <1>2, LenProperties, ElementOfSeq
<1>4. \A m \in 1 .. n - 1 : m \in 1..Len(b)
  OBVIOUS
<1> QED
  BY <1>2, <1>3, <1>4 DEF s

\* Only an else changes what its if is.
LEMMA KindKept ==
  ASSUME NEW b, BodyOk(b, <<>>, TRUE), NEW n \in 1..Len(b), NEW p \in 1..Len(b),
         ~ (b[n].op = "else" /\ Last(OpenAt(b)[n]) = p)
  PROVE  Kind(b[p], n + 1) = Kind(b[p], n)
<1>1. CASE b[p].op = "if" /\ b[p].else_ # b[p].end
  <2> DEFINE e == b[p].else_
  <2>1. HasElse(b, p) /\ Len(b) \in Nat
    BY <1>1, CompleteBody
  <2>2. e \in Nat \ {0} /\ Directly(b, p, e - 1) /\ b[e - 1].op = "else"
    BY <2>1 DEF HasElse
  <2>3. Last(OpenAt(b)[e - 1]) = p
    <3>1. \A q : Directly(b, p, q) => Last(OpenAt(b)[q]) = p
      BY <2>1, DirectlyLast
    <3> HIDE DEF e
    <3> QED
      BY <2>2, <3>1
  <2>4. e - 1 # n
    BY <2>2, <2>3
  <2>5. e <= n + 1 <=> e <= n
    <3> HIDE DEF e
    <3> QED
      BY <2>2, <2>4
  <2> QED
    BY <2>5 DEF Kind
<1>2. CASE ~ (b[p].op = "if" /\ b[p].else_ # b[p].end)
  BY <1>2 DEF Kind
<1> QED
  BY <1>1, <1>2

\* The checker before an instruction.
LEMMA StateIsLive ==
  ASSUME NEW f, NEW b, NEW cs, NEW n, StateOk(f, b, cs, n), Len(OpenAt(b)[n]) \in Nat
  PROVE  /\ Live(cs[n]) /\ cs[n] \in CheckerType /\ HeightsOk(cs[n])
         /\ Len(cs[n].ctrls) = Len(OpenAt(b)[n]) + 1
         /\ Last(cs[n].ctrls) = cs[n].ctrls[Len(OpenAt(b)[n]) + 1]
<1> DEFINE c == cs[n]
           l == Len(OpenAt(b)[n])
<1>1. c \in CheckerType /\ Len(c.ctrls) = l + 1 /\ HeightsOk(c)
  BY DEF StateOk
<1> HIDE DEF c, l
<1>2. l \in Nat
  BY DEF l
<1>3. c.ctrls # <<>>
  <2>1. Len(<<>>) = 0
    BY EmptySeq
  <2> QED
    BY <1>1, <1>2, <2>1
<1>4. Last(c.ctrls) = c.ctrls[l + 1]
  BY <1>1 DEF Last
<1>5. c.ctrls[l + 1].height <= Len(c.stack)
  BY <1>1, <1>2 DEF HeightsOk
<1> QED
  BY <1>1, <1>3, <1>4, <1>5 DEF Live, c, l

\* How to tell that the next checker is as it should be.
LEMMA StateFrom ==
  ASSUME NEW f, NEW b, Len(b) \in Nat, NEW n \in 1..Len(b), NEW cs, StateOk(f, b, cs, n),
         NEW cs2, \A q \in 1..n : cs2[q] = cs[q],
         cs2[n + 1] \in CheckerType, Len(cs2[n + 1].ctrls) = Len(OpenAt(b)[n + 1]) + 1,
         HeightsOk(cs2[n + 1]),
         cs2[n + 1].ctrls[1].kind = cs[n].ctrls[1].kind,
         cs2[n + 1].ctrls[1].ins = cs[n].ctrls[1].ins,
         cs2[n + 1].ctrls[1].outs = cs[n].ctrls[1].outs,
         cs2[n + 1].ctrls[1].height = cs[n].ctrls[1].height,
         \A j \in 1..Len(OpenAt(b)[n + 1]) :
           BlockOk(b, cs2[n + 1], n + 1, j, OpenAt(b)[n + 1][j], cs[OpenAt(b)[n + 1][j]])
  PROVE  StateOk(f, b, cs2, n + 1)
<1> DEFINE t == OpenAt(b)[n + 1]
           d == cs2[n + 1]
<1>1. \A j \in 1..Len(t) : t[j] \in 1..n
  <2>1. n + 1 \in 1 .. Len(b) + 1 /\ (n + 1) - 1 = n
    OBVIOUS
  <2> QED
    BY <2>1, OpenBlocks
<1>2. \A j \in 1..Len(t) : BlockOk(b, d, n + 1, j, t[j], cs2[t[j]])
  <2> HIDE DEF t, d
  <2>1. \A j \in 1..Len(t) : BlockOk(b, d, n + 1, j, t[j], cs[t[j]])
    BY DEF t, d
  <2> QED
    BY <1>1, <2>1
<1>3. cs[n].ctrls[1].kind = "block" /\ cs[n].ctrls[1].ins = <<>> /\ cs[n].ctrls[1].height = 0
      /\ cs[n].ctrls[1].outs = FuncTypeOf(f).outs
  BY DEF StateOk
<1> QED
  BY <1>2, <1>3 DEF StateOk

\* Checkers whose labels are nested.
LEMMA HeightsFrom ==
  ASSUME NEW c \in CheckerType, c.ctrls # <<>>, Last(c.ctrls).height <= Len(c.stack),
         \A j \in 1..Len(c.ctrls) : \A m \in 1..j : c.ctrls[m].height <= c.ctrls[j].height
  PROVE  HeightsOk(c)
<1>1. Len(c.ctrls) \in Nat \ {0} /\ Last(c.ctrls) = c.ctrls[Len(c.ctrls)] /\ Len(c.stack) \in Nat
  BY CheckerParts
<1>2. \A j \in 1..Len(c.ctrls) : c.ctrls[j].height \in Nat
  BY CheckerParts
<1>3. \A j \in 1..Len(c.ctrls) : c.ctrls[j].height <= Len(c.stack)
  BY <1>1, <1>2
<1> QED
  BY <1>3 DEF HeightsOk

\* An instruction that keeps the labels.
LEMMA FlatStep ==
  ASSUME NEW f, NEW b, BodyOk(b, <<>>, TRUE), NEW n \in 1..Len(b), NEW cs, StateOk(f, b, cs, n),
         NEW cs2, \A q \in 1..n : cs2[q] = cs[q], Flat(cs[n], cs2[n + 1]),
         b[n].op \notin Openers \cup {"else", "end"}
  PROVE  StateOk(f, b, cs2, n + 1)
<1> DEFINE c == cs[n]
           d == cs2[n + 1]
           s == OpenAt(b)[n]
           l == Len(s)
<1>1. Len(b) \in Nat /\ n \in 1 .. Len(b) + 1
  BY CompleteBody
<1>2. /\ s \in Seq(1 .. n - 1) /\ l \in Nat
      /\ \A j \in 1..l : s[j] \in 1..Len(b)
  BY <1>1, OpenBlocks
<1>3. OpenAt(b)[n + 1] = s
  BY <1>1, OpenAtNext DEF OpenNext
<1>4. /\ c \in CheckerType /\ Len(c.ctrls) = l + 1 /\ HeightsOk(c)
      /\ \A j \in 1..l : BlockOk(b, c, n, j, s[j], cs[s[j]])
      /\ Live(c) /\ Last(c.ctrls) = c.ctrls[l + 1]
  <2>1. /\ c \in CheckerType /\ Len(c.ctrls) = l + 1 /\ HeightsOk(c)
        /\ Live(c) /\ Last(c.ctrls) = c.ctrls[l + 1]
    BY <1>2, StateIsLive
  <2>2. \A j \in 1..l : BlockOk(b, c, n, j, s[j], cs[s[j]])
    BY DEF StateOk
  <2> QED
    BY <2>1, <2>2
<1>5. /\ d \in CheckerType /\ Len(d.ctrls) = l + 1
      /\ \A m \in 1 .. l + 1 :
           /\ d.ctrls[m].kind = c.ctrls[m].kind /\ d.ctrls[m].height = c.ctrls[m].height
           /\ d.ctrls[m].ins = c.ctrls[m].ins /\ d.ctrls[m].outs = c.ctrls[m].outs
           /\ m < l + 1 => d.ctrls[m] = c.ctrls[m]
      /\ c.ctrls[l + 1].height <= Len(d.stack)
      /\ \A m \in 1..c.ctrls[l + 1].height : d.stack[m] = c.stack[m]
  BY <1>4 DEF Flat
<1>6. \A j \in 1 .. l + 1 : /\ c.ctrls[j].height \in Nat
                            /\ \A m \in 1..j : c.ctrls[m].height <= c.ctrls[j].height
  BY <1>4, CheckerParts DEF HeightsOk
<1> HIDE DEF c, d, s, l
<1>7. HeightsOk(d)
  <2>1. l + 1 \in 1 .. l + 1 /\ \A j \in 1 .. l + 1 : \A m \in 1..j : m \in 1 .. l + 1
    BY <1>2
  <2>2. d.ctrls # <<>>
    <3>1. Len(<<>>) = 0
      BY EmptySeq
    <3> QED
      BY <1>2, <1>5, <3>1
  <2>3. Last(d.ctrls) = d.ctrls[l + 1]
    BY <1>5 DEF Last
  <2>4. Last(d.ctrls).height <= Len(d.stack)
    BY <1>5, <2>1, <2>3
  <2>5. \A j \in 1..Len(d.ctrls) : \A m \in 1..j : d.ctrls[m].height <= d.ctrls[j].height
    BY <1>5, <1>6, <2>1
  <2> QED
    BY <1>5, <2>2, <2>4, <2>5, HeightsFrom
<1>8. ASSUME NEW j \in 1..l
      PROVE  BlockOk(b, d, n + 1, j, s[j], cs[s[j]])
  <2>1. /\ j \in Nat \ {0} /\ j + 1 \in 1 .. l + 1 /\ l + 1 \in 1 .. l + 1
        /\ \A m \in 1..j : m \in 1 .. l + 1 /\ m < l + 1
    BY <1>2
  <2>2. Kind(b[s[j]], n + 1) = d.ctrls[j + 1].kind
    <3>1. Kind(b[s[j]], n + 1) = Kind(b[s[j]], n)
      BY <1>2, KindKept
    <3>2. c.ctrls[j + 1].kind = Kind(b[s[j]], n)
      BY <1>4 DEF BlockOk
    <3> QED
      BY <1>5, <2>1, <3>1, <3>2
  <2>3. \A m \in 1..c.ctrls[j + 1].height : d.stack[m] = c.stack[m]
    <3>1. c.ctrls[j + 1].height <= c.ctrls[l + 1].height
          /\ c.ctrls[j + 1].height \in Nat /\ c.ctrls[l + 1].height \in Nat
      BY <1>6, <2>1
    <3>2. \A m \in 1..c.ctrls[j + 1].height : m \in 1..c.ctrls[l + 1].height
      BY <3>1
    <3> QED
      BY <1>5, <3>2
  <2>4. \A m \in 1..j : d.ctrls[m] = c.ctrls[m]
    BY <1>5, <2>1
  <2>5. BlockOk(b, c, n, j, s[j], cs[s[j]])
    BY <1>4
  <2>6. /\ d.ctrls[j + 1].ins = c.ctrls[j + 1].ins
        /\ d.ctrls[j + 1].outs = c.ctrls[j + 1].outs
        /\ d.ctrls[j + 1].height = c.ctrls[j + 1].height
    BY <1>5, <2>1
  <2>7. LabelKept(c, d, j)
    BY <2>3, <2>4, <2>6 DEF LabelKept
  <2> QED
    BY <2>1, <2>2, <2>5, <2>7, BlockKept
<1>9. 1 \in 1 .. l + 1
  BY <1>2
<1> QED
  BY <1>1, <1>3, <1>5, <1>7, <1>8, <1>9, StateFrom DEF c, d, s, l

\* The type of a block.
LEMMA BlockTypes ==
  ASSUME NEW t \in DOMAIN Types
  PROVE  Types[t].ins \in Seq(BodyType) /\ Types[t].outs \in Seq(BodyType)
         /\ Len(Types[t].ins) \in Nat /\ Len(Types[t].outs) \in Nat
<1>1. Types \in Seq(FunType)
  BY BodyAssumption
<1>2. Types[t] \in FunType
  BY <1>1, LenProperties, ElementOfSeq
<1>3. Types[t].ins \in Seq(BodyType) /\ Types[t].outs \in Seq(BodyType)
  BY <1>2 DEF FunType
<1> QED
  BY <1>3, LenProperties

\* The labels of a place, before an instruction.
LabelsOk(b, n, cs, c, s, l) ==
  /\ s \in Seq(1 .. n - 1) /\ l \in Nat
  /\ \A j \in 1..l : s[j] \in 1..Len(b) /\ s[j] \in 1 .. n - 1
  /\ c \in CheckerType /\ Len(c.ctrls) = l + 1 /\ HeightsOk(c)
  /\ Live(c) /\ Last(c.ctrls) = c.ctrls[l + 1]
  /\ \A j \in 1..l : BlockOk(b, c, n, j, s[j], cs[s[j]])
  /\ Len(c.stack) \in Nat /\ c.ctrls[l + 1].height <= Len(c.stack)
  /\ \A j \in 1 .. l + 1 :
       /\ c.ctrls[j] \in CtrlType /\ c.ctrls[j].height \in Nat
       /\ c.ctrls[j].height <= c.ctrls[l + 1].height
       /\ \A m \in 1..j : c.ctrls[m].height <= c.ctrls[j].height

\* They are what the invariant says of an open place.
LEMMA LabelsAt ==
  ASSUME NEW f, NEW b, Len(b) \in Nat, NEW n \in 1..Len(b), NEW cs, StateOk(f, b, cs, n)
  PROVE  LabelsOk(b, n, cs, cs[n], OpenAt(b)[n], Len(OpenAt(b)[n]))
<1> DEFINE c == cs[n]
           s == OpenAt(b)[n]
           l == Len(s)
<1>1. n \in 1 .. Len(b) + 1
  OBVIOUS
<1>2. /\ s \in Seq(1 .. n - 1) /\ l \in Nat
      /\ \A j \in 1..l : s[j] \in 1..Len(b) /\ s[j] \in 1 .. n - 1
  BY <1>1, OpenBlocks
<1>3. /\ c \in CheckerType /\ Len(c.ctrls) = l + 1 /\ HeightsOk(c)
      /\ Live(c) /\ Last(c.ctrls) = c.ctrls[l + 1]
  BY <1>2, StateIsLive
<1>4. \A j \in 1..l : BlockOk(b, c, n, j, s[j], cs[s[j]])
  BY DEF StateOk
<1>5. Len(c.stack) \in Nat
  BY <1>3, CheckerParts
<1>6. \A j \in 1 .. l + 1 : c.ctrls[j] \in CtrlType /\ c.ctrls[j].height \in Nat
  BY <1>3, CheckerParts
<1> HIDE DEF c, s, l
<1>7. l + 1 \in 1 .. l + 1 /\ \A j \in 1 .. l + 1 : j \in 1..l + 1
  BY <1>2
<1>8. /\ c.ctrls[l + 1].height <= Len(c.stack)
      /\ \A j \in 1 .. l + 1 :
           /\ c.ctrls[j].height <= c.ctrls[l + 1].height
           /\ \A m \in 1..j : c.ctrls[m].height <= c.ctrls[j].height
  BY <1>3, <1>7 DEF HeightsOk
<1>9. LabelsOk(b, n, cs, c, s, l)
  BY <1>2, <1>3, <1>4, <1>5, <1>6, <1>8 DEF LabelsOk
<1> QED
  BY <1>9 DEF c, s, l

\* One more label.
LEMMA HeightsPushed ==
  ASSUME NEW c \in CheckerType, NEW d \in CheckerType, NEW l \in Nat,
         Len(d.ctrls) = l + 1, \A m \in 1..l : d.ctrls[m] = c.ctrls[m],
         \A j \in 1..l : \A m \in 1..j : c.ctrls[m].height <= c.ctrls[j].height,
         \A m \in 1..l : c.ctrls[m].height <= d.ctrls[l + 1].height,
         d.ctrls[l + 1].height <= Len(d.stack)
  PROVE  HeightsOk(d)
<1>1. d.ctrls # <<>> /\ Last(d.ctrls) = d.ctrls[l + 1]
  <2>1. Len(<<>>) = 0
    BY EmptySeq
  <2>2. d.ctrls # <<>>
    BY <2>1
  <2> QED
    BY <2>2 DEF Last
<1>2. \A j \in 1..Len(d.ctrls) : d.ctrls[j].height \in Nat
  BY CheckerParts
<1>3. ASSUME NEW j \in 1..Len(d.ctrls), NEW m \in 1..j
      PROVE  d.ctrls[m].height <= d.ctrls[j].height
  <2>1. CASE j \in 1..l
    BY <2>1
  <2>2. CASE j = l + 1 /\ m \in 1..l
    BY <2>2
  <2>3. CASE j = l + 1 /\ m = l + 1
    <3>1. d.ctrls[l + 1].height \in Nat
      BY <1>2
    <3> QED
      BY <2>3, <3>1
  <2> QED
    BY <2>1, <2>2, <2>3
<1> QED
  BY <1>1, <1>3, HeightsFrom

\* An opener.
LEMMA OpenStep ==
  ASSUME NEW f, NEW b, BodyOk(b, <<>>, TRUE), NEW n \in 1..Len(b), NEW cs, StateOk(f, b, cs, n),
         NEW cs2, \A q \in 1..n : cs2[q] = cs[q],
         Accepts(f, cs[n], b[n]), cs2[n + 1] = Checked(f, cs[n], b[n]), b[n].op \in Openers
  PROVE  StateOk(f, b, cs2, n + 1)
<1> DEFINE c == cs[n]
           d == cs2[n + 1]
           s == OpenAt(b)[n]
           l == Len(s)
           i == b[n]
           t == Types[i.bt]
           u == Popped(c, Taken(i))
           new == [kind |-> i.op, ins |-> t.ins, outs |-> t.outs, height |-> Len(u.stack),
                   unreachable |-> FALSE]
           z == OpenAt(b)[n + 1]
<1>1. Len(b) \in Nat /\ i \in Instructions /\ Closed(b, n)
      /\ (i.op = "if" => i.else_ = i.end \/ HasElse(b, n))
  BY CompleteBody
<1>2. /\ s \in Seq(1 .. n - 1) /\ l \in Nat
      /\ \A j \in 1..l : s[j] \in 1..Len(b) /\ s[j] \in 1 .. n - 1
      /\ c \in CheckerType /\ Len(c.ctrls) = l + 1
      /\ Live(c) /\ Last(c.ctrls) = c.ctrls[l + 1]
      /\ \A j \in 1..l : BlockOk(b, c, n, j, s[j], cs[s[j]])
      /\ \A j \in 1 .. l + 1 :
           /\ c.ctrls[j] \in CtrlType /\ c.ctrls[j].height \in Nat
           /\ c.ctrls[j].height <= c.ctrls[l + 1].height
           /\ \A m \in 1..j : c.ctrls[m].height <= c.ctrls[j].height
  <2>1. LabelsOk(b, n, cs, c, s, l)
    BY <1>1, LabelsAt
  <2> HIDE DEF c, s, l
  <2> QED
    BY <2>1 DEF LabelsOk
<1>3. i.bt \in DOMAIN Types
  BY DEF Accepts, Openers
<1>4. t.ins \in Seq(BodyType) /\ t.outs \in Seq(BodyType) /\ Len(t.ins) \in Nat
  BY <1>3, BlockTypes
<1>5. Taken(i) \in Nat
  <2>1. CASE i.op = "if"
    <3>1. Taken(i) = Len(t.ins) + 1
      BY <2>1 DEF Taken
    <3> QED
      BY <1>4, <3>1
  <2>2. CASE i.op # "if"
    <3>1. Taken(i) = Len(t.ins) + 0
      BY <2>2 DEF Taken
    <3> QED
      BY <1>4, <3>1
  <2> QED
    BY <2>1, <2>2
<1>6. d = PushCtrl(u, i.op, t)
  <2>1. CASE i.op \in {"block", "loop"}
    <3>1. d = PushCtrl(Popped(c, Len(t.ins)), i.op, t)
      BY <2>1 DEF Checked
    <3>2. Taken(i) = Len(t.ins)
      <4>1. Taken(i) = Len(t.ins) + 0
        BY <2>1 DEF Taken
      <4> QED
        BY <1>4, <4>1
    <3> QED
      BY <3>1, <3>2
  <2>2. CASE i.op = "if"
    BY <2>2 DEF Checked, Taken
  <2> QED
    BY <2>1, <2>2 DEF Openers
<1>7. /\ u \in CheckerType /\ u.ctrls = c.ctrls /\ Len(u.stack) \in Nat
      /\ u.stack \in Seq(BodyType \cup {Bot})
      /\ c.ctrls[l + 1].height <= Len(u.stack) /\ Len(u.stack) <= Len(c.stack)
      /\ \A m \in 1..Len(u.stack) : u.stack[m] = c.stack[m]
  <2> HIDE DEF c, i, l
  <2> QED
    BY <1>2, <1>5, PoppedOk, CheckerParts
<1>8. u.stack = Under(c, i)
  BY DEF Under
<1> HIDE DEF u
<1>9. d = [stack |-> u.stack \o t.ins, ctrls |-> Append(c.ctrls, new)]
  BY <1>6, <1>7 DEF PushCtrl
<1> HIDE DEF d, t
<1>10. new \in CtrlType
  <2>1. i.op \in {"block", "loop", "if", "else"}
    BY DEF Openers
  <2> QED
    BY <1>4, <1>7, <2>1 DEF CtrlType
<1>11. /\ new.kind = i.op /\ new.ins = t.ins /\ new.outs = t.outs
       /\ new.height = Len(u.stack)
  OBVIOUS
<1> HIDE DEF new
<1>12. /\ c.ctrls \in Seq(CtrlType)
       /\ Append(c.ctrls, new) \in Seq(CtrlType) /\ Len(Append(c.ctrls, new)) = l + 2
       /\ \A m \in 1 .. l + 1 : Append(c.ctrls, new)[m] = c.ctrls[m]
       /\ Append(c.ctrls, new)[l + 2] = new
  <2>1. c.ctrls \in Seq(CtrlType)
    BY <1>2, CheckerParts
  <2>2. (l + 1) + 1 = l + 2
    BY <1>2
  <2> HIDE DEF c, l
  <2> QED
    BY <1>2, <1>10, <2>1, <2>2, AppendOk
<1>13. /\ u.stack \o t.ins \in Seq(BodyType \cup {Bot})
       /\ Len(u.stack \o t.ins) = Len(u.stack) + Len(t.ins)
       /\ \A m \in 1..Len(u.stack) : (u.stack \o t.ins)[m] = u.stack[m]
  <2> DEFINE x == u.stack
             y == t.ins
  <2>1. y \in Seq(BodyType \cup {Bot})
    BY <1>4, SeqMonotonic
  <2>2. x \in Seq(BodyType \cup {Bot})
    BY <1>7
  <2> HIDE DEF x, y
  <2>3. /\ x \o y \in Seq(BodyType \cup {Bot}) /\ Len(x \o y) = Len(x) + Len(y)
        /\ \A m \in 1..Len(x) : (x \o y)[m] = x[m]
    BY <2>1, <2>2, ConcatOk
  <2> QED
    BY <2>3 DEF x, y
<1>14. d \in CheckerType /\ d.stack = u.stack \o t.ins /\ d.ctrls = Append(c.ctrls, new)
  BY <1>9, <1>12, <1>13 DEF CheckerType
<1> HIDE DEF c, s, l
<1>15. /\ Len(d.ctrls) = l + 2 /\ \A m \in 1 .. l + 1 : d.ctrls[m] = c.ctrls[m]
       /\ d.ctrls[l + 2] = new
       /\ \A m \in 1..Len(u.stack) : d.stack[m] = u.stack[m]
       /\ Len(u.stack) <= Len(d.stack)
  <2>1. Len(d.ctrls) = l + 2 /\ d.ctrls[l + 2] = new
    BY <1>12, <1>14
  <2>2. \A m \in 1 .. l + 1 : d.ctrls[m] = c.ctrls[m]
    BY <1>12, <1>14
  <2>3. \A m \in 1..Len(u.stack) : d.stack[m] = u.stack[m]
    BY <1>13, <1>14
  <2>4. Len(u.stack) <= Len(d.stack)
    <3>1. Len(d.stack) = Len(u.stack) + Len(t.ins)
      BY <1>13, <1>14
    <3>2. Len(u.stack) \in Nat /\ Len(t.ins) \in Nat
      BY <1>4, <1>7
    <3> DEFINE x == Len(u.stack)
               y == Len(t.ins)
               w == Len(d.stack)
    <3>3. x \in Nat /\ y \in Nat /\ w = x + y
      BY <3>1, <3>2
    <3> HIDE DEF x, y, w
    <3>4. x <= w
      BY <3>3
    <3> QED
      BY <3>4 DEF x, w
  <2> QED
    BY <2>1, <2>2, <2>3, <2>4
<1>16. HeightsOk(d)
  <2>1. l + 1 \in Nat /\ (l + 1) + 1 = l + 2
    BY <1>2
  <2>2. \A m \in 1 .. l + 1 : c.ctrls[m].height <= d.ctrls[(l + 1) + 1].height
    <3>1. l + 1 \in 1 .. l + 1
      BY <1>2
    <3>2. c.ctrls[l + 1].height \in Nat
      BY <1>2, <3>1
    <3>3. d.ctrls[(l + 1) + 1].height = Len(u.stack)
      BY <1>11, <1>15, <2>1
    <3>4. \A m \in 1 .. l + 1 : c.ctrls[m].height \in Nat /\ c.ctrls[m].height <= c.ctrls[l + 1].height
      BY <1>2
    <3> QED
      BY <1>7, <3>2, <3>3, <3>4
  <2>3. d.ctrls[(l + 1) + 1].height <= Len(d.stack) /\ Len(d.ctrls) = (l + 1) + 1
    BY <1>11, <1>15, <2>1
  <2>4. \A j \in 1 .. l + 1 : \A m \in 1..j : c.ctrls[m].height <= c.ctrls[j].height
    BY <1>2
  <2> QED
    BY <1>2, <1>14, <1>15, <2>1, <2>2, <2>3, <2>4, HeightsPushed
<1>17. /\ z \in Seq(1..n) /\ Len(z) = l + 1 /\ z[l + 1] = n
       /\ \A j \in 1..l : z[j] = s[j]
  <2>1. z = Append(s, n)
    BY <1>1, OpenAtNext DEF OpenNext, s
  <2>2. s \in Seq(1..n) /\ n \in 1..n
    <3>1. 1 .. n - 1 \subseteq 1..n
      OBVIOUS
    <3> QED
      BY <1>2, <3>1, SeqMonotonic
  <2> QED
    BY <1>2, <2>1, <2>2, AppendOk DEF l
<1> HIDE DEF z
<1>18. ASSUME NEW j \in 1..l
       PROVE  BlockOk(b, d, n + 1, j, z[j], cs[z[j]])
  <2>1. /\ j \in Nat \ {0} /\ j + 1 \in 1 .. l + 1 /\ l + 1 \in 1 .. l + 1
        /\ \A m \in 1..j : m \in 1 .. l + 1
    BY <1>2
  <2>2. Kind(b[s[j]], n + 1) = d.ctrls[j + 1].kind
    <3>1. Kind(b[s[j]], n + 1) = Kind(b[s[j]], n)
      BY <1>2, KindKept DEF Openers
    <3>2. c.ctrls[j + 1].kind = Kind(b[s[j]], n)
      BY <1>2 DEF BlockOk
    <3> QED
      BY <1>15, <2>1, <3>1, <3>2
  <2>3. \A m \in 1..c.ctrls[j + 1].height : d.stack[m] = c.stack[m]
    <3>1. c.ctrls[j + 1].height <= Len(u.stack) /\ c.ctrls[j + 1].height \in Nat
      <4>1. /\ c.ctrls[j + 1].height \in Nat /\ c.ctrls[l + 1].height \in Nat
            /\ c.ctrls[j + 1].height <= c.ctrls[l + 1].height
        BY <1>2, <2>1
      <4> QED
        BY <1>7, <4>1
    <3>2. \A m \in 1..c.ctrls[j + 1].height : m \in 1..Len(u.stack)
      BY <1>7, <3>1
    <3> QED
      BY <1>7, <1>15, <3>2
  <2>4. LabelKept(c, d, j)
    BY <1>15, <2>1, <2>3 DEF LabelKept
  <2>5. BlockOk(b, c, n, j, s[j], cs[s[j]])
    BY <1>2
  <2>6. BlockOk(b, d, n + 1, j, s[j], cs[s[j]])
    BY <2>1, <2>2, <2>4, <2>5, BlockKept
  <2> QED
    BY <1>17, <2>6
<1>19. BlockOk(b, d, n + 1, l + 1, n, c)
  <2>1. (l + 1) + 1 = l + 2
    BY <1>2
  <2>2. Kind(i, n + 1) = i.op
    <3>1. CASE i.op = "if" /\ i.else_ # i.end
      <4>1. i.else_ \in Nat \ {0} /\ i.else_ - 1 \in n + 1 .. Len(b)
        BY <1>1, <3>1 DEF HasElse, Directly
      <4>2. ~ i.else_ <= n + 1
        <5> HIDE DEF i
        <5> QED
          BY <1>1, <4>1
      <4> QED
        BY <4>2 DEF Kind
    <3>2. CASE ~ (i.op = "if" /\ i.else_ # i.end)
      BY <3>2 DEF Kind
    <3> QED
      BY <3>1, <3>2
  <2>3. \A m \in 1..Len(Under(c, i)) : d.stack[m] = Under(c, i)[m]
    BY <1>8, <1>15
  <2>4. d.ctrls[(l + 1) + 1] = new
    BY <1>15, <2>1
  <2>5. Len(c.ctrls) = l + 1 /\ \A m \in 1 .. l + 1 : d.ctrls[m] = c.ctrls[m]
    BY <1>2, <1>15
  <2> HIDE DEF new, u, d
  <2> QED
    BY <1>3, <1>8, <1>11, <2>2, <2>3, <2>4, <2>5 DEF BlockOk, t
<1>20. \A j \in 1..Len(z) : BlockOk(b, d, n + 1, j, z[j], cs[z[j]])
  <2>1. \A j \in 1..Len(z) : j \in 1..l \/ j = l + 1
    BY <1>2, <1>17
  <2> QED
    BY <1>17, <1>18, <1>19, <2>1 DEF c
<1>21. Len(d.ctrls) = Len(z) + 1 /\ d.ctrls[1] = c.ctrls[1]
  <2>1. 1 \in 1 .. l + 1 /\ (l + 1) + 1 = l + 2
    BY <1>2
  <2> QED
    BY <1>15, <1>17, <2>1
<1> QED
  BY <1>1, <1>14, <1>16, <1>20, <1>21, StateFrom DEF c, d, z

\* The innermost label popped.
LEMMA PopCtrlOk ==
  ASSUME NEW c \in CheckerType, NEW l \in Nat, Len(c.ctrls) = l + 1,
         c.ctrls[l + 1].height <= Len(c.stack)
  PROVE  LET u == PopCtrl(c)
             h == c.ctrls[l + 1].height
         IN
         /\ u \in CheckerType /\ Len(u.ctrls) = l /\ \A m \in 1..l : u.ctrls[m] = c.ctrls[m]
         /\ Len(u.stack) = h /\ h \in Nat /\ \A m \in 1..h : u.stack[m] = c.stack[m]
<1> DEFINE h == c.ctrls[l + 1].height
           u == PopCtrl(c)
<1>1. /\ c.ctrls \in Seq(CtrlType) /\ c.stack \in Seq(BodyType \cup {Bot})
      /\ Len(c.stack) \in Nat
  BY CheckerParts
<1>2. l + 1 \in 1..Len(c.ctrls)
  OBVIOUS
<1>3. h \in Nat
  BY <1>2, CheckerParts
<1>4. c.ctrls # <<>> /\ Last(c.ctrls) = c.ctrls[l + 1]
  <2>1. Len(<<>>) = 0
    BY EmptySeq
  <2>2. c.ctrls # <<>>
    BY <2>1
  <2> QED
    BY <2>2 DEF Last
<1>5. u = [stack |-> SubSeq(c.stack, 1, h), ctrls |-> Front(c.ctrls)]
  BY <1>4 DEF PopCtrl
<1> HIDE DEF u, h
<1>6. /\ Front(c.ctrls) \in Seq(CtrlType) /\ Len(Front(c.ctrls)) = Len(c.ctrls) - 1
      /\ \A i \in 1 .. Len(c.ctrls) - 1 : Front(c.ctrls)[i] = c.ctrls[i]
  BY <1>1, <1>4, FrontOk
<1>7. Len(c.ctrls) - 1 = l
  OBVIOUS
<1>8. h \in 0..Len(c.stack)
  BY <1>1, <1>3 DEF h
<1>9. /\ SubSeq(c.stack, 1, h) \in Seq(BodyType \cup {Bot}) /\ Len(SubSeq(c.stack, 1, h)) = h
      /\ \A m \in 1..h : SubSeq(c.stack, 1, h)[m] = c.stack[m]
  BY <1>1, <1>8, PrefixOk
<1>10. u \in CheckerType /\ u.stack = SubSeq(c.stack, 1, h) /\ u.ctrls = Front(c.ctrls)
  BY <1>5, <1>6, <1>9 DEF CheckerType
<1>11. Len(u.ctrls) = l /\ \A m \in 1..l : u.ctrls[m] = c.ctrls[m]
  BY <1>6, <1>7, <1>10
<1>12. Len(u.stack) = h /\ \A m \in 1..h : u.stack[m] = c.stack[m]
  BY <1>9, <1>10
<1> QED
  BY <1>3, <1>10, <1>11, <1>12 DEF u, h

\* The first k labels stay, and the operands that are not the innermost one's.
LabelsKept(c, d, l, k) ==
  /\ \A m \in 1..k : d.ctrls[m] = c.ctrls[m]
  /\ \A m \in 1..c.ctrls[l + 1].height : d.stack[m] = c.stack[m]

\* Labels at a place, seen from the next one: blocks stay what they are.
LEMMA BlocksKept ==
  ASSUME NEW b, BodyOk(b, <<>>, TRUE), NEW n \in 1..Len(b), NEW cs, NEW c, NEW s, NEW l, NEW d,
         LabelsOk(b, n, cs, c, s, l), s = OpenAt(b)[n], NEW k \in 0..l,
         LabelsKept(c, d, l, k), NEW j \in 1..k, LabelKept(c, d, j) \/ j < k,
         d.ctrls[j + 1].kind = Kind(b[s[j]], n + 1)
  PROVE  BlockOk(b, d, n + 1, j, s[j], cs[s[j]])
<1>1. l \in Nat /\ j \in Nat \ {0} /\ j \in 1..l /\ j + 1 \in 1 .. l + 1 /\ l + 1 \in 1 .. l + 1
  BY DEF LabelsOk
<1>2. BlockOk(b, c, n, j, s[j], cs[s[j]])
  BY <1>1 DEF LabelsOk
<1>3. LabelKept(c, d, j)
  <2> SUFFICES ASSUME j < k
               PROVE  LabelKept(c, d, j)
    OBVIOUS
  <2>1. j + 1 \in 1..k /\ \A m \in 1..j : m \in 1..k
    OBVIOUS
  <2>2. /\ c.ctrls[j + 1].height \in Nat /\ c.ctrls[l + 1].height \in Nat
        /\ c.ctrls[j + 1].height <= c.ctrls[l + 1].height
    BY <1>1 DEF LabelsOk
  <2>3. \A m \in 1..c.ctrls[j + 1].height : m \in 1..c.ctrls[l + 1].height
    BY <2>2
  <2> QED
    BY <2>1, <2>3 DEF LabelKept, LabelsKept
<1> QED
  BY <1>1, <1>2, <1>3, BlockKept

\* A place inside a block has an innermost one.
LEMMA InsideBlock ==
  ASSUME NEW b, NEW n, NEW cs, NEW c, NEW s, NEW l, LabelsOk(b, n, cs, c, s, l), l = Len(s),
         s # <<>>
  PROVE  /\ l \in Nat \ {0} /\ l \in 1..l /\ l + 1 \in 1 .. l + 1 /\ Last(s) = s[l]
         /\ 1 \in 1..l /\ s[l] \in 1..Len(b)
<1>1. s \in Seq(1 .. n - 1)
  BY DEF LabelsOk
<1>2. l \in Nat \ {0} /\ Last(s) = s[l]
  BY <1>1, FrontOk
<1>3. l \in 1..l /\ l + 1 \in 1 .. l + 1 /\ 1 \in 1..l
  BY <1>2
<1> QED
  BY <1>2, <1>3 DEF LabelsOk

\* The else of an if.
LEMMA CheckElse ==
  ASSUME NEW f, NEW b, BodyOk(b, <<>>, TRUE), NEW n \in 1..Len(b), NEW cs, StateOk(f, b, cs, n),
         NEW cs2, \A q \in 1..n : cs2[q] = cs[q],
         cs2[n + 1] = Checked(f, cs[n], b[n]), b[n].op = "else"
  PROVE  StateOk(f, b, cs2, n + 1)
<1> DEFINE c == cs[n]
           d == cs2[n + 1]
           s == OpenAt(b)[n]
           l == Len(s)
           e == c.ctrls[l + 1]
           u == PopCtrl(c)
           new == [kind |-> "else", ins |-> e.ins, outs |-> e.outs, height |-> Len(u.stack),
                   unreachable |-> FALSE]
<1>1. /\ Len(b) \in Nat /\ s # <<>>
      /\ b[Last(s)].op = "if" /\ b[Last(s)].else_ = n + 1
  BY CompleteBody
<1>2. LabelsOk(b, n, cs, c, s, l)
  BY <1>1, LabelsAt
<1>3. /\ l \in Nat \ {0} /\ l \in 1..l /\ l + 1 \in 1 .. l + 1 /\ Last(s) = s[l]
      /\ 1 \in 1..l /\ s[l] \in 1..Len(b)
  BY <1>1, <1>2, InsideBlock
<1>4. OpenAt(b)[n + 1] = s
  <2>1. "else" \notin Openers
    BY DEF Openers
  <2> QED
    BY <1>1, <2>1, OpenAtNext DEF OpenNext
<1>5. /\ c \in CheckerType /\ Len(c.ctrls) = l + 1 /\ Last(c.ctrls) = e
      /\ e \in CtrlType /\ e.height <= Len(c.stack) /\ e.height \in Nat
      /\ \A j \in 1..l : \A m \in 1..j : c.ctrls[m].height <= c.ctrls[j].height
      /\ \A j \in 1..l : c.ctrls[j].height <= e.height
  <2>1. \A j \in 1..l : j \in 1 .. l + 1
    BY <1>3
  <2> HIDE DEF c, s, l
  <2> QED
    BY <1>2, <1>3, <2>1 DEF LabelsOk
<1>6. /\ u \in CheckerType /\ Len(u.ctrls) = l /\ \A m \in 1..l : u.ctrls[m] = c.ctrls[m]
      /\ Len(u.stack) = e.height /\ \A m \in 1..e.height : u.stack[m] = c.stack[m]
  <2> HIDE DEF c, l
  <2> QED
    BY <1>3, <1>5, PopCtrlOk DEF l
<1>7. d = PushCtrl(u, "else", e)
  BY <1>5 DEF Checked
<1> HIDE DEF u, d
<1>8. d = [stack |-> u.stack \o e.ins, ctrls |-> Append(u.ctrls, new)]
  BY <1>7 DEF PushCtrl
<1> HIDE DEF e, c, s
<1>9. /\ u.stack \in Seq(BodyType \cup {Bot}) /\ u.ctrls \in Seq(CtrlType)
      /\ e.ins \in Seq(BodyType) /\ e.ins \in Seq(BodyType \cup {Bot})
      /\ e.outs \in Seq(BodyType)
  <2>1. e.ins \in Seq(BodyType) /\ e.outs \in Seq(BodyType)
    BY <1>5 DEF CtrlType
  <2>2. e.ins \in Seq(BodyType \cup {Bot})
    BY <2>1, SeqMonotonic
  <2> QED
    BY <1>6, <2>1, <2>2, CheckerParts
<1>10. /\ new \in CtrlType /\ new.kind = "else" /\ new.ins = e.ins /\ new.outs = e.outs
       /\ new.height = e.height
  BY <1>5, <1>6, <1>9 DEF CtrlType
<1> HIDE DEF new
<1>11. /\ u.stack \o e.ins \in Seq(BodyType \cup {Bot})
       /\ Len(u.stack \o e.ins) = Len(u.stack) + Len(e.ins)
       /\ Len(e.ins) \in Nat
       /\ \A m \in 1..Len(u.stack) : (u.stack \o e.ins)[m] = u.stack[m]
  <2> DEFINE x == u.stack
             y == e.ins
  <2>1. x \in Seq(BodyType \cup {Bot}) /\ y \in Seq(BodyType \cup {Bot})
    BY <1>9
  <2> HIDE DEF x, y
  <2>2. /\ x \o y \in Seq(BodyType \cup {Bot}) /\ Len(x \o y) = Len(x) + Len(y)
        /\ Len(y) \in Nat /\ \A m \in 1..Len(x) : (x \o y)[m] = x[m]
    BY <2>1, ConcatOk
  <2> QED
    BY <2>2 DEF x, y
<1>12. /\ Append(u.ctrls, new) \in Seq(CtrlType) /\ Len(Append(u.ctrls, new)) = l + 1
       /\ \A m \in 1..l : Append(u.ctrls, new)[m] = u.ctrls[m]
       /\ Append(u.ctrls, new)[l + 1] = new
  <2> HIDE DEF l
  <2> QED
    BY <1>6, <1>9, <1>10, AppendOk
<1>13. d \in CheckerType /\ d.stack = u.stack \o e.ins /\ d.ctrls = Append(u.ctrls, new)
  BY <1>8, <1>11, <1>12 DEF CheckerType
<1> HIDE DEF l
<1>14. /\ Len(d.ctrls) = l + 1 /\ d.ctrls[l + 1] = new
       /\ \A m \in 1..l : d.ctrls[m] = c.ctrls[m]
       /\ \A m \in 1..e.height : d.stack[m] = c.stack[m]
       /\ e.height <= Len(d.stack)
  <2>1. Len(d.ctrls) = l + 1 /\ d.ctrls[l + 1] = new
    BY <1>12, <1>13
  <2>2. \A m \in 1..l : d.ctrls[m] = c.ctrls[m]
    BY <1>6, <1>12, <1>13
  <2>3. \A m \in 1..e.height : d.stack[m] = c.stack[m]
    BY <1>6, <1>11, <1>13
  <2>4. e.height <= Len(d.stack)
    <3>1. Len(d.stack) = e.height + Len(e.ins)
      BY <1>6, <1>11, <1>13
    <3> QED
      BY <1>5, <1>11, <3>1
  <2> QED
    BY <2>1, <2>2, <2>3, <2>4
<1>15. HeightsOk(d)
  <2>1. \A m \in 1..l : c.ctrls[m].height <= d.ctrls[l + 1].height
    BY <1>5, <1>10, <1>14
  <2>2. d.ctrls[l + 1].height <= Len(d.stack) /\ l \in Nat
    BY <1>3, <1>10, <1>14
  <2> QED
    BY <1>5, <1>13, <1>14, <2>1, <2>2, HeightsPushed
<1>16. ASSUME NEW j \in 1..l
       PROVE  BlockOk(b, d, n + 1, j, s[j], cs[s[j]])
  <2>1. d.ctrls[j + 1].kind = Kind(b[s[j]], n + 1)
    <3>1. CASE j = l
      <4>1. b[s[l]].op = "if" /\ b[s[l]].else_ = n + 1
        BY <1>1, <1>3
      <4>2. b[s[l]].end # n + 1
        <5> SUFFICES ASSUME b[s[l]].end = n + 1
                     PROVE  FALSE
          OBVIOUS
        <5>1. b[b[s[l]].end - 1].op = "end"
          <6>1. Closed(b, s[l])
            BY <1>3, <4>1, CompleteBody DEF Openers
          <6> QED
            BY <6>1 DEF Closed
        <5>2. (n + 1) - 1 = n
          OBVIOUS
        <5> QED
          BY <5>1, <5>2
      <4>3. n + 1 <= n + 1
        OBVIOUS
      <4>4. Kind(b[s[l]], n + 1) = "else"
        BY <4>1, <4>2, <4>3 DEF Kind
      <4> QED
        BY <1>10, <1>14, <3>1, <4>4
    <3>2. CASE j # l
      <4>1. j + 1 \in 1..l
        BY <1>3, <3>2
      <4>2. s[j] # s[l]
        <5>1. /\ Len(OpenAt(b)[s[j]]) = j - 1 /\ Len(OpenAt(b)[s[l]]) = l - 1
          <6>1. n \in 1 .. Len(b) + 1
            BY <1>1
          <6>2. \A i \in 1..l : Len(OpenAt(b)[s[i]]) = i - 1
            BY <1>1, <6>1, OpenBlocks DEF s, l
          <6> QED
            BY <1>3, <6>2
        <5> QED
          BY <1>3, <3>2, <5>1
      <4>3. s[j] \in 1..Len(b)
        BY <1>2 DEF LabelsOk
      <4>4. Kind(b[s[j]], n + 1) = Kind(b[s[j]], n)
        BY <1>3, <4>2, <4>3, KindKept DEF s
      <4>5. c.ctrls[j + 1].kind = Kind(b[s[j]], n)
        BY <1>2 DEF LabelsOk, BlockOk
      <4> QED
        BY <1>14, <4>1, <4>4, <4>5
    <3> QED
      BY <3>1, <3>2
  <2>2. LabelKept(c, d, j) \/ j < l
    <3> SUFFICES ASSUME j = l
                 PROVE  LabelKept(c, d, j)
      BY <1>3
    <3>1. /\ d.ctrls[l + 1].ins = e.ins /\ d.ctrls[l + 1].outs = e.outs
          /\ d.ctrls[l + 1].height = e.height
      BY <1>10, <1>14
    <3> QED
      BY <1>14, <3>1 DEF LabelKept, e
  <2>3. l \in 0..l
    BY <1>3
  <2>4. s = OpenAt(b)[n] /\ LabelsKept(c, d, l, l)
    BY <1>14 DEF e, s, LabelsKept
  <2> QED
    BY <1>2, <2>1, <2>2, <2>3, <2>4, BlocksKept
<1>17. Len(d.ctrls) = Len(s) + 1 /\ d.ctrls[1] = c.ctrls[1]
  BY <1>3, <1>14 DEF l
<1>18. \A j \in 1..Len(s) : BlockOk(b, d, n + 1, j, s[j], cs[s[j]])
  BY <1>16 DEF l
<1> QED
  BY <1>1, <1>4, <1>13, <1>15, <1>17, <1>18, StateFrom DEF c, d

\* The end of a block, and of the body.
LEMMA CheckEnd ==
  ASSUME NEW f, NEW b, BodyOk(b, <<>>, TRUE), NEW n \in 1..Len(b), NEW cs, StateOk(f, b, cs, n),
         NEW cs2, \A q \in 1..n : cs2[q] = cs[q],
         cs2[n + 1] = Checked(f, cs[n], b[n]), b[n].op = "end"
  PROVE  /\ cs2[n + 1] \in CheckerType
         /\ n < Len(b) => StateOk(f, b, cs2, n + 1)
         /\ n = Len(b) => cs2[n + 1] = [stack |-> FuncTypeOf(f).outs, ctrls |-> <<>>]
<1> DEFINE c == cs[n]
           d == cs2[n + 1]
           s == OpenAt(b)[n]
           l == Len(s)
           e == c.ctrls[l + 1]
           u == PopCtrl(c)
           z == OpenAt(b)[n + 1]
<1>1. Len(b) \in Nat /\ (s = <<>>) = (n = Len(b))
  BY CompleteBody
<1>2. LabelsOk(b, n, cs, c, s, l)
  BY <1>1, LabelsAt
<1>3. /\ c \in CheckerType /\ Len(c.ctrls) = l + 1 /\ Last(c.ctrls) = e /\ l \in Nat
      /\ e \in CtrlType /\ e.height <= Len(c.stack) /\ e.height \in Nat
      /\ \A j \in 1..l : \A m \in 1..j : c.ctrls[m].height <= c.ctrls[j].height
      /\ \A j \in 1..l : c.ctrls[j].height <= e.height
  <2>1. l \in Nat
    BY <1>2 DEF LabelsOk
  <2>2. l + 1 \in 1 .. l + 1 /\ \A j \in 1..l : j \in 1 .. l + 1
    BY <2>1
  <2> HIDE DEF c, s, l
  <2> QED
    BY <1>2, <2>1, <2>2 DEF LabelsOk
<1>4. /\ u \in CheckerType /\ Len(u.ctrls) = l /\ \A m \in 1..l : u.ctrls[m] = c.ctrls[m]
      /\ Len(u.stack) = e.height /\ \A m \in 1..e.height : u.stack[m] = c.stack[m]
  <2> HIDE DEF c, l
  <2> QED
    BY <1>3, PopCtrlOk
<1>5. d = Pushed(u, e.outs)
  BY <1>3 DEF Checked
<1> HIDE DEF u, d, c
<1>6. e.outs \in Seq(BodyType) /\ e.outs \in Seq(BodyType \cup {Bot}) /\ Len(e.outs) \in Nat
  <2>1. e.outs \in Seq(BodyType)
    BY <1>3 DEF CtrlType
  <2> QED
    BY <2>1, SeqMonotonic, LenProperties
<1> HIDE DEF e
<1>7. /\ d \in CheckerType /\ d.ctrls = u.ctrls /\ d.stack = u.stack \o e.outs
      /\ Len(d.stack) = Len(u.stack) + Len(e.outs)
      /\ \A m \in 1..Len(u.stack) : d.stack[m] = u.stack[m]
  BY <1>4, <1>5, <1>6, PushedOk
<1>8. ASSUME s = <<>>
      PROVE  d = [stack |-> FuncTypeOf(f).outs, ctrls |-> <<>>]
  <2>1. l = 0
    BY <1>8, EmptySeq
  <2>2. l + 1 = 1
    BY <2>1
  <2>3. e = c.ctrls[1]
    BY <2>2 DEF e
  <2>4. e.height = 0 /\ e.outs = FuncTypeOf(f).outs
    BY <2>3 DEF StateOk, c
  <2> HIDE DEF l
  <2>5. u.stack \in Seq(BodyType \cup {Bot}) /\ u.ctrls \in Seq(CtrlType)
    BY <1>4, CheckerParts
  <2>6. u.ctrls = <<>> /\ u.stack = <<>>
    BY <1>4, <2>1, <2>4, <2>5, EmptySeq
  <2>7. d.stack = e.outs
    BY <1>6, <1>7, <2>6, ConcatEmptySeq
  <2>8. d = [stack |-> d.stack, ctrls |-> d.ctrls]
    BY <1>7, CheckerParts
  <2> QED
    BY <1>7, <2>4, <2>6, <2>7, <2>8
<1>9. ASSUME s # <<>>
      PROVE  StateOk(f, b, cs2, n + 1)
  <2>1. /\ l \in Nat \ {0} /\ l \in 1..l /\ l + 1 \in 1 .. l + 1
        /\ 1 \in 1..l
    BY <1>2, <1>9, InsideBlock
  <2>2. z = Front(s)
    <3>1. "end" \notin Openers
      BY DEF Openers
    <3> QED
      BY <1>1, <1>9, <3>1, OpenAtNext DEF OpenNext
  <2>3. Len(z) = l - 1 /\ \A j \in 1 .. l - 1 : z[j] = s[j]
    <3>1. s \in Seq(1 .. n - 1)
      BY <1>2 DEF LabelsOk
    <3> QED
      BY <1>9, <2>2, <3>1, FrontOk
  <2> HIDE DEF l, z, s
  <2>4. d.ctrls # <<>> /\ Last(d.ctrls) = d.ctrls[l] /\ Len(d.ctrls) = l
    <3>1. Len(<<>>) = 0
      BY EmptySeq
    <3>2. d.ctrls # <<>>
      BY <1>4, <1>7, <2>1, <3>1
    <3> QED
      BY <1>4, <1>7, <3>2 DEF Last
  <2>5. \A m \in 1..l : d.ctrls[m] = c.ctrls[m]
    BY <1>4, <1>7
  <2>6. \A m \in 1..e.height : d.stack[m] = c.stack[m]
    BY <1>4, <1>7
  <2>7. HeightsOk(d)
    <3>1. d.ctrls[l].height <= e.height /\ d.ctrls[l].height \in Nat
      <4>1. d.ctrls[l].height <= e.height
        BY <1>3, <2>1, <2>5
      <4>2. d.ctrls[l].height \in Nat
        BY <1>7, <2>1, <2>4, CheckerParts
      <4> QED
        BY <4>1, <4>2
    <3>2. Last(d.ctrls).height <= Len(d.stack)
      <4>1. Len(d.stack) = e.height + Len(e.outs)
        BY <1>4, <1>7
      <4> QED
        BY <1>3, <1>6, <2>4, <3>1, <4>1
    <3>3. \A j \in 1..Len(d.ctrls) : \A m \in 1..j : d.ctrls[m].height <= d.ctrls[j].height
      <4>1. \A j \in 1..l : \A m \in 1..j : m \in 1..l
        BY <2>1
      <4> QED
        BY <1>3, <2>4, <2>5, <4>1
    <3> QED
      BY <1>7, <2>4, <3>2, <3>3, HeightsFrom
  <2>8. ASSUME NEW j \in 1 .. l - 1
        PROVE  BlockOk(b, d, n + 1, j, s[j], cs[s[j]])
    <3>1. j \in 1..l /\ j + 1 \in 1..l /\ l \in 0..l /\ j < l
      BY <2>1
    <3>2. Kind(b[s[j]], n + 1) = Kind(b[s[j]], n)
      <4>1. s[j] \in 1..Len(b)
        BY <1>2, <3>1 DEF LabelsOk
      <4> QED
        BY <4>1, KindKept
    <3>3. c.ctrls[j + 1].kind = Kind(b[s[j]], n)
      BY <1>2, <3>1 DEF LabelsOk, BlockOk
    <3>4. d.ctrls[j + 1].kind = Kind(b[s[j]], n + 1)
      BY <2>5, <3>1, <3>2, <3>3
    <3>5. LabelsKept(c, d, l, l) /\ s = OpenAt(b)[n]
      BY <2>5, <2>6 DEF LabelsKept, e, s
    <3> QED
      BY <1>2, <3>1, <3>4, <3>5, BlocksKept
  <2>9. \A j \in 1..Len(z) : BlockOk(b, d, n + 1, j, z[j], cs[z[j]])
    BY <2>3, <2>8
  <2>10. Len(d.ctrls) = Len(z) + 1 /\ d.ctrls[1] = c.ctrls[1]
    BY <2>1, <2>3, <2>4, <2>5
  <2> QED
    BY <1>1, <1>7, <2>7, <2>9, <2>10, StateFrom DEF c, d, z
<1>10. n < Len(b) => s # <<>>
  BY <1>1
<1>11. n = Len(b) => s = <<>>
  BY <1>1
<1> HIDE DEF s
<1> QED
  BY <1>7, <1>8, <1>9, <1>10, <1>11 DEF d

\* One instruction accepted.
LEMMA CheckStep ==
  ASSUME NEW f \in DOMAIN Funcs, NEW b, BodyOk(b, <<>>, TRUE),
         NEW n \in 1..Len(b), NEW cs, StateOk(f, b, cs, n),
         NEW cs2, \A q \in 1..n : cs2[q] = cs[q],
         Accepts(f, cs[n], b[n]), cs2[n + 1] = Checked(f, cs[n], b[n])
  PROVE  /\ cs2[n + 1] \in CheckerType
         /\ n < Len(b) => StateOk(f, b, cs2, n + 1)
         /\ n = Len(b) => cs2[n + 1] = [stack |-> FuncTypeOf(f).outs, ctrls |-> <<>>]
<1>1. Len(b) \in Nat /\ b[n] \in Instructions /\ b[Len(b)].op = "end"
  BY CompleteBody
<1>2. CASE b[n].op = "end"
  BY <1>2, CheckEnd
<1>3. CASE b[n].op # "end"
  <2>1. n # Len(b)
    BY <1>1, <1>3
  <2>2. StateOk(f, b, cs2, n + 1)
    <3>1. CASE b[n].op \in Openers
      BY <3>1, OpenStep
    <3>2. CASE b[n].op = "else"
      BY <3>2, CheckElse
    <3>3. CASE b[n].op \notin Openers \cup {"else", "end"}
      <4>1. Live(cs[n])
        <5>1. n \in 1 .. Len(b) + 1
          BY <1>1
        <5>2. Len(OpenAt(b)[n]) \in Nat
          BY <1>1, <5>1, OpenBlocks
        <5> QED
          BY <5>2, StateIsLive
      <4>2. Flat(cs[n], cs2[n + 1])
        BY <1>1, <3>3, <4>1, PlainChecks
      <4> QED
        BY <3>3, <4>2, FlatStep
    <3> QED
      BY <1>3, <3>1, <3>2, <3>3
  <2>3. cs2[n + 1] \in CheckerType
    BY <2>2 DEF StateOk
  <2> QED
    BY <2>1, <2>2, <2>3
<1> QED
  BY <1>2, <1>3

\* The checks of a body, one instruction further.
LEMMA ChecksStep ==
  ASSUME NEW f \in DOMAIN Funcs, NEW b, BodyOk(b, <<>>, TRUE),
         NEW cs \in Seq(CheckerType), ChecksOk(f, b, cs), Last(cs).ctrls # <<>>
  PROVE  /\ Len(cs) \in 1..Len(b) /\ Last(cs) = cs[Len(cs)]
         /\ Accepts(f, Last(cs), b[Len(cs)]) =>
              /\ Append(cs, Checked(f, Last(cs), b[Len(cs)])) \in Seq(CheckerType)
              /\ ChecksOk(f, b, Append(cs, Checked(f, Last(cs), b[Len(cs)])))
<1> DEFINE n == Len(cs)
           d == Checked(f, cs[n], b[n])
           cs2 == Append(cs, d)
<1>1. Len(b) \in Nat /\ n \in 1 .. Len(b) + 1 /\ Last(cs) = cs[n]
  BY CompleteBody DEF ChecksOk, Last
<1>2. n \in 1..Len(b)
  <2>1. ~ n <= Len(b) => cs[n] = [stack |-> FuncTypeOf(f).outs, ctrls |-> <<>>]
    <3>1. n \in 1..n
      BY <1>1
    <3> QED
      BY <3>1 DEF ChecksOk
  <2> HIDE DEF n
  <2>2. n <= Len(b)
    BY <1>1, <2>1
  <2> QED
    BY <1>1, <2>2
<1>3. ASSUME Accepts(f, cs[n], b[n])
      PROVE  cs2 \in Seq(CheckerType) /\ ChecksOk(f, b, cs2)
  <2> DEFINE CS == CheckerType \cup {d}
  <2>1. cs \in Seq(CS) /\ d \in CS
    <3> HIDE DEF d
    <3> QED
      BY SeqMonotonic
  <2> HIDE DEF CS, d
  <2>2. /\ Len(cs2) = n + 1 /\ \A q \in 1..n : cs2[q] = cs[q]
        /\ cs2[n + 1] = d
    BY <2>1, AppendOk
  <2>3. StateOk(f, b, cs, n)
    <3>1. n \in 1..n /\ n <= Len(b)
      BY <1>1, <1>2
    <3> QED
      BY <3>1 DEF ChecksOk
  <2> HIDE DEF cs2
  <2>4. /\ cs2[n + 1] \in CheckerType
        /\ n < Len(b) => StateOk(f, b, cs2, n + 1)
        /\ n = Len(b) => cs2[n + 1] = [stack |-> FuncTypeOf(f).outs, ctrls |-> <<>>]
    <3> HIDE DEF n
    <3> QED
      BY <1>2, <1>3, <2>2, <2>3, CheckStep DEF d
  <2>5. cs2 \in Seq(CheckerType)
    <3>1. d \in CheckerType
      BY <2>2, <2>4
    <3> QED
      BY <3>1, AppendOk DEF cs2
  <2>6. Len(cs2) \in 1 .. Len(b) + 1
    BY <1>1, <1>2, <2>2
  <2>7. ASSUME NEW q \in 1 .. Len(cs2) - 1
        PROVE  Accepts(f, cs2[q], b[q]) /\ cs2[q + 1] = Checked(f, cs2[q], b[q])
    <3> HIDE DEF n
    <3>1. CASE q = n
      <4>1. cs2[n] = cs[n]
        BY <1>2, <2>2
      <4> QED
        BY <1>3, <2>2, <3>1, <4>1 DEF d
    <3>2. CASE q # n
      <4>1. q \in 1 .. n - 1 /\ q \in 1..n /\ q + 1 \in 1..n
        BY <1>1, <2>2, <3>2
      <4>2. Accepts(f, cs[q], b[q]) /\ cs[q + 1] = Checked(f, cs[q], b[q])
        BY <4>1 DEF ChecksOk, n
      <4>3. cs2[q] = cs[q] /\ cs2[q + 1] = cs[q + 1]
        BY <2>2, <4>1
      <4> QED
        BY <4>2, <4>3
    <3> QED
      BY <3>1, <3>2
  <2>8. ASSUME NEW q \in 1..Len(cs2)
        PROVE  IF q <= Len(b) THEN StateOk(f, b, cs2, q)
               ELSE cs2[q] = [stack |-> FuncTypeOf(f).outs, ctrls |-> <<>>]
    <3>1. CASE q = n + 1
      <4> HIDE DEF n
      <4> QED
        BY <1>1, <1>2, <2>4, <3>1
    <3>2. CASE q # n + 1
      <4>1. q \in 1..n /\ q <= Len(b) /\ q \in 1 .. Len(b) + 1
        <5> HIDE DEF n
        <5> QED
          BY <1>1, <1>2, <2>2, <3>2
      <4>2. StateOk(f, b, cs, q)
        BY <4>1 DEF ChecksOk
      <4>3. cs2[q] = cs[q]
        BY <2>2, <4>1
      <4>4. \A j \in 1..Len(OpenAt(b)[q]) : OpenAt(b)[q][j] \in 1..n
        <5>1. \A j \in 1..Len(OpenAt(b)[q]) : OpenAt(b)[q][j] \in 1 .. q - 1
          BY <1>1, <4>1, OpenBlocks
        <5>2. \A m \in 1 .. q - 1 : m \in 1..n
          <6> HIDE DEF n
          <6> QED
            BY <1>1, <4>1
        <5> QED
          BY <5>1, <5>2
      <4>5. \A j \in 1..Len(OpenAt(b)[q]) : cs2[OpenAt(b)[q][j]] = cs[OpenAt(b)[q][j]]
        BY <2>2, <4>4
      <4>6. StateOk(f, b, cs2, q)
        <5> HIDE DEF n
        <5> QED
          BY <4>2, <4>3, <4>5 DEF StateOk
      <4> QED
        BY <4>1, <4>6
    <3> QED
      BY <3>1, <3>2
  <2>9. ChecksOk(f, b, cs2)
    BY <2>6, <2>7, <2>8 DEF ChecksOk
  <2> QED
    BY <2>5, <2>9
<1> QED
  BY <1>1, <1>2, <1>3

\* A body whose last label is gone is checked as a whole.
LEMMA ChecksEnd ==
  ASSUME NEW f \in DOMAIN Funcs, NEW b, BodyOk(b, <<>>, TRUE),
         NEW cs \in Seq(CheckerType), ChecksOk(f, b, cs), Last(cs).ctrls = <<>>
  PROVE  AllChecked(f, b, cs)
<1> DEFINE n == Len(cs)
<1>1. Len(b) \in Nat /\ n \in 1 .. Len(b) + 1 /\ Last(cs) = cs[n]
  BY CompleteBody DEF ChecksOk, Last
<1>2. ~ n <= Len(b)
  <2> SUFFICES ASSUME n <= Len(b)
               PROVE  FALSE
    OBVIOUS
  <2>1. n \in 1..n /\ n \in 1 .. Len(b) + 1
    BY <1>1
  <2>2. StateOk(f, b, cs, n)
    BY <2>1 DEF ChecksOk
  <2>3. Len(OpenAt(b)[n]) \in Nat
    <3> HIDE DEF n
    <3> QED
      BY <1>1, <2>1, OpenBlocks
  <2>4. Live(cs[n])
    BY <2>2, <2>3, StateIsLive
  <2> QED
    BY <1>1, <2>4 DEF Live
<1>3. n = Len(b) + 1
  <2> HIDE DEF n
  <2> QED
    BY <1>1, <1>2
<1> QED
  BY <1>3 DEF AllChecked

\* The checks of a body begin.
LEMMA ChecksBegin ==
  ASSUME NEW f \in DOMAIN Funcs, NEW b, BodyOk(b, <<>>, TRUE)
  PROVE  /\ <<NewChecker(f)>> \in Seq(CheckerType)
         /\ ChecksOk(f, b, <<NewChecker(f)>>)
<1> DEFINE c  == NewChecker(f)
           l  == [kind |-> "block", ins |-> <<>>, outs |-> FuncTypeOf(f).outs,
                  height |-> 0, unreachable |-> FALSE]
           cs == <<c>>
<1>1. Len(b) \in Nat \ {0} /\ Len(b) \in Nat
  <2>1. b \in Seq(Instructions) /\ b # <<>>
    BY DEF BodyOk
  <2> QED
    BY <2>1, EmptySeq
<1>2. FuncTypeOf(f).outs \in Seq(BodyType)
  <2>1. Funcs[f].ty \in DOMAIN Types
    BY BodyAssumption
  <2> QED
    BY <2>1, BlockTypes DEF FuncTypeOf
<1>3. l \in CtrlType /\ <<>> \in Seq(BodyType) /\ <<>> \in Seq(BodyType \cup {Bot})
  <2>1. <<>> \in Seq(BodyType) /\ <<>> \in Seq(BodyType \cup {Bot})
    BY EmptySeq
  <2> QED
    BY <1>2, <2>1 DEF CtrlType
<1>4. c = [stack |-> <<>>, ctrls |-> <<l>>]
  BY DEF NewChecker
<1>5. l.kind = "block" /\ l.ins = <<>> /\ l.height = 0 /\ l.outs = FuncTypeOf(f).outs
  OBVIOUS
<1> HIDE DEF l, c
<1>6. <<l>> \in Seq(CtrlType) /\ Len(<<l>>) = 1 /\ <<l>>[1] = l
  BY <1>3
<1>7. c \in CheckerType /\ c.stack = <<>> /\ c.ctrls = <<l>>
  BY <1>3, <1>4, <1>6 DEF CheckerType
<1>8. cs \in Seq(CheckerType) /\ Len(cs) = 1 /\ cs[1] = c
  BY <1>7
<1>9. OpenAt(b)[1] = <<>> /\ Len(<<>>) = 0
  BY <1>1, OpenAtNext, EmptySeq
<1> HIDE DEF cs
<1>10. HeightsOk(c)
  <2>1. c.ctrls # <<>> /\ Last(c.ctrls) = l
    <3>1. c.ctrls # <<>>
      BY <1>6, <1>7, <1>9
    <3> QED
      BY <1>6, <1>7, <3>1 DEF Last
  <2>2. Last(c.ctrls).height <= Len(c.stack)
    BY <1>5, <1>7, <1>9, <2>1
  <2>3. \A j \in 1..Len(c.ctrls) : \A m \in 1..j : c.ctrls[m].height <= c.ctrls[j].height
    <3>1. \A j \in 1..Len(c.ctrls) : j = 1
      BY <1>6, <1>7
    <3> QED
      BY <1>5, <1>6, <1>7, <3>1
  <2> QED
    BY <1>7, <2>1, <2>2, <2>3, HeightsFrom
<1>11. StateOk(f, b, cs, 1)
  <2>1. Len(c.ctrls) = Len(OpenAt(b)[1]) + 1 /\ c.ctrls[1] = l
    BY <1>6, <1>7, <1>9
  <2>2. \A j \in 1..Len(OpenAt(b)[1]) : FALSE
    BY <1>9
  <2> QED
    BY <1>5, <1>7, <1>8, <1>10, <2>1, <2>2 DEF StateOk
<1>12. ChecksOk(f, b, cs)
  <2>1. \A q \in 1 .. Len(cs) - 1 : FALSE
    BY <1>8
  <2>2. \A q \in 1..Len(cs) : q = 1 /\ q <= Len(b)
    BY <1>1, <1>8
  <2>3. Len(cs) \in 1 .. Len(b) + 1
    BY <1>1, <1>8
  <2> QED
    BY <1>11, <2>1, <2>2, <2>3 DEF ChecksOk
<1> QED
  BY <1>8, <1>12 DEF c, cs

-----------------------------------------------------------------------------
(* Every step.                                                             *)

\* Before validation no checker has been recorded.
LEMMA CheckInit == Init => CheckInv
<1> SUFFICES ASSUME Init
             PROVE  CheckInv
  OBVIOUS
<1>1. phase = "decode" /\ checked = [f \in DOMAIN Funcs |-> <<>>]
  BY DEF Init
<1>2. <<>> \in Seq(CheckerType) /\ \A f \in Local : f \in DOMAIN Funcs
  BY EmptySeq DEF Local
<1> HIDE DEF Local
<1> QED
  BY <1>1, <1>2 DEF CheckInv

\* Decoding checks nothing, and the first body's checks begin when it ends.
LEMMA DecodeKeepsChecks ==
  ASSUME StructInv, Decode, DecodeInv'
  PROVE  CheckInv'
<1>1. /\ phase = "decode" /\ fn \in Local
      /\ checked \in [DOMAIN Funcs -> Seq(CheckerType)]
      /\ \A f \in Local : checked[f] = <<>>
  BY DEF StructInv, DecodeInv, CheckInv, Decode
<1>2. CASE phase' \in {"decode", "malformed"} /\ checked' = checked
  BY <1>1, <1>2 DEF CheckInv
<1>3. CASE phase' = "validate" /\ fn' = First
           /\ checked' = [checked EXCEPT ![First] = <<NewChecker(First)>>]
  <2>1. First \in Local /\ Local \subseteq DOMAIN Funcs
    BY LocalIsInterval DEF Local
  <2>2. \A f \in Local : ~ f < First
    <3>1. Local = First .. Len(Funcs) /\ First \in Nat /\ Len(Funcs) \in Nat
      BY LocalIsInterval
    <3> HIDE DEF Local, First
    <3> QED
      BY <3>1
  <2> DEFINE cs == <<NewChecker(First)>>
             b  == bodies'[First]
  <2>3. BodyOk(b, <<>>, TRUE)
    BY <1>3, <2>1 DEF DecodeInv
  <2> HIDE DEF First, Local, b
  <2>4. cs \in Seq(CheckerType) /\ ChecksOk(First, b, cs)
    BY <2>1, <2>3, ChecksBegin
  <2> HIDE DEF cs
  <2>5. checked' \in [DOMAIN Funcs -> Seq(CheckerType)]
    BY <1>1, <1>3, <2>4 DEF cs
  <2>6. checked'[First] = cs /\ \A f \in Local : f # First => checked'[f] = <<>>
    BY <1>1, <1>3, <2>1 DEF cs
  <2>7. \A f \in Local : f > fn' => f # First
    BY <1>3, <2>1, LocalIsInterval
  <2>8. \A f \in Local : f = fn' => ChecksOk(f, bodies'[f], checked'[f])
    BY <1>3, <2>4, <2>6 DEF b
  <2>9. \A f \in Local : f > fn' => checked'[f] = <<>>
    BY <2>6, <2>7
  <2>10. \A f \in Local : ~ f < fn'
    BY <1>3, <2>2
  <2> QED
    BY <1>3, <2>5, <2>8, <2>9, <2>10 DEF CheckInv
<1> QED
  BY <1>1, <1>2, <1>3 DEF Decode, codeVars

\* Validating checks instruction after instruction, body after body.
LEMMA ValidateKeepsChecks ==
  ASSUME StructInv, Validate
  PROVE  CheckInv'
<1>1. /\ phase = "validate" /\ fn \in Local
      /\ checked \in [DOMAIN Funcs -> Seq(CheckerType)]
      /\ \A f \in Local : /\ f < fn => AllChecked(f, bodies[f], checked[f])
                          /\ f = fn => ChecksOk(f, bodies[f], checked[f])
                          /\ f > fn => checked[f] = <<>>
      /\ \A f \in Local : BodyOk(bodies[f], <<>>, TRUE)
  BY DEF StructInv, DecodeInv, CheckInv, Validate
<1>2. /\ fn \in Nat \ {0} /\ fn \in DOMAIN Funcs /\ bodies' = bodies
      /\ checked[fn] \in Seq(CheckerType)
      /\ ChecksOk(fn, bodies[fn], checked[fn]) /\ BodyOk(bodies[fn], <<>>, TRUE)
  <2>1. fn \in Nat \ {0} /\ fn \in DOMAIN Funcs /\ bodies' = bodies
    BY <1>1, NextLocal, ValidateSteps
  <2> HIDE DEF Local
  <2> QED
    BY <1>1, <2>1
<1> DEFINE cs == checked[fn]
           c  == Last(cs)
           i  == bodies[fn][Len(cs)]
<1>3. CASE /\ c.ctrls # <<>> /\ Accepts(fn, c, i)
           /\ checked' = [checked EXCEPT ![fn] = Append(cs, Checked(fn, c, i))]
           /\ UNCHANGED <<phase, fn>>
  <2> DEFINE cs2 == Append(cs, Checked(fn, c, i))
  <2>1. cs2 \in Seq(CheckerType) /\ ChecksOk(fn, bodies[fn], cs2)
    BY <1>2, <1>3, ChecksStep
  <2> HIDE DEF cs2
  <2>2. /\ checked' = [checked EXCEPT ![fn] = cs2] /\ phase' = "validate" /\ fn' = fn
    BY <1>1, <1>3 DEF cs2
  <2>3. checked' \in [DOMAIN Funcs -> Seq(CheckerType)]
    BY <1>1, <2>1, <2>2
  <2>4. checked'[fn] = cs2 /\ \A f \in Local : f # fn => checked'[f] = checked[f]
    BY <1>1, <1>2, <2>2 DEF Local
  <2> HIDE DEF Local
  <2>5. ASSUME NEW f \in Local
        PROVE  /\ f < fn' => AllChecked(f, bodies'[f], checked'[f])
               /\ f = fn' => ChecksOk(f, bodies'[f], checked'[f])
               /\ f > fn' => checked'[f] = <<>>
    <3>1. CASE f = fn
      <4>1. ~ f < fn' /\ ~ f > fn'
        BY <1>2, <2>2, <3>1
      <4> QED
        BY <1>2, <2>1, <2>4, <3>1, <4>1
    <3>2. CASE f # fn
      BY <1>1, <1>2, <2>2, <2>4, <3>2
    <3> QED
      BY <3>1, <3>2
  <2> QED
    BY <2>2, <2>3, <2>5 DEF CheckInv
<1>4. CASE phase' = "invalid" /\ UNCHANGED <<fn, checked>>
  <2>1. phase' \in {"validate", "invalid"} /\ fn' = fn /\ checked' = checked
    BY <1>4
  <2> HIDE DEF Local
  <2> QED
    BY <1>1, <1>2, <2>1 DEF CheckInv
<1>5. CASE /\ c.ctrls = <<>> /\ fn < Len(Funcs) /\ fn' = fn + 1
           /\ checked' = [checked EXCEPT ![fn + 1] = <<NewChecker(fn + 1)>>]
           /\ UNCHANGED phase
  <2> DEFINE g == fn + 1
  <2>1. /\ g \in Local /\ fn # g /\ fn < g /\ g > fn /\ g \in DOMAIN Funcs
        /\ \A f \in Local : /\ f \in Nat \ {0} /\ (f < g <=> f < fn \/ f = fn)
                            /\ (f > g => f > fn)
        /\ \A f \in Local : (f < g => f # g) /\ (f > g => f # g)
    <3>1. g \in Local
      BY <1>1, <1>5, NextLocal
    <3>2. g \in DOMAIN Funcs
      BY <3>1, NextLocal
    <3>3. \A f \in Local : /\ f \in Nat \ {0} /\ (f < g <=> f < fn \/ f = fn)
                           /\ (f > g => f > fn)
      BY <1>1, NextLocal
    <3> HIDE DEF Local
    <3> QED
      BY <1>2, <3>1, <3>2, <3>3
  <2>2. AllChecked(fn, bodies[fn], checked[fn])
    BY <1>2, <1>5, ChecksEnd
  <2> DEFINE cs2 == <<NewChecker(g)>>
  <2>3. cs2 \in Seq(CheckerType) /\ ChecksOk(g, bodies[g], cs2)
    <3> HIDE DEF g
    <3>1. BodyOk(bodies[g], <<>>, TRUE)
      BY <1>1, <2>1
    <3> QED
      BY <2>1, <3>1, ChecksBegin
  <2>4. /\ checked' = [checked EXCEPT ![g] = cs2] /\ phase' = "validate" /\ fn' = g
    BY <1>1, <1>5
  <2> HIDE DEF cs2, g, cs, c, i
  <2>5. checked' \in [DOMAIN Funcs -> Seq(CheckerType)]
    BY <1>1, <2>3, <2>4
  <2>6. checked'[g] = cs2 /\ \A f \in Local : f # g => checked'[f] = checked[f]
    BY <1>1, <2>1, <2>4 DEF Local
  <2> HIDE DEF Local
  <2>7. ASSUME NEW f \in Local
        PROVE  /\ f < g => AllChecked(f, bodies[f], checked'[f])
               /\ f = g => ChecksOk(f, bodies[f], checked'[f])
               /\ f > g => checked'[f] = <<>>
    <3>1. f < g => AllChecked(f, bodies[f], checked'[f])
      BY <1>1, <2>1, <2>2, <2>6
    <3>2. f = g => ChecksOk(f, bodies[f], checked'[f])
      BY <2>3, <2>6
    <3>3. f > g => checked'[f] = <<>>
      BY <1>1, <2>1, <2>6
    <3> QED
      BY <3>1, <3>2, <3>3
  <2> QED
    BY <1>2, <2>4, <2>5, <2>7 DEF CheckInv
<1>6. CASE c.ctrls = <<>> /\ fn = Len(Funcs) /\ phase' = "ready" /\ UNCHANGED <<fn, checked>>
  <2>1. AllChecked(fn, bodies[fn], checked[fn])
    BY <1>2, <1>6, ChecksEnd
  <2>2. \A f \in Local : f < fn \/ f = fn
    <3>1. \A f \in Local : f \in Nat /\ f <= Len(Funcs)
      BY NextLocal
    <3> HIDE DEF Local
    <3> QED
      BY <1>2, <1>6, <3>1
  <2>3. \A f \in Local : AllChecked(f, bodies[f], checked[f])
    <3> HIDE DEF Local, cs, c, i
    <3> QED
      BY <1>1, <2>1, <2>2
  <2>4. phase' = "ready" /\ checked' = checked
    BY <1>6
  <2> QED
    BY <1>1, <1>2, <2>3, <2>4 DEF CheckInv
<1> QED
  <2>1. \/ /\ c.ctrls # <<>> /\ Accepts(fn, c, i)
           /\ checked' = [checked EXCEPT ![fn] = Append(cs, Checked(fn, c, i))]
           /\ UNCHANGED <<phase, fn>>
        \/ phase' = "invalid" /\ UNCHANGED <<fn, checked>>
        \/ /\ c.ctrls = <<>> /\ fn < Len(Funcs) /\ fn' = fn + 1
           /\ checked' = [checked EXCEPT ![fn + 1] = <<NewChecker(fn + 1)>>]
           /\ UNCHANGED phase
        \/ c.ctrls = <<>> /\ fn = Len(Funcs) /\ phase' = "ready" /\ UNCHANGED <<fn, checked>>
    BY DEF Validate, Checker
  <2> QED
    BY <1>3, <1>4, <1>5, <1>6, <2>1

\* Running checks nothing.
LEMMA ChecksStay ==
  ASSUME CheckInv, Invoke \/ Execute \/ UNCHANGED vars
  PROVE  CheckInv'
<1>1. CASE UNCHANGED vars
  BY <1>1 DEF vars, codeVars, CheckInv
<1>2. CASE Invoke \/ Execute
  <2>1. /\ phase \notin {"decode", "malformed", "validate", "invalid"}
        /\ phase' \notin {"decode", "malformed", "validate", "invalid"}
        /\ bodies' = bodies /\ checked' = checked
    BY <1>2, RunSteps DEF codeVars
  <2> QED
    BY <2>1 DEF CheckInv
<1> QED
  BY <1>1, <1>2

\* The invariant of decoding and validating: every body is a properly nested
\* one whose targets the decoder has patched as far as its blocks have ended,
\* and the checkers of a body have the labels of the blocks open there.
THEOREM StructureInvariant == Spec => []StructInv
<1>1. Init => StructInv
  BY DecodeInit, CheckInit DEF StructInv
<1>2. StructInv /\ [Next]_vars => StructInv'
  <2> SUFFICES ASSUME StructInv, [Next]_vars
               PROVE  StructInv'
    OBVIOUS
  <2>1. DecodeInv /\ CheckInv
    BY DEF StructInv
  <2>2. CASE Decode
    BY <2>1, <2>2, DecodeKeepsBodies, DecodeKeepsChecks DEF StructInv
  <2>3. CASE Validate
    BY <2>1, <2>3, BodiesStay, ValidateKeepsChecks DEF StructInv
  <2>4. CASE Invoke \/ Execute \/ UNCHANGED vars
    BY <2>1, <2>4, BodiesStay, ChecksStay DEF StructInv
  <2> QED
    BY <2>2, <2>3, <2>4 DEF Next
<1> QED
  BY <1>1, <1>2, PTL DEF Spec

-----------------------------------------------------------------------------
(* Counting openers and ends.                                              *)

\* The positions before p that hold one of these operators.
Before(b, ops, p) == {q \in 1 .. p - 1 : b[q].op \in ops}

\* They are counted one by one.
LEMMA BeforeNext ==
  ASSUME NEW b, NEW ops, NEW p \in Nat \ {0}, IsFiniteSet(Before(b, ops, p))
  PROVE  /\ IsFiniteSet(Before(b, ops, p + 1))
         /\ Cardinality(Before(b, ops, p + 1)) =
              IF b[p].op \in ops THEN Cardinality(Before(b, ops, p)) + 1
              ELSE Cardinality(Before(b, ops, p))
<1>1. /\ (p + 1) - 1 = p /\ p \in 1..p /\ p \notin 1 .. p - 1
      /\ \A q \in 1..p : q \in 1 .. p - 1 \/ q = p
      /\ \A q \in 1 .. p - 1 : q \in 1..p
  OBVIOUS
<1>2. CASE b[p].op \in ops
  <2>1. Before(b, ops, p + 1) = Before(b, ops, p) \cup {p} /\ p \notin Before(b, ops, p)
    BY <1>1, <1>2 DEF Before
  <2> QED
    BY <1>2, <2>1, FS_AddElement
<1>3. CASE b[p].op \notin ops
  <2>1. Before(b, ops, p + 1) = Before(b, ops, p)
    BY <1>1, <1>3 DEF Before
  <2> QED
    BY <1>3, <2>1
<1> QED
  BY <1>2, <1>3

\* The nesting of each position, as openers and ends count it.
LEMMA NestingNext ==
  ASSUME NEW b, NEW p \in Nat \ {0}
  PROVE  /\ Nesting(b, 1) = 0 /\ Nesting(b, p) \in Int
         /\ Nesting(b, p + 1) = IF b[p].op \in Openers THEN Nesting(b, p) + 1
                                ELSE IF b[p].op = "end" THEN Nesting(b, p) - 1
                                ELSE Nesting(b, p)
<1>1. \A ops : IsFiniteSet(Before(b, ops, p))
  <2> TAKE ops
  <2>1. IsFiniteSet(1 .. p - 1)
    BY FS_Interval
  <2>2. Before(b, ops, p) \subseteq 1 .. p - 1
    BY DEF Before
  <2> QED
    BY <2>1, <2>2, FS_Subset
<1> DEFINE up   == Cardinality(Before(b, Openers, p))
           down == Cardinality(Before(b, {"end"}, p))
           up2   == Cardinality(Before(b, Openers, p + 1))
           down2 == Cardinality(Before(b, {"end"}, p + 1))
<1>2. up \in Nat /\ down \in Nat
  BY <1>1, FS_CardinalityType
<1>3. \A q : Nesting(b, q) =
               Cardinality(Before(b, Openers, q)) - Cardinality(Before(b, {"end"}, q))
  <2> TAKE q
  <2>1. {r \in 1 .. q - 1 : b[r].op = "end"} = Before(b, {"end"}, q)
    BY DEF Before
  <2>2. {r \in 1 .. q - 1 : b[r].op \in Openers} = Before(b, Openers, q)
    BY DEF Before
  <2> QED
    BY <2>1, <2>2 DEF Nesting
<1>4. Nesting(b, 1) = 0
  <2>1. \A ops : Before(b, ops, 1) = {}
    BY DEF Before
  <2>2. Cardinality({}) = 0
    BY FS_EmptySet
  <2> QED
    BY <1>3, <2>1, <2>2
<1>5. Nesting(b, p) = up - down /\ Nesting(b, p + 1) = up2 - down2
  BY <1>3
<1>6. /\ up2 = IF b[p].op \in Openers THEN up + 1 ELSE up
      /\ down2 = IF b[p].op \in {"end"} THEN down + 1 ELSE down
  BY <1>1, BeforeNext
<1>7. b[p].op \in Openers => b[p].op # "end"
  BY DEF Openers
<1> HIDE DEF up, down, up2, down2
<1>8. CASE b[p].op \in Openers
  BY <1>2, <1>4, <1>5, <1>6, <1>7, <1>8
<1>9. CASE b[p].op = "end"
  BY <1>2, <1>4, <1>5, <1>6, <1>7, <1>9
<1>10. CASE b[p].op \notin Openers \cup {"end"}
  BY <1>2, <1>4, <1>5, <1>6, <1>10
<1> QED
  BY <1>8, <1>9, <1>10

\* In a complete body it is the number of open blocks, until the body ends.
LEMMA NestingIsOpen ==
  ASSUME NEW b, BodyOk(b, <<>>, TRUE)
  PROVE  /\ \A p \in 1..Len(b) : Nesting(b, p) = Len(OpenAt(b)[p])
         /\ Nesting(b, Len(b) + 1) = 0 - 1
<1> DEFINE T == {n \in Nat : n + 1 <= Len(b) => Nesting(b, n + 1) = Len(OpenAt(b)[n + 1])}
<1>1. Len(b) \in Nat \ {0} /\ Len(b) \in Nat /\ b[Len(b)].op = "end"
      /\ OpenAt(b)[Len(b)] = <<>> /\ Len(<<>>) = 0
  <2>1. b \in Seq(Instructions) /\ b # <<>>
    BY DEF BodyOk
  <2> QED
    BY <2>1, CompleteBody, EmptySeq
<1>2. 0 \in T
  <2>1. Nesting(b, 1) = 0
    BY NestingNext
  <2>2. Len(OpenAt(b)[1]) = 0
    BY <1>1, OpenAtNext
  <2>3. 0 + 1 = 1
    OBVIOUS
  <2> QED
    BY <2>1, <2>2, <2>3
<1>3. ASSUME NEW n \in Nat, n \in T
      PROVE  n + 1 \in T
  <2> SUFFICES ASSUME (n + 1) + 1 <= Len(b)
               PROVE  Nesting(b, (n + 1) + 1) = Len(OpenAt(b)[(n + 1) + 1])
    OBVIOUS
  <2> DEFINE p == n + 1
             s == OpenAt(b)[p]
             z == OpenAt(b)[p + 1]
  <2>1. p \in Nat \ {0} /\ p \in 1..Len(b) /\ p # Len(b) /\ p \in 1 .. Len(b) + 1
        /\ n + 1 <= Len(b)
    BY <1>1
  <2>2. Nesting(b, p) = Len(s)
    BY <1>3, <2>1
  <2> HIDE DEF p, T
  <2>3. s \in Seq(1 .. p - 1) /\ Len(s) \in Nat /\ z = OpenNext(s, b[p], p)
    BY <1>1, <2>1, OpenBlocks, OpenAtNext
  <2>4. /\ Nesting(b, p) \in Int
        /\ Nesting(b, p + 1) = IF b[p].op \in Openers THEN Nesting(b, p) + 1
                               ELSE IF b[p].op = "end" THEN Nesting(b, p) - 1
                               ELSE Nesting(b, p)
    BY <2>1, NestingNext
  <2> HIDE DEF z, s
  <2>5. CASE b[p].op \in Openers
    <3>1. z = Append(s, p)
      BY <2>3, <2>5 DEF OpenNext
    <3>2. s \in Seq(Nat) /\ p \in Nat
      <4>1. 1 .. p - 1 \subseteq Nat
        BY <2>1
      <4> QED
        BY <2>1, <2>3, <4>1, SeqMonotonic
    <3>3. Len(z) = Len(s) + 1
      BY <3>1, <3>2, AppendOk
    <3> QED
      BY <2>2, <2>4, <2>5, <3>3 DEF p, z
  <2>6. CASE b[p].op \notin Openers /\ b[p].op = "end"
    <3>1. s # <<>>
      BY <2>1, <2>6, CompleteBody DEF s
    <3>2. z = Front(s)
      BY <2>3, <2>6, <3>1 DEF OpenNext
    <3>3. Len(z) = Len(s) - 1
      BY <2>3, <3>1, <3>2, FrontOk
    <3> QED
      BY <2>2, <2>4, <2>6, <3>3 DEF p, z
  <2>7. CASE b[p].op \notin Openers /\ b[p].op # "end"
    <3>1. z = s
      BY <2>3, <2>7 DEF OpenNext
    <3> QED
      BY <2>2, <2>4, <2>7, <3>1 DEF p, z
  <2> QED
    BY <2>5, <2>6, <2>7
<1> HIDE DEF T
<1>4. \A n \in Nat : n \in T
  BY <1>2, <1>3, NaturalsIn
<1>5. ASSUME NEW p \in 1..Len(b)
      PROVE  Nesting(b, p) = Len(OpenAt(b)[p])
  <2>1. p - 1 \in Nat /\ (p - 1) + 1 = p /\ p <= Len(b)
    OBVIOUS
  <2> QED
    BY <1>4, <2>1 DEF T
<1>6. Nesting(b, Len(b) + 1) = 0 - 1
  <2>1. Len(b) \in 1..Len(b)
    BY <1>1
  <2>2. Nesting(b, Len(b)) = 0
    BY <1>1, <1>5, <2>1
  <2>3. "end" \notin Openers
    BY DEF Openers
  <2> QED
    BY <1>1, <2>2, <2>3, NestingNext
<1> QED
  BY <1>5, <1>6

-----------------------------------------------------------------------------
(* Targets.                                                                *)

\* The block opened at p, m blocks deep, encloses all up to its place q.
Encloses(b, m, p, q) ==
  /\ m \in Nat /\ q \in p + 1 .. Len(b) /\ Len(OpenAt(b)[q]) = m + 1
  /\ \A r \in p + 1 .. q : m + 1 <= Len(OpenAt(b)[r]) /\ OpenAt(b)[r][m + 1] = p
  /\ b[q].op = "end" => Len(OpenAt(b)[q + 1]) = m

\* Inside a block it stays open up to its end, and closes there.
LEMMA InsideUntilEnd ==
  ASSUME NEW b, BodyOk(b, <<>>, TRUE), NEW p \in 1..Len(b), NEW q, Directly(b, p, q)
  PROVE  Encloses(b, Len(OpenAt(b)[p]), p, q)
<1> DEFINE m == Len(OpenAt(b)[p])
           s == OpenAt(b)[q]
<1>1. Len(b) \in Nat /\ q \in p + 1 .. Len(b)
  BY CompleteBody DEF Directly
<1>2. s # <<>> /\ Last(s) = p /\ m \in Nat /\ Len(s) = m + 1
  BY <1>1, DirectlyLast
<1>3. q \in 1 .. Len(b) + 1 /\ q \in 1..Len(b)
  BY <1>1
<1>4. NestedAt(OpenAt(b), b, q)
  BY <1>1, <1>3, Nested
<1>5. s[m + 1] = p /\ m + 1 \in 1..Len(s)
  BY <1>2 DEF Last
<1>6. \A r \in p + 1 .. q : m + 1 <= Len(OpenAt(b)[r]) /\ \A i \in 1 .. m + 1 : OpenAt(b)[r][i] = s[i]
  <2> HIDE DEF m
  <2> QED
    BY <1>4, <1>5 DEF NestedAt
<1>7. \A r \in p + 1 .. q : m + 1 <= Len(OpenAt(b)[r]) /\ OpenAt(b)[r][m + 1] = p
  <2> TAKE r \in p + 1 .. q
  <2>1. m + 1 \in 1 .. m + 1
    BY <1>2
  <2> HIDE DEF m
  <2> QED
    BY <1>5, <1>6, <2>1
<1>8. b[q].op = "end" => Len(OpenAt(b)[q + 1]) = m
  <2> SUFFICES ASSUME b[q].op = "end"
               PROVE  Len(OpenAt(b)[q + 1]) = m
    OBVIOUS
  <2>1. OpenAt(b)[q + 1] = Front(s)
    <3>1. "end" \notin Openers
      BY DEF Openers
    <3> QED
      BY <1>1, <1>2, <1>3, <3>1, OpenAtNext DEF OpenNext
  <2>2. s \in Seq(1 .. q - 1)
    BY <1>1, <1>3, OpenBlocks
  <2>3. Len(Front(s)) = Len(s) - 1
    BY <1>2, <2>2, FrontOk
  <2> HIDE DEF m, s
  <2> QED
    BY <1>2, <2>1, <2>3
<1> QED
  BY <1>1, <1>2, <1>7, <1>8 DEF Encloses

\* The end of a block is the matching one.
LEMMA EndOfBlock ==
  ASSUME NEW b, BodyOk(b, <<>>, TRUE), NEW p \in 1..Len(b), b[p].op \in Openers
  PROVE  /\ EndOf(b, p) = b[p].end - 1 /\ b[p].end = EndOf(b, p) + 1
         /\ Directly(b, p, EndOf(b, p)) /\ b[EndOf(b, p)].op = "end"
<1> DEFINE e == b[p].end - 1
           m == Len(OpenAt(b)[p])
           IsEnd(q) == /\ b[q].op = "end" /\ Nesting(b, q) = Nesting(b, p) + 1
                       /\ \A r \in p + 1 .. q - 1 : b[r].op = "end" => Nesting(b, r) # Nesting(b, p) + 1
<1>1. Len(b) \in Nat /\ b[p].end \in Nat \ {0} /\ Directly(b, p, e) /\ b[e].op = "end"
  BY CompleteBody DEF Closed
<1>2. /\ \A q \in 1..Len(b) : Nesting(b, q) = Len(OpenAt(b)[q])
      /\ Nesting(b, p) = m
  BY NestingIsOpen
<1>3. e + 1 = b[p].end
  BY <1>1
<1> HIDE DEF e, m
<1>4. /\ m \in Nat /\ e \in p + 1 .. Len(b) /\ Len(OpenAt(b)[e]) = m + 1
      /\ \A r \in p + 1 .. e : m + 1 <= Len(OpenAt(b)[r])
  <2>1. Encloses(b, m, p, e)
    BY <1>1, InsideUntilEnd DEF m
  <2> QED
    BY <2>1 DEF Encloses
<1>5. IsEnd(e)
  <2>1. e \in 1..Len(b) /\ \A r \in p + 1 .. e - 1 : r \in 1..Len(b) /\ r + 1 \in p + 1 .. e
    BY <1>1, <1>4
  <2>2. Nesting(b, e) = Nesting(b, p) + 1
    BY <1>2, <1>4, <2>1
  <2>3. ASSUME NEW r \in p + 1 .. e - 1, b[r].op = "end", Nesting(b, r) = Nesting(b, p) + 1
        PROVE  FALSE
    <3>1. Len(OpenAt(b)[r]) = m + 1 /\ r \in 1..Len(b) /\ r \in Nat \ {0}
      BY <1>2, <2>1, <2>3
    <3>2. r \in 1 .. Len(b) + 1
      BY <1>1, <3>1
    <3>3. OpenAt(b)[r] \in Seq(1 .. r - 1) /\ OpenAt(b)[r] # <<>>
      <4>1. Len(<<>>) = 0
        BY EmptySeq
      <4>2. OpenAt(b)[r] # <<>>
        BY <1>4, <3>1, <4>1
      <4> QED
        BY <1>1, <3>2, <4>2, OpenBlocks
    <3>4. OpenAt(b)[r + 1] = Front(OpenAt(b)[r])
      <4>1. "end" \notin Openers
        BY DEF Openers
      <4> QED
        BY <1>1, <2>3, <3>1, <3>3, <4>1, OpenAtNext DEF OpenNext
    <3>5. Len(OpenAt(b)[r + 1]) = Len(OpenAt(b)[r]) - 1
      BY <3>3, <3>4, FrontOk
    <3>6. m + 1 <= Len(OpenAt(b)[r + 1])
      BY <1>4, <2>1
    <3> QED
      BY <1>4, <3>1, <3>5, <3>6
  <2> QED
    BY <1>1, <2>2, <2>3
<1>6. ASSUME NEW q \in p + 1 .. Len(b), IsEnd(q)
      PROVE  q = e
  <2>1. CASE q < e
    <3>1. q \in p + 1 .. e - 1
      BY <1>4, <2>1
    <3> QED
      BY <1>5, <1>6, <3>1
  <2>2. CASE e < q
    <3>1. e \in p + 1 .. q - 1
      BY <1>4, <2>2
    <3> QED
      BY <1>5, <1>6, <3>1
  <2>3. q \in Int /\ e \in Int
    BY <1>4
  <2> QED
    BY <2>1, <2>2, <2>3
<1>7. EndOf(b, p) = CHOOSE q \in p + 1 .. Len(b) : IsEnd(q)
  BY DEF EndOf
<1> HIDE DEF IsEnd
<1>8. EndOf(b, p) = e
  BY <1>4, <1>5, <1>6, <1>7
<1> QED
  BY <1>1, <1>3, <1>8 DEF e

\* The elses the nesting gives an if are the one the decoder found.
LEMMA ElsesOfIf ==
  ASSUME NEW b, BodyOk(b, <<>>, TRUE), NEW p \in 1..Len(b), b[p].op = "if"
  PROVE  /\ Cardinality(ElsesOf(b, p)) <= 1
         /\ \A q \in ElsesOf(b, p) : b[p].else_ = q + 1 /\ b[q].end = b[p].end
         /\ ElsesOf(b, p) = {} => b[p].else_ = b[p].end
<1> DEFINE e == EndOf(b, p)
           m == Len(OpenAt(b)[p])
<1>1. /\ Len(b) \in Nat /\ b[p].end = e + 1 /\ Directly(b, p, e) /\ b[e].op = "end"
      /\ b[p].else_ = b[p].end \/ HasElse(b, p)
  BY CompleteBody, EndOfBlock DEF Openers
<1>2. /\ \A q \in 1..Len(b) : Nesting(b, q) = Len(OpenAt(b)[q])
      /\ Nesting(b, p) = m
  BY NestingIsOpen
<1> HIDE DEF e, m
<1>3. /\ m \in Nat /\ e \in p + 1 .. Len(b)
      /\ \A r \in p + 1 .. e : OpenAt(b)[r][m + 1] = p
      /\ Len(OpenAt(b)[e + 1]) = m
  <2>1. Encloses(b, m, p, e)
    BY <1>1, InsideUntilEnd DEF m
  <2> QED
    BY <1>1, <2>1 DEF Encloses
<1>4. ASSUME NEW q \in ElsesOf(b, p)
      PROVE  b[p].else_ = q + 1 /\ b[q].end = b[p].end
  <2>1. q \in p + 1 .. e - 1 /\ b[q].op = "else" /\ Nesting(b, q) = m + 1
    BY <1>2 DEF ElsesOf, e
  <2>2. q \in 1..Len(b) /\ q \in p + 1 .. e /\ q # e
    BY <1>1, <1>3, <2>1
  <2>3. Last(OpenAt(b)[q]) = p
    BY <1>2, <1>3, <2>1, <2>2 DEF Last
  <2>4. b[p].else_ = q + 1
    BY <2>1, <2>2, <2>3, CompleteBody
  <2>5. q + 1 # e + 1 /\ (q + 1) - 1 = q
    BY <1>3, <2>2
  <2>6. HasElse(b, p)
    BY <1>1, <2>4, <2>5
  <2>7. b[q].end = b[p].end
    BY <2>4, <2>5, <2>6 DEF HasElse
  <2> QED
    BY <2>4, <2>7
<1>5. Cardinality(ElsesOf(b, p)) <= 1
  <2> DEFINE x == b[p].else_ - 1
  <2>1. ElsesOf(b, p) \subseteq {x}
    <3>1. ASSUME NEW q \in ElsesOf(b, p)
          PROVE  q = x
      <4>1. q \in Int
        BY <1>3 DEF ElsesOf, e
      <4> QED
        BY <1>4, <4>1
    <3> QED
      BY <3>1
  <2> HIDE DEF x
  <2>2. IsFiniteSet({x}) /\ Cardinality({x}) = 1
    BY FS_Singleton
  <2> QED
    BY <2>1, <2>2, FS_Subset
<1>6. ASSUME ElsesOf(b, p) = {}
      PROVE  b[p].else_ = b[p].end
  <2> SUFFICES ASSUME HasElse(b, p)
               PROVE  FALSE
    BY <1>1
  <2> DEFINE q == b[p].else_ - 1
  <2>1. Directly(b, p, q) /\ b[q].op = "else"
    BY DEF HasElse
  <2> HIDE DEF q
  <2>2. /\ q \in p + 1 .. Len(b) /\ Len(OpenAt(b)[q]) = m + 1
        /\ \A r \in p + 1 .. q : m + 1 <= Len(OpenAt(b)[r])
    <3>1. Encloses(b, m, p, q)
      BY <2>1, InsideUntilEnd DEF m
    <3> QED
      BY <3>1 DEF Encloses
  <2>3. q < e
    <3>1. q # e
      BY <1>1, <2>1
    <3>2. ~ e < q
      <4> SUFFICES ASSUME e < q
                   PROVE  FALSE
        OBVIOUS
      <4>1. e + 1 \in p + 1 .. q
        BY <1>3, <2>2
      <4>2. m + 1 <= Len(OpenAt(b)[e + 1])
        BY <2>2, <4>1
      <4> QED
        BY <1>3, <4>2
    <3> QED
      BY <1>3, <2>2, <3>1, <3>2
  <2>4. q \in p + 1 .. e - 1 /\ q \in 1..Len(b)
    BY <1>3, <2>2, <2>3
  <2>5. Nesting(b, q) = Nesting(b, p) + 1
    BY <1>2, <2>2, <2>4
  <2>6. q \in ElsesOf(b, p)
    BY <2>1, <2>4, <2>5 DEF ElsesOf, e
  <2> QED
    BY <1>6, <2>6
<1> QED
  BY <1>4, <1>5, <1>6

\* The targets of the bodies decoded are those of the nesting.
LEMMA InvGivesTargets ==
  ASSUME DecodeInv
  PROVE  TargetsMatch
<1> SUFFICES ASSUME NEW f \in Local, phase \notin {"decode", "malformed"} \/ f < fn,
                    NEW p \in DOMAIN bodies[f], bodies[f][p].op \in Openers
             PROVE  LET b == bodies[f]
                        e == EndOf(b, p)
                    IN
                    /\ b[p].end = e + 1
                    /\ b[p].op = "if" =>
                         /\ Cardinality(ElsesOf(b, p)) <= 1
                         /\ \A q \in ElsesOf(b, p) : b[p].else_ = q + 1 /\ b[q].end = e + 1
                         /\ ElsesOf(b, p) = {} => b[p].else_ = e + 1
  BY DEF TargetsMatch
<1> DEFINE b == bodies[f]
<1>1. BodyOk(b, <<>>, TRUE)
  BY DEF DecodeInv
<1> HIDE DEF b
<1>2. p \in 1..Len(b) /\ b[p].op \in Openers
  <2>1. DOMAIN b = 1..Len(b)
    BY <1>1, LenProperties DEF BodyOk
  <2> QED
    BY <2>1 DEF b
<1>3. b[p].end = EndOf(b, p) + 1
  BY <1>1, <1>2, EndOfBlock
<1>4. b[p].op = "if" =>
        /\ Cardinality(ElsesOf(b, p)) <= 1
        /\ \A q \in ElsesOf(b, p) : b[p].else_ = q + 1 /\ b[q].end = b[p].end
        /\ ElsesOf(b, p) = {} => b[p].else_ = b[p].end
  BY <1>1, <1>2, ElsesOfIf
<1> QED
  BY <1>3, <1>4 DEF b

\* The checkers of a body have one label more than there are blocks open, and
\* none is left after its end.
LabelsRunOut(b, cs, p) ==
  /\ Len(cs[p].ctrls) = Nesting(b, p) + 1
  /\ (cs[p].ctrls = <<>>) = (p = Len(b) + 1)

\* What the invariant says of each checker gives just that.
LEMMA ChecksTerminate ==
  ASSUME NEW f, NEW b, BodyOk(b, <<>>, TRUE), NEW cs, ChecksOk(f, b, cs)
  PROVE  \A p \in 1..Len(cs) : LabelsRunOut(b, cs, p)
<1> SUFFICES ASSUME NEW p \in 1..Len(cs)
             PROVE  LabelsRunOut(b, cs, p)
  OBVIOUS
<1>1. Len(b) \in Nat /\ Len(cs) \in 1 .. Len(b) + 1 /\ Len(<<>>) = 0
  BY CompleteBody, EmptySeq DEF ChecksOk
<1>2. CASE p <= Len(b)
  <2>1. p \in 1..Len(b) /\ p \in 1 .. Len(b) + 1 /\ p # Len(b) + 1
    BY <1>1, <1>2
  <2>2. StateOk(f, b, cs, p)
    BY <1>2 DEF ChecksOk
  <2>3. Len(OpenAt(b)[p]) \in Nat
    BY <1>1, <2>1, OpenBlocks
  <2>4. Live(cs[p]) /\ Len(cs[p].ctrls) = Len(OpenAt(b)[p]) + 1
    BY <2>2, <2>3, StateIsLive
  <2>5. Nesting(b, p) = Len(OpenAt(b)[p])
    BY <2>1, NestingIsOpen
  <2>6. cs[p].ctrls # <<>>
    BY <2>4 DEF Live
  <2> QED
    BY <2>1, <2>4, <2>5, <2>6 DEF LabelsRunOut
<1>3. CASE ~ p <= Len(b)
  <2>1. p = Len(b) + 1
    BY <1>1, <1>3
  <2>2. cs[p] = [stack |-> FuncTypeOf(f).outs, ctrls |-> <<>>]
    BY <1>3 DEF ChecksOk
  <2>3. cs[p].ctrls = <<>>
    BY <2>2
  <2>4. Nesting(b, p) = 0 - 1
    BY <2>1, NestingIsOpen
  <2> QED
    BY <1>1, <2>1, <2>3, <2>4 DEF LabelsRunOut
<1> QED
  BY <1>2, <1>3

\* The invariant says it of every body of the module.
LEMMA InvGivesTermination ==
  ASSUME StructInv
  PROVE  BodiesTerminate
<1> SUFFICES ASSUME NEW f \in Local, NEW p \in DOMAIN checked[f]
             PROVE  /\ Len(checked[f][p].ctrls) = Nesting(bodies[f], p) + 1
                    /\ (checked[f][p].ctrls = <<>>) = (p = Len(bodies[f]) + 1)
  BY DEF BodiesTerminate
<1>1. f \in DOMAIN Funcs
  BY NextLocal
<1>2. checked[f] \in Seq(CheckerType) /\ DOMAIN checked[f] = 1..Len(checked[f])
  BY <1>1, LenProperties DEF StructInv, CheckInv
<1>3. checked[f] # <<>>
  <2>1. DOMAIN <<>> = {}
    OBVIOUS
  <2> QED
    BY <2>1
<1>4. phase \notin {"decode", "malformed"} /\ ChecksOk(f, bodies[f], checked[f])
  <2>1. CASE phase \in {"decode", "malformed"}
    BY <1>3, <2>1 DEF StructInv, CheckInv
  <2>2. CASE phase \in {"validate", "invalid"}
    <3>1. fn \in Nat /\ f \in Nat
      BY NextLocal DEF StructInv, DecodeInv
    <3>2. f < fn \/ f = fn \/ f > fn
      BY <3>1
    <3> HIDE DEF Local
    <3> QED
      BY <1>3, <2>2, <3>2 DEF StructInv, CheckInv, AllChecked
  <2>3. CASE phase \notin {"decode", "malformed", "validate", "invalid"}
    BY <2>3 DEF StructInv, CheckInv, AllChecked
  <2> QED
    BY <2>1, <2>2, <2>3
<1>5. BodyOk(bodies[f], <<>>, TRUE)
  BY <1>4 DEF StructInv, DecodeInv
<1> DEFINE cs == checked[f]
           b  == bodies[f]
<1>6. p \in 1..Len(cs) /\ ChecksOk(f, b, cs) /\ BodyOk(b, <<>>, TRUE)
  BY <1>2, <1>4, <1>5
<1> HIDE DEF cs, b
<1>7. LabelsRunOut(b, cs, p)
  BY <1>6, ChecksTerminate
<1> QED
  BY <1>7 DEF cs, b, LabelsRunOut

\* Decoded structure and validated structure are one, for every module and
\* bodies of any length: branch targets are those of the nesting, the checker
\* has the frames the nesting says, and runs out of them where the body ends.
THEOREM StructureIsOne == Spec => []StructureAgrees
<1>1. StructInv => StructureAgrees
  BY InvGivesTargets, InvGivesTermination DEF StructInv, StructureAgrees
<1> QED
  BY <1>1, StructureInvariant, PTL
=============================================================================
