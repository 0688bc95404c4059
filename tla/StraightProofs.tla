--------------------------- MODULE StraightProofs ---------------------------
(***************************************************************************)
(* The three tables of straight-line code agree, opcode by opcode: for     *)
(* every module, every stack and every immediate, what the validator       *)
(* accepts the interpreter can run, with the types the validator foresaw.  *)
(***************************************************************************)
EXTENDS StraightProps, SequenceTheorems, TLAPS

-----------------------------------------------------------------------------
(* Stacks and their tops.                                                  *)

\* What Top and the operands of a signature may be.
OpTypes == ValTypes \cup {"none"}

\* A reversed sequence has the same length, and its elements from the end.
LEMMA Reversed ==
  ASSUME NEW X, NEW s \in Seq(X)
  PROVE  /\ Reverse(s) \in Seq(X) /\ Len(Reverse(s)) = Len(s)
         /\ \A k \in 1..Len(s) : Reverse(s)[k] = s[Len(s) - k + 1]
  BY DEF Reverse

\* A suffix is what is on top.
LEMMA SuffixIsOnTop ==
  ASSUME NEW X, NEW s \in Seq(X), NEW t \in Seq(X)
  PROVE  IsSuffix(s, t) <=>
           /\ Len(s) <= Len(t)
           /\ \A k \in 1..Len(s) : t[Len(t) - Len(s) + k] = s[k]
<1> DEFINE rs == Reverse(s)
           rt == Reverse(t)
           n  == Len(s)
           m  == Len(t)
<1>1. /\ rs \in Seq(X) /\ rt \in Seq(X) /\ Len(rs) = n /\ Len(rt) = m
      /\ \A k \in 1..n : rs[k] = s[n - k + 1]
      /\ \A k \in 1..m : rt[k] = t[m - k + 1]
    BY Reversed
<1>2. n \in Nat /\ m \in Nat
    OBVIOUS
<1>3. IsSuffix(s, t) <=> n <= m /\ SubSeq(rs, 1, n) = SubSeq(rt, 1, n)
    BY <1>1 DEF IsSuffix, IsPrefix
<1> HIDE DEF rs, rt
<1>4. n <= m => (SubSeq(rs, 1, n) = SubSeq(rt, 1, n) <=> \A k \in 1..n : rs[k] = rt[k])
    <2> SUFFICES ASSUME n <= m
                 PROVE  SubSeq(rs, 1, n) = SubSeq(rt, 1, n) <=> \A k \in 1..n : rs[k] = rt[k]
        OBVIOUS
    <2>1. SubSeq(rs, 1, n) = [k \in 1..n |-> rs[k]] /\ SubSeq(rt, 1, n) = [k \in 1..n |-> rt[k]]
        BY <1>1, <1>2
    <2> QED
        BY <2>1
<1> HIDE DEF n, m
<1>5. n <= m => ((\A k \in 1..n : rs[k] = rt[k]) <=> \A k \in 1..n : s[n - k + 1] = t[m - k + 1])
    <2>1. ASSUME n <= m, NEW k \in 1..n PROVE rs[k] = s[n - k + 1] /\ rt[k] = t[m - k + 1]
        <3>1. k \in 1..m
            BY <1>2, <2>1
        <3> QED
            BY <1>1, <3>1
    <2> QED
        BY <2>1
<1>6. n <= m => ((\A k \in 1..n : s[n - k + 1] = t[m - k + 1]) <=> \A k \in 1..n : t[m - n + k] = s[k])
    <2> SUFFICES ASSUME n <= m
                 PROVE  (\A k \in 1..n : s[n - k + 1] = t[m - k + 1]) <=> \A k \in 1..n : t[m - n + k] = s[k]
        OBVIOUS
    <2>1. ASSUME \A k \in 1..n : s[n - k + 1] = t[m - k + 1], NEW k \in 1..n
          PROVE  t[m - n + k] = s[k]
        <3>1. n - k + 1 \in 1..n /\ n - (n - k + 1) + 1 = k /\ m - (n - k + 1) + 1 = m - n + k
            BY <1>2
        <3> QED
            BY <2>1, <3>1
    <2>2. ASSUME \A k \in 1..n : t[m - n + k] = s[k], NEW k \in 1..n
          PROVE  s[n - k + 1] = t[m - k + 1]
        <3>1. n - k + 1 \in 1..n /\ m - n + (n - k + 1) = m - k + 1
            BY <1>2
        <3> QED
            BY <2>2, <3>1
    <2> QED
        BY <2>1, <2>2
<1>7. IsSuffix(s, t) <=> n <= m /\ \A k \in 1..n : t[m - n + k] = s[k]
    BY <1>3, <1>4, <1>5, <1>6
<1> QED
    BY <1>7 DEF n, m

\* n operands of one demand.
LEMMA TimesIs ==
  ASSUME NEW n \in Nat, NEW ts \in SUBSET ValTypes
  PROVE  /\ Times(n, ts) \in Seq(SUBSET ValTypes) /\ Len(Times(n, ts)) = n
         /\ \A k \in 1..n : Times(n, ts)[k] = ts
<1>1. Times(n, ts) \in [1..n -> SUBSET ValTypes]
    BY DEF Times
<1> QED
    BY <1>1 DEF Times

\* One, two and three of them.
LEMMA FewTimes ==
  ASSUME NEW ts \in SUBSET ValTypes
  PROVE  /\ Times(1, ts) \in Seq(SUBSET ValTypes) /\ Len(Times(1, ts)) = 1 /\ Times(1, ts)[1] = ts
         /\ Times(2, ts) \in Seq(SUBSET ValTypes) /\ Len(Times(2, ts)) = 2
         /\ Times(2, ts)[1] = ts /\ Times(2, ts)[2] = ts
         /\ Times(3, ts) \in Seq(SUBSET ValTypes) /\ Len(Times(3, ts)) = 3
         /\ Times(3, ts)[1] = ts /\ Times(3, ts)[2] = ts /\ Times(3, ts)[3] = ts
<1>1. 1 \in Nat /\ 2 \in Nat /\ 3 \in Nat
    OBVIOUS
<1>2. 1 \in 1..1 /\ 1 \in 1..2 /\ 2 \in 1..2 /\ 1 \in 1..3 /\ 2 \in 1..3 /\ 3 \in 1..3
    OBVIOUS
<1>3. /\ Times(1, ts) \in Seq(SUBSET ValTypes) /\ Len(Times(1, ts)) = 1
      /\ \A k \in 1..1 : Times(1, ts)[k] = ts
    BY <1>1, TimesIs
<1>4. /\ Times(2, ts) \in Seq(SUBSET ValTypes) /\ Len(Times(2, ts)) = 2
      /\ \A k \in 1..2 : Times(2, ts)[k] = ts
    BY <1>1, TimesIs
<1>5. /\ Times(3, ts) \in Seq(SUBSET ValTypes) /\ Len(Times(3, ts)) = 3
      /\ \A k \in 1..3 : Times(3, ts)[k] = ts
    BY <1>1, TimesIs
<1> QED
    BY <1>2, <1>3, <1>4, <1>5

\* The operands of a signature are what is demanded, one type for each.
Covers(sig, d) ==
  /\ sig.ins \in Seq(OpTypes) /\ d \in Seq(SUBSET ValTypes)
  /\ Len(d) = Len(sig.ins)
  /\ \A k \in 1..Len(d) : sig.ins[k] \in ValTypes => sig.ins[k] \in d[k]

\* And no more than them.
Exactly(sig, d) ==
  /\ sig.ins \in Seq(ValTypes) /\ d \in Seq(SUBSET ValTypes)
  /\ Len(d) = Len(sig.ins)
  /\ \A k \in 1..Len(d) : d[k] = {sig.ins[k]}

\* Operands that match a signature meet the demands it covers.
LEMMA TypedMeets ==
  ASSUME NEW sig, NEW d, Covers(sig, d), NEW stack \in Seq(ValTypes), IsSuffix(sig.ins, stack)
  PROVE  Meets(stack, d)
<1> DEFINE ins == sig.ins
<1>1. ins \in Seq(OpTypes) /\ d \in Seq(SUBSET ValTypes) /\ Len(d) = Len(ins)
      /\ \A k \in 1..Len(d) : ins[k] \in ValTypes => ins[k] \in d[k]
    BY DEF Covers
<1>2. stack \in Seq(OpTypes) /\ IsSuffix(ins, stack)
    BY DEF OpTypes
<1> HIDE DEF ins
<1>3. Len(ins) <= Len(stack) /\ \A k \in 1..Len(ins) : stack[Len(stack) - Len(ins) + k] = ins[k]
    BY <1>1, <1>2, SuffixIsOnTop
<1>4. ASSUME NEW k \in 1..Len(d) PROVE stack[Len(stack) - Len(d) + k] \in d[k]
    <2>1. Len(stack) - Len(ins) + k \in 1..Len(stack)
        BY <1>1, <1>3
    <2>2. stack[Len(stack) - Len(ins) + k] \in ValTypes
        BY <2>1
    <2> QED
        BY <1>1, <1>3, <2>2
<1>5. DOMAIN d = 1..Len(d)
    BY <1>1
<1> QED
    BY <1>1, <1>3, <1>4, <1>5 DEF Meets

\* And if the demands are exact, also the other way round.
LEMMA MeetsTyped ==
  ASSUME NEW sig, NEW d, Exactly(sig, d), NEW stack \in Seq(ValTypes), Meets(stack, d)
  PROVE  IsSuffix(sig.ins, stack)
<1> DEFINE ins == sig.ins
<1>1. ins \in Seq(ValTypes) /\ d \in Seq(SUBSET ValTypes) /\ Len(d) = Len(ins)
      /\ \A k \in 1..Len(d) : d[k] = {ins[k]}
    BY DEF Exactly
<1> HIDE DEF ins
<1>2. Len(ins) <= Len(stack) /\ \A k \in 1..Len(d) : stack[Len(stack) - Len(d) + k] \in d[k]
    BY <1>1 DEF Meets
<1>3. \A k \in 1..Len(ins) : stack[Len(stack) - Len(ins) + k] = ins[k]
    BY <1>1, <1>2
<1>4. IsSuffix(ins, stack)
    BY <1>1, <1>2, <1>3, SuffixIsOnTop
<1> QED
    BY <1>4 DEF ins

\* Exact demands are covered.
LEMMA ExactlyCovers ==
  ASSUME NEW sig, NEW d, Exactly(sig, d)
  PROVE  Covers(sig, d)
  BY DEF Exactly, Covers, OpTypes

-----------------------------------------------------------------------------
(* Numbers.                                                                *)

SatOps == Sat(0)..Sat(7)

\* Signatures of one operand, two and three.
LEMMA OneOperand ==
  ASSUME NEW a \in ValTypes, NEW r
  PROVE  Exactly(Sig(<<a>>, <<r>>), Times(1, {a}))
<1> DEFINE d   == Times(1, {a})
           sig == Sig(<<a>>, <<r>>)
<1>1. {a} \in SUBSET ValTypes
    OBVIOUS
<1>2. d \in Seq(SUBSET ValTypes) /\ Len(d) = 1 /\ d[1] = {a}
    BY <1>1, FewTimes, Zenon
<1>3. sig.ins = <<a>>
    BY DEF Sig
<1> HIDE DEF d, sig
<1>4. sig.ins \in Seq(ValTypes) /\ Len(sig.ins) = 1 /\ sig.ins[1] = a
    BY <1>3
<1>5. Exactly(sig, d)
    BY <1>2, <1>4 DEF Exactly
<1> QED
    BY <1>5 DEF d, sig

\* Two operands, of any two types.
LEMMA TwoOperands ==
  ASSUME NEW a \in ValTypes, NEW b \in ValTypes, NEW r, NEW d,
         d \in Seq(SUBSET ValTypes), Len(d) = 2, d[1] = {a}, d[2] = {b}
  PROVE  Exactly(Sig(<<a, b>>, <<r>>), d)
<1> DEFINE sig == Sig(<<a, b>>, <<r>>)
<1>1. sig.ins = <<a, b>>
    BY DEF Sig
<1> HIDE DEF sig
<1>2. sig.ins \in Seq(ValTypes) /\ Len(sig.ins) = 2 /\ sig.ins[1] = a /\ sig.ins[2] = b
    BY <1>1
<1>3. Exactly(sig, d)
    BY <1>2 DEF Exactly
<1> QED
    BY <1>3 DEF sig

\* Three of one type.
LEMMA ThreeOperands ==
  ASSUME NEW a \in ValTypes, NEW r
  PROVE  Exactly(Sig(<<a, a, a>>, <<r>>), Times(3, {a}))
<1> DEFINE d   == Times(3, {a})
           sig == Sig(<<a, a, a>>, <<r>>)
<1>1. {a} \in SUBSET ValTypes
    OBVIOUS
<1>2. d \in Seq(SUBSET ValTypes) /\ Len(d) = 3 /\ d[1] = {a} /\ d[2] = {a} /\ d[3] = {a}
    BY <1>1, FewTimes, Zenon
<1>3. sig.ins = <<a, a, a>>
    BY DEF Sig
<1> HIDE DEF d, sig
<1>4. sig.ins \in Seq(ValTypes) /\ Len(sig.ins) = 3
      /\ sig.ins[1] = a /\ sig.ins[2] = a /\ sig.ins[3] = a
    BY <1>3
<1>5. Exactly(sig, d)
    BY <1>2, <1>4 DEF Exactly
<1> QED
    BY <1>5 DEF d, sig

\* num_step and num, on an operation of one operand and of two.
One(op, a, r) == NumSig(op) = Sig(<<a>>, <<r>>) /\ NumDemands(op) = Times(1, {a}) /\ NumPush(op) = r
Two(op, a, r) == NumSig(op) = Sig(<<a, a>>, <<r>>) /\ NumDemands(op) = Times(2, {a}) /\ NumPush(op) = r

NumAgrees(op) ==
  /\ Exactly(NumSig(op), NumDemands(op))
  /\ NumSig(op).out = <<NumPush(op)>> /\ NumPush(op) \in ValTypes

\* Operations of one operand agree.
LEMMA OneAgrees ==
  ASSUME NEW op, NEW a \in ValTypes, NEW r \in ValTypes, One(op, a, r)
  PROVE  NumAgrees(op)
<1>1. Sig(<<a>>, <<r>>).out = <<r>>
    BY DEF Sig
<1> QED
    BY <1>1, OneOperand DEF One, NumAgrees

\* And operations of two.
LEMMA TwoAgrees ==
  ASSUME NEW op, NEW a \in ValTypes, NEW r \in ValTypes, Two(op, a, r)
  PROVE  NumAgrees(op)
<1>1. Sig(<<a, a>>, <<r>>).out = <<r>>
    BY DEF Sig
<1>2. {a} \in SUBSET ValTypes
    OBVIOUS
<1>3. /\ Times(2, {a}) \in Seq(SUBSET ValTypes) /\ Len(Times(2, {a})) = 2
      /\ Times(2, {a})[1] = {a} /\ Times(2, {a})[2] = {a}
    BY <1>2, FewTimes, Zenon
<1> QED
    BY <1>1, <1>3, TwoOperands DEF Two, NumAgrees

\* The 136 operations of num_step and num agree, type by type.
LEMMA NumbersAgree ==
  ASSUME NEW op \in NumOps \cup SatOps
  PROVE  NumAgrees(op)
<1> USE DEF NumSig, NumDemands, NumPush, Sat, U32
<1>1. ASSUME op \in {\h45} \cup (\h67..\h69) \cup {\hc0, \hc1} PROVE One(op, "i32", "i32")
    BY <1>1 DEF One
<1>2. ASSUME op \in {\h50} \cup {\ha7} PROVE One(op, "i64", "i32")
    BY <1>2 DEF One
<1>3. ASSUME op \in (\h46..\h4f) \cup (\h6a..\h78) PROVE Two(op, "i32", "i32")
    BY <1>3 DEF Two
<1>4. ASSUME op \in \h51..\h5a PROVE Two(op, "i64", "i32")
    BY <1>4 DEF Two
<1>5. ASSUME op \in \h5b..\h60 PROVE Two(op, "f32", "i32")
    BY <1>5 DEF Two
<1>6. ASSUME op \in \h61..\h66 PROVE Two(op, "f64", "i32")
    BY <1>6 DEF Two
<1>7. ASSUME op \in (\h79..\h7b) \cup (\hc2..\hc4) PROVE One(op, "i64", "i64")
    BY <1>7 DEF One
<1>8. ASSUME op \in \h7c..\h8a PROVE Two(op, "i64", "i64")
    BY <1>8 DEF Two
<1>9. ASSUME op \in \h8b..\h91 PROVE One(op, "f32", "f32")
    BY <1>9 DEF One
<1>10. ASSUME op \in \h92..\h98 PROVE Two(op, "f32", "f32")
    BY <1>10 DEF Two
<1>11. ASSUME op \in \h99..\h9f PROVE One(op, "f64", "f64")
    BY <1>11 DEF One
<1>12. ASSUME op \in \ha0..\ha6 PROVE Two(op, "f64", "f64")
    BY <1>12 DEF Two
<1>13. ASSUME op \in {\ha8, \ha9, Sat(0), Sat(1), \hbc} PROVE One(op, "f32", "i32")
    BY <1>13 DEF One
<1>14. ASSUME op \in {\haa, \hab, Sat(2), Sat(3)} PROVE One(op, "f64", "i32")
    BY <1>14 DEF One
<1>15. ASSUME op \in {\hac, \had} PROVE One(op, "i32", "i64")
    BY <1>15 DEF One
<1>16. ASSUME op \in {\hae, \haf, Sat(4), Sat(5)} PROVE One(op, "f32", "i64")
    BY <1>16 DEF One
<1>17. ASSUME op \in {\hb0, \hb1, Sat(6), Sat(7), \hbd} PROVE One(op, "f64", "i64")
    BY <1>17 DEF One
<1>18. ASSUME op \in {\hb2, \hb3, \hbe} PROVE One(op, "i32", "f32")
    BY <1>18 DEF One
<1>19. ASSUME op \in {\hb4, \hb5} PROVE One(op, "i64", "f32")
    BY <1>19 DEF One
<1>20. ASSUME op \in {\hb6} PROVE One(op, "f64", "f32")
    BY <1>20 DEF One
<1>21. ASSUME op \in {\hb7, \hb8} PROVE One(op, "i32", "f64")
    BY <1>21 DEF One
<1>22. ASSUME op \in {\hb9, \hba, \hbf} PROVE One(op, "i64", "f64")
    BY <1>22 DEF One
<1>23. ASSUME op \in {\hbb} PROVE One(op, "f32", "f64")
    BY <1>23 DEF One
<1> USE DEF ValTypes
<1>24. \E a, r \in ValTypes : One(op, a, r) \/ Two(op, a, r)
    BY <1>1, <1>2, <1>3, <1>4, <1>5, <1>6, <1>7, <1>8, <1>9, <1>10, <1>11, <1>12, <1>13, <1>14, <1>15, <1>16, <1>17, <1>18, <1>19, <1>20, <1>21, <1>22, <1>23 DEF NumOps, SatOps
<1> QED
    BY <1>24, OneAgrees, TwoAgrees

-----------------------------------------------------------------------------
(* Vectors and their lanes.                                                *)

SimdPush(op) == IF op \in Reductions THEN "i32" ELSE "v128"

SimdAgrees(op) ==
  Exactly(SimdSig(op), SimdDemands(op)) /\ SimdSig(op).out = <<SimdPush(op)>>

\* A splat takes a number.
LEMMA SplatAgrees ==
  ASSUME NEW op \in SimdOps, NEW a \in ValTypes,
         SimdSig(op) = Sig(<<a>>, <<"v128">>), SimdDemands(op) = Times(1, {a}), op \notin Reductions
  PROVE  SimdAgrees(op)
<1>1. Sig(<<a>>, <<"v128">>).out = <<"v128">>
    BY DEF Sig
<1> QED
    BY <1>1, OneOperand DEF SimdAgrees, SimdPush

\* simd_step's list of operations of one vector is simd_op's: what neither
\* lists takes two vectors, and simd_op has it.
LEMMA VectorsAgree ==
  ASSUME NEW op \in SimdOps
  PROVE  SimdAgrees(op)
<1>1. CASE op \in {\h0f, \h10, \h11}
    <2>1. SimdSig(op) = Sig(<<"i32">>, <<"v128">>)
        BY <1>1 DEF SimdSig, SimdShifts, SimdOneOperand
    <2>2. SimdDemands(op) = Times(1, {"i32"}) /\ op \notin Reductions
        BY <1>1 DEF SimdDemands, Splats, SplatOf, Reductions
    <2> QED
        BY <2>1, <2>2, SplatAgrees DEF ValTypes
<1>2. CASE op = \h12
    <2>1. SimdSig(op) = Sig(<<"i64">>, <<"v128">>)
        BY <1>2 DEF SimdSig, SimdShifts, SimdOneOperand
    <2>2. SimdDemands(op) = Times(1, {"i64"}) /\ op \notin Reductions
        BY <1>2 DEF SimdDemands, Splats, SplatOf, Reductions
    <2> QED
        BY <2>1, <2>2, SplatAgrees DEF ValTypes
<1>3. CASE op = \h13
    <2>1. SimdSig(op) = Sig(<<"f32">>, <<"v128">>)
        BY <1>3 DEF SimdSig, SimdShifts, SimdOneOperand
    <2>2. SimdDemands(op) = Times(1, {"f32"}) /\ op \notin Reductions
        BY <1>3 DEF SimdDemands, Splats, SplatOf, Reductions
    <2> QED
        BY <2>1, <2>2, SplatAgrees DEF ValTypes
<1>4. CASE op = \h14
    <2>1. SimdSig(op) = Sig(<<"f64">>, <<"v128">>)
        BY <1>4 DEF SimdSig, SimdShifts, SimdOneOperand
    <2>2. SimdDemands(op) = Times(1, {"f64"}) /\ op \notin Reductions
        BY <1>4 DEF SimdDemands, Splats, SplatOf, Reductions
    <2> QED
        BY <2>1, <2>2, SplatAgrees DEF ValTypes
<1>5. CASE op \in Reductions
    <2>1. SimdSig(op) = Sig(<<"v128">>, <<"i32">>)
        BY <1>5 DEF SimdSig, SimdShifts, SimdOneOperand, Reductions
    <2>2. SimdDemands(op) = Times(1, {"v128"})
        BY <1>5 DEF SimdDemands, Splats, Reductions, V128
    <2>3. Sig(<<"v128">>, <<"i32">>).out = <<"i32">>
        BY DEF Sig
    <2> QED
        BY <1>5, <2>1, <2>2, <2>3, OneOperand DEF SimdAgrees, SimdPush, ValTypes
<1>6. CASE op = \h52
    <2>1. SimdSig(op) = Sig(<<"v128", "v128", "v128">>, <<"v128">>)
        BY <1>6 DEF SimdSig, SimdShifts, SimdOneOperand
    <2>2. SimdDemands(op) = Times(3, {"v128"}) /\ op \notin Reductions
        BY <1>6 DEF SimdDemands, Splats, Reductions, Unary, Shifts, V128
    <2>3. Exactly(Sig(<<"v128", "v128", "v128">>, <<"v128">>), Times(3, {"v128"}))
        BY ThreeOperands DEF ValTypes
    <2>4. Sig(<<"v128", "v128", "v128">>, <<"v128">>).out = <<"v128">>
        BY DEF Sig
    <2> QED
        BY <2>1, <2>2, <2>3, <2>4 DEF SimdAgrees, SimdPush
<1>7. CASE op \in SimdShifts
    <2>1. SimdSig(op) = Sig(<<"v128", "i32">>, <<"v128">>)
        BY <1>7 DEF SimdSig, SimdShifts, SimdOneOperand
    <2>2. SimdDemands(op) = <<V128, U32>> /\ op \notin Reductions
        BY <1>7 DEF SimdDemands, SimdShifts, Splats, Reductions, Unary, Shifts
    <2>3. Exactly(Sig(<<"v128", "i32">>, <<"v128">>), <<V128, U32>>)
        <3>1. <<V128, U32>> \in Seq(SUBSET ValTypes) /\ Len(<<V128, U32>>) = 2
              /\ <<V128, U32>>[1] = {"v128"} /\ <<V128, U32>>[2] = {"i32"}
            BY DEF ValTypes, V128, U32
        <3> QED
            BY <3>1, TwoOperands DEF ValTypes
    <2>4. Sig(<<"v128", "i32">>, <<"v128">>).out = <<"v128">>
        BY DEF Sig
    <2> QED
        BY <2>1, <2>2, <2>3, <2>4 DEF SimdAgrees, SimdPush
<1>8. CASE op \in SimdOneOperand
    <2>1. SimdSig(op) = Sig(<<"v128">>, <<"v128">>)
        BY <1>8 DEF SimdSig, SimdShifts, SimdOneOperand
    <2>2. SimdDemands(op) = Times(1, {"v128"}) /\ op \notin Reductions
        BY <1>8 DEF SimdDemands, SimdOneOperand, Splats, Reductions, Unary, V128
    <2>3. Sig(<<"v128">>, <<"v128">>).out = <<"v128">>
        BY DEF Sig
    <2> QED
        BY <2>1, <2>2, <2>3, OneOperand DEF SimdAgrees, SimdPush, ValTypes
<1>9. CASE op \notin (\h0f..\h14) \cup Reductions \cup {\h52} \cup SimdShifts \cup SimdOneOperand
    <2>1. SimdSig(op) = Sig(<<"v128", "v128">>, <<"v128">>)
        BY <1>9 DEF SimdSig, SimdOps, Reductions
    <2>2. SimdDemands(op) = Times(2, {"v128"})
        BY <1>9 DEF SimdDemands, SimdOps, Splats, Reductions, Shifts, SimdShifts, Unary, SimdOneOperand,
                    Binary, V128
    <2>3. {"v128"} \in SUBSET ValTypes
        BY DEF ValTypes
    <2>4. /\ Times(2, {"v128"}) \in Seq(SUBSET ValTypes) /\ Len(Times(2, {"v128"})) = 2
          /\ Times(2, {"v128"})[1] = {"v128"} /\ Times(2, {"v128"})[2] = {"v128"}
        BY <2>3, FewTimes, Zenon
    <2>5. Exactly(Sig(<<"v128", "v128">>, <<"v128">>), Times(2, {"v128"}))
        BY <2>4, TwoOperands DEF ValTypes
    <2>6. Sig(<<"v128", "v128">>, <<"v128">>).out = <<"v128">>
        BY DEF Sig
    <2> QED
        BY <1>9, <2>1, <2>2, <2>5, <2>6 DEF SimdAgrees, SimdPush
<1> QED
    BY <1>1, <1>2, <1>3, <1>4, <1>5, <1>6, <1>7, <1>8, <1>9 DEF SimdOps

\* A lane operation indexes the array of its shape: simd_lane and step.
LEMMA LanesAgree ==
  ASSUME NEW op \in SimdLaneOps
  PROVE  /\ LaneArray(op) = LaneShape(op)
         /\ LaneShape(op)[1] \in Nat /\ LaneShape(op)[2] \in ValTypes
         /\ op \in Inserts <=> op \in Replaces
<1>1. CASE op \in \h15..\h17
    BY <1>1 DEF LaneArray, LaneShape, ValTypes, Inserts, Replaces
<1>2. CASE op \in \h18..\h1a
    BY <1>2 DEF LaneArray, LaneShape, ValTypes, Inserts, Replaces
<1>3. CASE op \in {\h1b, \h1c}
    BY <1>3 DEF LaneArray, LaneShape, ValTypes, Inserts, Replaces
<1>4. CASE op \in {\h1d, \h1e}
    BY <1>4 DEF LaneArray, LaneShape, ValTypes, Inserts, Replaces
<1>5. CASE op \in {\h1f, \h20}
    BY <1>5 DEF LaneArray, LaneShape, ValTypes, Inserts, Replaces
<1>6. CASE op \in {\h21, \h22}
    BY <1>6 DEF LaneArray, LaneShape, ValTypes, Inserts, Replaces
<1> QED
    BY <1>1, <1>2, <1>3, <1>4, <1>5, <1>6 DEF SimdLaneOps

-----------------------------------------------------------------------------
(* The instructions the decoder makes.                                     *)

Kinds ==
  {"Drop", "Select", "SelectT", "LocalGet", "LocalSet", "LocalTee", "GlobalGet", "GlobalSet",
   "TableGet", "TableSet", "TableGrow", "TableSize", "TableFill", "TableInit", "TableCopy",
   "Load", "Store", "MemorySize", "MemoryGrow", "MemoryInit", "MemoryCopy", "MemoryFill",
   "DataDrop", "ElemDrop", "Const", "V128Const", "Num", "RefNull", "RefIsNull", "RefFunc",
   "Simd", "SimdLane", "SimdMem", "Shuffle"}

\* The operations of a kind.
OpsOf(kind) ==
  IF kind = "Num" THEN NumOps \cup SatOps ELSE
  IF kind = "Simd" THEN SimdOps ELSE
  IF kind = "SimdLane" THEN SimdLaneOps ELSE
  IF kind = "SimdMem" THEN SimdMemPlain \cup SimdMemLane ELSE
  IF kind = "Load" THEN \h28..\h35 ELSE
  IF kind = "Store" THEN \h36..\h3e ELSE
  IF kind = "Const" THEN \h41..\h44 ELSE Nat

Made(i) ==
  /\ i.kind \in Kinds /\ i.op \in OpsOf(i.kind)
  /\ i.x \in Nat /\ i.y \in Nat /\ i.align \in Nat /\ i.lane \in Nat
  /\ i.tys \in TypesOf(i.kind)
  /\ i.kind \in Accesses => i.align \in 0..31

\* An opcode that is not illegal stands for an operation of its kind.
LEMMA KindsOfCodes ==
  ASSUME NEW c \in Codes, KindOf(c[1], c[2]) # "illegal"
  PROVE  KindOf(c[1], c[2]) \in Kinds /\ OpOf(c[1], c[2]) \in OpsOf(KindOf(c[1], c[2]))
<1> DEFINE p == c[1]
           b == c[2]
<1>1. \/ p = 0 /\ b \in (\h1a..\hff) \ {\hfc, \hfd}
      \/ p = \hfc /\ b \in 0..18
      \/ p = \hfd /\ b \in 0..256
    BY DEF Codes
<1> HIDE DEF p, b
<1>2. CASE p = 0 /\ b \in (\h1a..\hff) \ {\hfc, \hfd}
    <2>1. KindOf(p, b) = PlainKind(b) /\ OpOf(p, b) = b
        BY <1>2 DEF KindOf, OpOf
    <2>2. PlainKind(b) = "illegal" \/ (PlainKind(b) \in Kinds /\ b \in OpsOf(PlainKind(b)))
        BY <1>2 DEF PlainKind, Kinds, OpsOf, NumOps
    <2> QED
        BY <2>1, <2>2 DEF p, b
<1>3. CASE p = \hfc /\ b \in 0..18
    <2>1. KindOf(p, b) = MiscKind(b)
        BY <1>3 DEF KindOf
    <2>2. CASE b \in 0..7
        <3>1. MiscKind(b) = "Num" /\ OpOf(p, b) \in SatOps
            BY <1>3, <2>2 DEF MiscKind, OpOf, SatOps, Sat
        <3> QED
            BY <2>1, <3>1 DEF p, b, Kinds, OpsOf
    <2>3. CASE b \in 8..17
        <3>1. MiscKind(b) \in Kinds \ {"Num", "Simd", "SimdLane", "SimdMem", "Load", "Store", "Const"}
            BY <2>3 DEF MiscKind, Kinds
        <3>2. OpOf(p, b) \in Nat
            BY <1>3, <2>3 DEF OpOf
        <3> QED
            BY <2>1, <3>1, <3>2 DEF p, b, OpsOf
    <2>4. CASE b = 18
        <3>1. MiscKind(b) = "illegal"
            BY <2>4 DEF MiscKind
        <3> QED
            BY <2>1, <3>1 DEF p, b
    <2> QED
        BY <1>3, <2>2, <2>3, <2>4
<1>4. CASE p = \hfd /\ b \in 0..256
    <2>1. KindOf(p, b) = SimdKind(b) /\ OpOf(p, b) = b
        BY <1>4 DEF KindOf, OpOf
    <2>2. \/ SimdKind(b) = "illegal"
          \/ SimdKind(b) = "SimdMem" /\ b \in SimdMemPlain \cup SimdMemLane
          \/ SimdKind(b) = "Simd" /\ b \in SimdOps
          \/ SimdKind(b) = "SimdLane" /\ b \in SimdLaneOps
          \/ SimdKind(b) \in {"V128Const", "Shuffle"}
        BY DEF SimdKind, SimdMemPlain, SimdMemLane, SimdLaneOps, SimdOps
    <2>3. b \in Nat
        BY <1>4
    <2> QED
        BY <2>1, <2>2, <2>3 DEF p, b, Kinds, OpsOf
<1> QED
    BY <1>1, <1>2, <1>3, <1>4

\* So the decoder makes an instruction of the kind.
LEMMA DecodedIsMade ==
  ASSUME NEW c \in Codes, KindOf(c[1], c[2]) # "illegal", NEW i \in InstrsAt(c), MemargOk(i)
  PROVE  Made(i) /\ i.op \in Nat
<1> DEFINE k == KindOf(c[1], c[2])
           o == OpOf(c[1], c[2])
<1>1. k \in Kinds /\ o \in OpsOf(k)
    BY KindsOfCodes
<1>2. i \in InstrsOf(k, o)
    BY DEF InstrsAt
<1> HIDE DEF k, o
<1>3. PICK x \in IF k \in OneIndex \cup TwoIndex THEN Indices ELSE {0},
           y \in IF k \in TwoIndex THEN Indices ELSE {0},
           a \in IF k \in Accesses THEN Aligns ELSE {0},
           l \in IF HasLane(k, o) THEN LaneBytes ELSE {0},
           ts \in TypesOf(k) :
             i = Instr(k, o, x, y, a, l, ts)
    BY <1>2 DEF InstrsOf
<1>4. x \in Nat /\ y \in Nat /\ a \in Nat /\ l \in Nat
    BY OpcodesAssumption
<1>5. i.kind = k /\ i.op = o /\ i.x = x /\ i.y = y /\ i.align = a /\ i.lane = l /\ i.tys = ts
    BY <1>3 DEF Instr
<1>6. o \in Nat
    BY <1>1 DEF OpsOf, NumOps, SatOps, Sat, SimdOps, SimdLaneOps, SimdMemPlain, SimdMemLane
<1>7. k \in Accesses => a \in 0..31
    BY <1>4, <1>5 DEF MemargOk
<1> QED
    BY <1>1, <1>3, <1>4, <1>5, <1>6, <1>7 DEF Made

-----------------------------------------------------------------------------
(* Accesses: validate.rs's tables of alignments and types against the      *)
(* widths and values in exec.rs and simd.rs.                               *)

\* Loads: the width and the value of mem_load are those of validate.rs.
LEMMA LoadsAgree ==
  ASSUME NEW i, i.kind = "Load", i.op \in \h28..\h35
  PROVE  /\ Width(i) = LoadShape(i.op)[1] /\ LoadPush(i.op) = LoadShape(i.op)[2]
         /\ LoadShape(i.op)[1] \in Nat /\ LoadShape(i.op)[2] \in ValTypes
<1> DEFINE op == i.op
<1>1. Width(i) = <<4, 8, 4, 8, 1, 1, 2, 2, 1, 1, 2, 2, 4, 4>>[op - \h27]
    BY DEF Width
<1>2. op \in \h28..\h35
    OBVIOUS
<1> HIDE DEF op
<1> DEFINE w == <<4, 8, 4, 8, 1, 1, 2, 2, 1, 1, 2, 2, 4, 4>>[op - \h27]
<1>3. w = LoadShape(op)[1] /\ LoadShape(op)[1] \in Nat
    BY <1>2 DEF LoadShape
<1>4. LoadPush(op) = LoadShape(op)[2] /\ LoadShape(op)[2] \in ValTypes
    BY <1>2 DEF LoadShape, LoadPush, ValTypes
<1> QED
    BY <1>1, <1>3, <1>4 DEF op

\* Stores: the width and the operand of mem_store.
LEMMA StoresAgree ==
  ASSUME NEW i, i.kind = "Store", i.op \in \h36..\h3e
  PROVE  /\ Width(i) = StoreShape(i.op)[1] /\ Stored(i.op) = StoreShape(i.op)[2]
         /\ StoreShape(i.op)[1] \in Nat /\ StoreShape(i.op)[2] \in ValTypes
<1> DEFINE op == i.op
<1>1. Width(i) = <<4, 8, 4, 8, 1, 2, 1, 2, 4>>[op - \h35]
    BY DEF Width
<1>2. op \in \h36..\h3e
    OBVIOUS
<1> HIDE DEF op
<1>3. /\ <<4, 8, 4, 8, 1, 2, 1, 2, 4>>[op - \h35] = StoreShape(op)[1]
      /\ Stored(op) = StoreShape(op)[2]
      /\ StoreShape(op)[1] \in Nat /\ StoreShape(op)[2] \in ValTypes
    BY <1>2 DEF StoreShape, Stored, ValTypes
<1> QED
    BY <1>1, <1>3 DEF op

\* Vector accesses: the width of simd_mem, and the lanes it makes of a vector.
LEMMA VectorAccessesAgree ==
  ASSUME NEW i, i.kind = "SimdMem", i.op \in SimdMemPlain \cup SimdMemLane
  PROVE  /\ Width(i) = SimdNatural(i.op) /\ SimdNatural(i.op) \in Nat
         /\ i.op \in SimdMemLane => SimdMemLanes(i.op) = 16 \div Width(i) /\ SimdMemLanes(i.op) > 0
         /\ i.op \notin SimdMemLane => ~ (SimdMemLanes(i.op) > 0)
<1> DEFINE op == i.op
<1>1. op \in (\h00..\h0b) \cup {\h5c, \h5d} \cup (\h54..\h5b)
    BY DEF SimdMemPlain, SimdMemLane
<1>2. op \in Int
    BY <1>1
<1>3. /\ op <= \h0b => Width(i) = <<16, 8, 8, 8, 8, 8, 8, 1, 2, 4, 8, 16>>[op + 1]
      /\ op > \h0b => Width(i) = <<1, 2, 4, 8, 1, 2, 4, 8, 4, 8>>[op - \h53]
    BY <1>2 DEF Width
<1> DEFINE w == Width(i)
<1> HIDE DEF op, w
<1>4. w = SimdNatural(op) /\ SimdNatural(op) \in Nat
    <2>1. CASE op \in \h00..\h0b
        <3>1. w = <<16, 8, 8, 8, 8, 8, 8, 1, 2, 4, 8, 16>>[op + 1]
            BY <1>3, <2>1 DEF w
        <3> QED
            BY <2>1, <3>1 DEF SimdNatural
    <2>2. CASE op \in \h54..\h5d
        <3>1. w = <<1, 2, 4, 8, 1, 2, 4, 8, 4, 8>>[op - \h53]
            BY <1>3, <2>2 DEF w
        <3> QED
            BY <2>2, <3>1 DEF SimdNatural
    <2> QED
        BY <1>1, <2>1, <2>2
<1>5. op \in SimdMemLane => SimdMemLanes(op) = 16 \div w /\ SimdMemLanes(op) > 0
    <2>1. CASE op \in {\h54, \h58}
        BY <1>4, <2>1 DEF SimdNatural, SimdMemLanes
    <2>2. CASE op \in {\h55, \h59}
        BY <1>4, <2>2 DEF SimdNatural, SimdMemLanes
    <2>3. CASE op \in {\h56, \h5a}
        BY <1>4, <2>3 DEF SimdNatural, SimdMemLanes
    <2>4. CASE op \in {\h57, \h5b}
        BY <1>4, <2>4 DEF SimdNatural, SimdMemLanes
    <2> QED
        BY <2>1, <2>2, <2>3, <2>4 DEF SimdMemLane
<1>6. op \notin SimdMemLane => ~ (SimdMemLanes(op) > 0)
    BY <1>1 DEF SimdMemLane, SimdMemLanes
<1> QED
    BY <1>4, <1>5, <1>6 DEF op, w

\* The natural alignment of an access is its width.
LEMMA NaturalIsWidth ==
  ASSUME NEW i, Made(i), i.kind \in Accesses
  PROVE  Natural(i) = Width(i) /\ Width(i) \in Nat
<1>1. CASE i.kind = "Load"
    BY <1>1, LoadsAgree DEF Natural, Made, OpsOf
<1>2. CASE i.kind = "Store"
    BY <1>2, StoresAgree DEF Natural, Made, OpsOf
<1>3. CASE i.kind = "SimdMem"
    BY <1>3, VectorAccessesAgree DEF Natural, Made, OpsOf
<1> QED
    BY <1>1, <1>2, <1>3 DEF Accesses

\* What the validator checks of the lanes is what is indexed.
LEMMA LanesIndexedAgree ==
  ASSUME NEW i, Made(i), NEW ms
  PROVE  /\ ContextOk(i, ms) /\ HasLane(i.kind, i.op) => i.lane < LanesIndexed(i)
         /\ i.kind \in {"SimdLane", "Shuffle", "SimdMem"} /\ (HasLane(i.kind, i.op) => i.lane < LanesIndexed(i))
            => /\ i.kind = "SimdMem" /\ SimdMemLanes(i.op) > 0 => i.lane < SimdMemLanes(i.op)
               /\ i.kind = "SimdLane" => i.lane < LaneShape(i.op)[1]
               /\ i.kind = "Shuffle" => i.lane < 32
<1>1. CASE i.kind = "SimdLane"
    <2>1. LanesIndexed(i) = LaneShape(i.op)[1]
        BY <1>1, LanesAgree DEF LanesIndexed, Made, OpsOf
    <2> QED
        BY <1>1, <2>1 DEF ContextOk, HasLane
<1>2. CASE i.kind = "Shuffle"
    <2>1. LanesIndexed(i) = 32
        BY <1>2 DEF LanesIndexed
    <2> QED
        BY <1>2, <2>1 DEF ContextOk, HasLane
<1>3. CASE i.kind = "SimdMem"
    <2>1. /\ i.op \in SimdMemLane => SimdMemLanes(i.op) = 16 \div Width(i) /\ SimdMemLanes(i.op) > 0
          /\ i.op \notin SimdMemLane => ~ (SimdMemLanes(i.op) > 0)
        BY <1>3, VectorAccessesAgree DEF Made, OpsOf
    <2>2. i.op \in SimdMemLane => LanesIndexed(i) = SimdMemLanes(i.op)
        BY <1>3, <2>1 DEF LanesIndexed
    <2> QED
        BY <1>3, <2>1, <2>2 DEF ContextOk, HasLane
<1>4. CASE i.kind \notin {"SimdLane", "Shuffle", "SimdMem"}
    BY <1>4 DEF HasLane
<1> QED
    BY <1>1, <1>2, <1>3, <1>4

-----------------------------------------------------------------------------
(* What an accepted instruction finds and leaves.                          *)

\* Every place holds values of its declared type.
SpacesFit ==
  /\ values \in Seq(ValTypes)
  /\ locals = Locals
  /\ globals \in Seq(ValTypes) /\ Len(globals) = Len(Globals)
  /\ tables \in Seq(SUBSET ValTypes) /\ Len(tables) = Len(Tables)
  /\ segs \in Seq(SUBSET ValTypes) /\ Len(segs) = Len(Elems)
  /\ SlotsKeepTypes

\* What is found is what was demanded, and what is pushed what was foreseen.
RunsAsTyped(i) ==
  /\ SigOf(i, values).out \in Seq(ValTypes)
  /\ Covers(SigOf(i, values), Demands(i))
  /\ \A out \in Pushes(i) : out = SigOf(i, values).out

\* Instructions of no operand, one, two and three: the type of each and what
\* is demanded of it, and what is pushed.
Runs0(i, o) ==
  SigOf(i, values) = Sig(<<>>, o) /\ Demands(i) = <<>> /\ \A out \in Pushes(i) : out = o
Runs1(i, t, D, o) ==
  SigOf(i, values) = Sig(<<t>>, o) /\ Demands(i) = <<D>> /\ \A out \in Pushes(i) : out = o
Runs2(i, t, D, u, E, o) ==
  SigOf(i, values) = Sig(<<t, u>>, o) /\ Demands(i) = <<D, E>> /\ \A out \in Pushes(i) : out = o
Runs3(i, t, D, u, E, v, F, o) ==
  SigOf(i, values) = Sig(<<t, u, v>>, o) /\ Demands(i) = <<D, E, F>> /\ \A out \in Pushes(i) : out = o

\* No operand.
LEMMA Takes0 ==
  ASSUME NEW i, NEW o \in Seq(ValTypes), Runs0(i, o)
  PROVE  RunsAsTyped(i)
<1> DEFINE s == Sig(<<>>, o)
           d == <<>>
<1>1. s.ins = <<>> /\ s.out = o
    BY DEF Sig
<1> HIDE DEF s
<1>2. Covers(s, d)
    BY <1>1 DEF Covers
<1> QED
    BY <1>1, <1>2 DEF Runs0, RunsAsTyped, s

\* One operand that is among what is demanded.
LEMMA Takes1 ==
  ASSUME NEW i, NEW t \in OpTypes, NEW o \in Seq(ValTypes),
         NEW D \in SUBSET ValTypes,
         t \in ValTypes => t \in D,
         Runs1(i, t, D, o)
  PROVE  RunsAsTyped(i)
<1> DEFINE s == Sig(<<t>>, o)
           d == <<D>>
<1>1. s.ins = <<t>> /\ s.out = o
    BY DEF Sig
<1>2. d \in Seq(SUBSET ValTypes) /\ Len(d) = 1 /\ d[1] = D
    OBVIOUS
<1>3. SigOf(i, values) = s /\ Demands(i) = d /\ \A out \in Pushes(i) : out = o
    BY DEF Runs1
<1> HIDE DEF s, d
<1>4. s.ins \in Seq(OpTypes) /\ Len(s.ins) = 1 /\ s.ins[1] = t
    BY <1>1
<1>5. Covers(s, d)
    BY <1>2, <1>4 DEF Covers
<1> QED
    BY <1>1, <1>3, <1>5 DEF RunsAsTyped

\* Two.
LEMMA Takes2 ==
  ASSUME NEW i, NEW t \in OpTypes, NEW u \in OpTypes, NEW o \in Seq(ValTypes),
         NEW D \in SUBSET ValTypes, NEW E \in SUBSET ValTypes,
         t \in ValTypes => t \in D, u \in ValTypes => u \in E,
         Runs2(i, t, D, u, E, o)
  PROVE  RunsAsTyped(i)
<1> DEFINE s == Sig(<<t, u>>, o)
           d == <<D, E>>
<1>1. s.ins = <<t, u>> /\ s.out = o
    BY DEF Sig
<1>2. d \in Seq(SUBSET ValTypes) /\ Len(d) = 2 /\ d[1] = D /\ d[2] = E
    OBVIOUS
<1>3. SigOf(i, values) = s /\ Demands(i) = d /\ \A out \in Pushes(i) : out = o
    BY DEF Runs2
<1> HIDE DEF s, d
<1>4. s.ins \in Seq(OpTypes) /\ Len(s.ins) = 2 /\ s.ins[1] = t /\ s.ins[2] = u
    BY <1>1
<1>5. Covers(s, d)
    BY <1>2, <1>4 DEF Covers
<1> QED
    BY <1>1, <1>3, <1>5 DEF RunsAsTyped

\* Three.
LEMMA Takes3 ==
  ASSUME NEW i, NEW t \in OpTypes, NEW u \in OpTypes, NEW v \in OpTypes, NEW o \in Seq(ValTypes),
         NEW D \in SUBSET ValTypes, NEW E \in SUBSET ValTypes, NEW F \in SUBSET ValTypes,
         t \in ValTypes => t \in D, u \in ValTypes => u \in E, v \in ValTypes => v \in F,
         Runs3(i, t, D, u, E, v, F, o)
  PROVE  RunsAsTyped(i)
<1> DEFINE s == Sig(<<t, u, v>>, o)
           d == <<D, E, F>>
<1>1. s.ins = <<t, u, v>> /\ s.out = o
    BY DEF Sig
<1>2. d \in Seq(SUBSET ValTypes) /\ Len(d) = 3 /\ d[1] = D /\ d[2] = E /\ d[3] = F
    OBVIOUS
<1>3. SigOf(i, values) = s /\ Demands(i) = d /\ \A out \in Pushes(i) : out = o
    BY DEF Runs3
<1> HIDE DEF s, d
<1>4. s.ins \in Seq(OpTypes) /\ Len(s.ins) = 3 /\ s.ins[1] = t /\ s.ins[2] = u /\ s.ins[3] = v
    BY <1>1
<1>5. Covers(s, d)
    BY <1>2, <1>4 DEF Covers
<1> QED
    BY <1>1, <1>3, <1>5 DEF RunsAsTyped

\* Operands and demands of one kind, as tuples.
LEMMA FewTuples ==
  /\ I32s(3) = <<"i32", "i32", "i32">> /\ Times(3, U32) = <<U32, U32, U32>>
  /\ Times(1, U32) = <<U32>> /\ Times(2, V128) = <<V128, V128>>
  BY DEF I32s, Times

\* The kinds of sets of types.
LEMMA TypeSets ==
  /\ AnyType = ValTypes /\ U32 \in SUBSET ValTypes /\ V128 \in SUBSET ValTypes /\ ValTypes \in SUBSET ValTypes
  /\ ValTypes \subseteq OpTypes /\ "i32" \in ValTypes /\ "i32" \in U32 /\ "v128" \in ValTypes
  /\ "v128" \in V128 /\ "funcref" \in ValTypes /\ <<"i32">> \in Seq(ValTypes) /\ <<"v128">> \in Seq(ValTypes)
  /\ <<>> \in Seq(ValTypes) /\ RefTypes \subseteq ValTypes
  /\ "i32" \in OpTypes
  BY DEF AnyType, U32, V128, OpTypes, ValTypes, RefTypes

\* What is declared is a type.
LEMMA DeclaredTypes ==
  /\ \A n \in Nat : Within(n, Locals) => At(Locals, n) \in ValTypes
  /\ \A n \in Nat : Within(n, Globals) => At(Globals, n).val \in ValTypes
  /\ \A n \in Nat : Within(n, Tables) => At(Tables, n) \in RefTypes
  /\ \A n \in Nat : Within(n, Elems) => At(Elems, n) \in RefTypes
<1>1. \A n \in Nat : Within(n, Locals) => At(Locals, n) \in ValTypes
    BY OpcodesAssumption DEF Within, At
<1>2. ASSUME NEW n \in Nat, Within(n, Globals) PROVE At(Globals, n).val \in ValTypes
    <2>1. Globals \in Seq([val : ValTypes, mutable : BOOLEAN])
        BY OpcodesAssumption
    <2>2. n + 1 \in 1..Len(Globals)
        BY <1>2, <2>1 DEF Within
    <2> DEFINE g == Globals[n + 1]
    <2>3. g \in [val : ValTypes, mutable : BOOLEAN]
        BY <2>1, <2>2, ElementOfSeq
    <2> HIDE DEF g
    <2>4. g.val \in ValTypes
        BY <2>3
    <2> QED
        BY <2>4 DEF At, g
<1>3. \A n \in Nat : Within(n, Tables) => At(Tables, n) \in RefTypes
    BY OpcodesAssumption DEF Within, At
<1>4. \A n \in Nat : Within(n, Elems) => At(Elems, n) \in RefTypes
    BY OpcodesAssumption DEF Within, At
<1> QED
    BY <1>1, <1>2, <1>3, <1>4

\* What a global holds and what a table may hold.
LEMMA SlotsHold ==
  ASSUME SpacesFit
  PROVE  /\ \A n \in Nat : Within(n, Globals) => At(globals, n) = At(Globals, n).val
         /\ \A n \in Nat : Within(n, Tables) => At(tables, n) \subseteq {At(Tables, n)}
         /\ \A n \in Nat : Within(n, Elems) => At(segs, n) \subseteq {At(Elems, n)}
<1>1. DOMAIN globals = 1..Len(Globals) /\ DOMAIN tables = 1..Len(Tables) /\ DOMAIN segs = 1..Len(Elems)
    BY DEF SpacesFit
<1>2. Len(Globals) \in Nat /\ Len(Tables) \in Nat /\ Len(Elems) \in Nat
    BY OpcodesAssumption
<1>3. ASSUME NEW n \in Nat, Within(n, Globals) PROVE At(globals, n) = At(Globals, n).val
    <2>1. n + 1 \in DOMAIN globals
        BY <1>1, <1>2, <1>3 DEF Within
    <2> QED
        BY <2>1 DEF SpacesFit, SlotsKeepTypes, At
<1>4. ASSUME NEW n \in Nat, Within(n, Tables) PROVE At(tables, n) \subseteq {At(Tables, n)}
    <2>1. n + 1 \in DOMAIN tables
        BY <1>1, <1>2, <1>4 DEF Within
    <2> QED
        BY <2>1 DEF SpacesFit, SlotsKeepTypes, At
<1>5. ASSUME NEW n \in Nat, Within(n, Elems) PROVE At(segs, n) \subseteq {At(Elems, n)}
    <2>1. n + 1 \in DOMAIN segs
        BY <1>1, <1>2, <1>5 DEF Within
    <2> QED
        BY <2>1 DEF SpacesFit, SlotsKeepTypes, At
<1> QED
    BY <1>3, <1>4, <1>5

-----------------------------------------------------------------------------
(* Numbers, vectors and accesses: the demands are exact on every stack.    *)

Computing == {"Num", "Simd", "SimdLane", "Shuffle"} \cup Accesses

RunsExactly(i, stack) ==
  /\ Exactly(SigOf(i, stack), Demands(i))
  /\ SigOf(i, stack).out \in Seq(ValTypes)
  /\ \A out \in Pushes(i) : out = SigOf(i, stack).out

\* From the signature and the demands, for one operand and for two.
LEMMA ExactOne ==
  ASSUME NEW i, NEW stack, NEW a \in ValTypes, NEW o \in Seq(ValTypes), SigOf(i, stack) = Sig(<<a>>, o),
         Demands(i) = <<{a}>>,
         \A out \in Pushes(i) : out = o
  PROVE  RunsExactly(i, stack)
<1> DEFINE s == Sig(<<a>>, o)
           d == <<{a}>>
<1>1. s.ins = <<a>> /\ s.out = o
    BY DEF Sig
<1>2. d \in Seq(SUBSET ValTypes) /\ Len(d) = 1 /\ d[1] = {a}
    OBVIOUS
<1>3. Demands(i) = d
    OBVIOUS
<1> HIDE DEF s, d
<1>4. s.ins \in Seq(ValTypes) /\ Len(s.ins) = 1 /\ s.ins[1] = a
    BY <1>1
<1>5. Exactly(s, d)
    BY <1>2, <1>4 DEF Exactly
<1> QED
    BY <1>3, <1>1, <1>5 DEF RunsExactly, s

\* Two operands, each the only type demanded.
LEMMA ExactTwo ==
  ASSUME NEW i, NEW stack, NEW a \in ValTypes, NEW b \in ValTypes, NEW o \in Seq(ValTypes),
         SigOf(i, stack) = Sig(<<a, b>>, o),
         Demands(i) = <<{a}, {b}>>,
         \A out \in Pushes(i) : out = o
  PROVE  RunsExactly(i, stack)
<1> DEFINE s == Sig(<<a, b>>, o)
           d == <<{a}, {b}>>
<1>1. s.ins = <<a, b>> /\ s.out = o
    BY DEF Sig
<1>2. d \in Seq(SUBSET ValTypes) /\ Len(d) = 2 /\ d[1] = {a} /\ d[2] = {b}
    OBVIOUS
<1>3. Demands(i) = d
    OBVIOUS
<1> HIDE DEF s, d
<1>4. s.ins \in Seq(ValTypes) /\ Len(s.ins) = 2 /\ s.ins[1] = a /\ s.ins[2] = b
    BY <1>1
<1>5. Exactly(s, d)
    BY <1>2, <1>4 DEF Exactly
<1> QED
    BY <1>3, <1>1, <1>5 DEF RunsExactly, s

\* A number instruction runs exactly as it is typed.
LEMMA NumRuns ==
  ASSUME NEW i, Made(i), i.kind = "Num", NEW stack
  PROVE  RunsExactly(i, stack)
<1>1. SigOf(i, stack) = NumSig(i.op) /\ Demands(i) = NumDemands(i.op) /\ Pushes(i) = {<<NumPush(i.op)>>}
    BY DEF SigOf, Demands, Pushes, VariableKinds, TableKinds, TwoIndex, ZeroByte
<1>2. NumAgrees(i.op)
    BY NumbersAgree DEF Made, OpsOf
<1>3. NumSig(i.op).out = <<NumPush(i.op)>> /\ NumPush(i.op) \in ValTypes
    BY <1>2 DEF NumAgrees
<1>4. <<NumPush(i.op)>> \in Seq(ValTypes)
    BY <1>3
<1> QED
    BY <1>1, <1>2, <1>3, <1>4 DEF RunsExactly, NumAgrees

\* An operation on vectors.
LEMMA SimdRuns ==
  ASSUME NEW i, Made(i), i.kind = "Simd", NEW stack
  PROVE  RunsExactly(i, stack)
<1>1. SigOf(i, stack) = SimdSig(i.op) /\ Demands(i) = SimdDemands(i.op) /\ Pushes(i) = {<<SimdPush(i.op)>>}
    BY DEF SigOf, VectorSig, Demands, Pushes, VariableKinds, TableKinds, TwoIndex, ZeroByte, SimdPush
<1>2. SimdAgrees(i.op)
    BY VectorsAgree DEF Made, OpsOf
<1>3. SimdPush(i.op) \in ValTypes
    BY DEF SimdPush, ValTypes
<1>4. <<SimdPush(i.op)>> \in Seq(ValTypes)
    BY <1>3
<1> QED
    BY <1>1, <1>2, <1>4 DEF RunsExactly, SimdAgrees

\* An operation on a lane: extract and replace.
LEMMA LaneRuns ==
  ASSUME NEW i, Made(i), i.kind = "SimdLane", NEW stack
  PROVE  RunsExactly(i, stack)
<1> DEFINE t == LaneShape(i.op)[2]
<1>1. i.op \in SimdLaneOps
    BY DEF Made, OpsOf
<1>2. /\ LaneArray(i.op)[2] = t /\ t \in ValTypes
      /\ i.op \in Inserts <=> i.op \in Replaces
    BY <1>1, LanesAgree
<1>3. "v128" \in ValTypes
    BY DEF ValTypes
<1> HIDE DEF t
<1>4. CASE i.op \in Replaces
    <2>1. SigOf(i, stack) = Sig(<<"v128", t>>, <<"v128">>)
        BY <1>4 DEF SigOf, VectorSig, VariableKinds, TableKinds, TwoIndex, ZeroByte, t
    <2>2. Demands(i) = <<{"v128"}, {t}>>
        BY <1>2, <1>4 DEF Demands, TwoIndex, V128
    <2>3. Pushes(i) = {<<"v128">>}
        BY <1>2, <1>4 DEF Pushes
    <2>4. <<"v128">> \in Seq(ValTypes)
        BY <1>3
    <2> QED
        BY <1>2, <1>3, <2>1, <2>2, <2>3, <2>4, ExactTwo
<1>5. CASE i.op \notin Replaces
    <2>1. SigOf(i, stack) = Sig(<<"v128">>, <<t>>)
        BY <1>5 DEF SigOf, VectorSig, VariableKinds, TableKinds, TwoIndex, ZeroByte, t
    <2>2. Demands(i) = <<{"v128"}>>
        BY <1>2, <1>5 DEF Demands, TwoIndex, V128
    <2>3. Pushes(i) = {<<t>>}
        BY <1>2, <1>5 DEF Pushes
    <2>4. <<t>> \in Seq(ValTypes)
        BY <1>2
    <2> QED
        BY <1>2, <1>3, <2>1, <2>2, <2>3, <2>4, ExactOne
<1> QED
    BY <1>4, <1>5

\* A shuffle.
LEMMA ShuffleRuns ==
  ASSUME NEW i, Made(i), i.kind = "Shuffle", NEW stack
  PROVE  RunsExactly(i, stack)
<1>1. SigOf(i, stack) = Sig(<<"v128", "v128">>, <<"v128">>)
    BY DEF SigOf, VectorSig, VariableKinds, TableKinds, TwoIndex, ZeroByte
<1>2. Demands(i) = <<{"v128"}, {"v128"}>>
    BY FewTuples DEF Demands, TwoIndex, V128
<1>3. Pushes(i) = {<<"v128">>}
    BY DEF Pushes
<1> QED
    BY <1>1, <1>2, <1>3, TypeSets, ExactTwo

\* A load.
LEMMA LoadRuns ==
  ASSUME NEW i, Made(i), i.kind = "Load", NEW stack
  PROVE  RunsExactly(i, stack)
<1> DEFINE t == LoadShape(i.op)[2]
<1>1. LoadPush(i.op) = t /\ t \in ValTypes
    BY LoadsAgree DEF Made, OpsOf
<1>2. SigOf(i, stack) = Sig(<<"i32">>, <<t>>)
    BY DEF SigOf, MemorySig, VariableKinds, TableKinds, TwoIndex, ZeroByte
<1> HIDE DEF t
<1>3. Demands(i) = <<{"i32"}>>
    BY DEF Demands, TwoIndex, U32
<1>4. Pushes(i) = {<<t>>}
    BY <1>1 DEF Pushes
<1>5. <<t>> \in Seq(ValTypes)
    BY <1>1
<1> QED
    BY <1>1, <1>2, <1>3, <1>4, <1>5, TypeSets, ExactOne

\* A store.
LEMMA StoreRuns ==
  ASSUME NEW i, Made(i), i.kind = "Store", NEW stack
  PROVE  RunsExactly(i, stack)
<1> DEFINE t == StoreShape(i.op)[2]
<1>1. Stored(i.op) = t /\ t \in ValTypes
    BY StoresAgree DEF Made, OpsOf
<1>2. SigOf(i, stack) = Sig(<<"i32", t>>, <<>>)
    BY DEF SigOf, MemorySig, VariableKinds, TableKinds, TwoIndex, ZeroByte
<1> HIDE DEF t
<1>3. Demands(i) = <<{"i32"}, {t}>>
    BY <1>1 DEF Demands, TwoIndex, U32
<1>4. Pushes(i) = {<<>>}
    BY DEF Pushes
<1> QED
    BY <1>1, <1>2, <1>3, <1>4, TypeSets, ExactTwo

\* A vector load or store, of all lanes or one.
LEMMA SimdMemRuns ==
  ASSUME NEW i, Made(i), i.kind = "SimdMem", NEW stack
  PROVE  RunsExactly(i, stack)
<1> DEFINE o == i.op
<1>1. o \in SimdMemPlain \cup SimdMemLane
    BY DEF Made, OpsOf
<1>2. Demands(i) = SimdMemDemands(o)
    BY DEF Demands, TwoIndex
<1>3. Pushes(i) = {IF o \in {\h0b} \cup (\h58..\h5b) THEN <<>> ELSE <<"v128">>}
    BY DEF Pushes
<1>4. SigOf(i, stack) = VectorSig(i)
    BY DEF SigOf, VariableKinds, TableKinds, TwoIndex, ZeroByte
<1>6. CASE o \in {\h0b} \cup (\h58..\h5b)
    <2>1. VectorSig(i) = Sig(<<"i32", "v128">>, <<>>)
        BY <1>6 DEF VectorSig
    <2>2. SimdMemDemands(o) = <<{"i32"}, {"v128"}>>
        BY <1>6 DEF SimdMemDemands, U32, V128
    <2> QED
        BY <1>2, <1>3, <1>4, <1>6, <2>1, <2>2, TypeSets, ExactTwo
<1>7. CASE o \in \h54..\h57
    <2>1. VectorSig(i) = Sig(<<"i32", "v128">>, <<"v128">>)
        BY <1>7 DEF VectorSig
    <2>2. SimdMemDemands(o) = <<{"i32"}, {"v128"}>>
        BY <1>7 DEF SimdMemDemands, U32, V128
    <2>3. Pushes(i) = {<<"v128">>}
        BY <1>3, <1>7
    <2> QED
        BY <1>2, <1>4, <2>1, <2>2, <2>3, TypeSets, ExactTwo
<1>8. CASE o \notin {\h0b} \cup (\h54..\h5b)
    <2>1. VectorSig(i) = Sig(<<"i32">>, <<"v128">>)
        BY <1>1, <1>8 DEF VectorSig, SimdMemPlain, SimdMemLane
    <2>2. SimdMemDemands(o) = <<{"i32"}>>
        BY <1>8, FewTuples DEF SimdMemDemands, U32, V128
    <2>3. Pushes(i) = {<<"v128">>}
        BY <1>1, <1>3, <1>8 DEF SimdMemPlain, SimdMemLane
    <2> QED
        BY <1>2, <1>4, <2>1, <2>2, <2>3, TypeSets, ExactOne
<1> QED
    BY <1>1, <1>6, <1>7, <1>8 DEF SimdMemPlain, SimdMemLane

\* All of them.
LEMMA ComputingRuns ==
  ASSUME NEW i, Made(i), i.kind \in Computing, NEW stack
  PROVE  RunsExactly(i, stack)
  BY NumRuns, SimdRuns, LaneRuns, ShuffleRuns, LoadRuns, StoreRuns, SimdMemRuns DEF Computing, Accesses

-----------------------------------------------------------------------------
(* The other instructions, on a stack the validator accepted.              *)

\* The operands of one, two and three types, topmost last.
LEMMA OperandsTyped ==
  ASSUME NEW i, SpacesFit, Typed(i, values), NEW t \in OpTypes, NEW o
  PROVE  /\ SigOf(i, values) = Sig(<<t>>, o) => t \in ValTypes /\ Operand(1) = t
         /\ \A u \in OpTypes, v \in OpTypes :
              SigOf(i, values) = Sig(<<t, u, v>>, o) =>
                t \in ValTypes /\ u \in ValTypes /\ Operand(3) = t /\ Operand(2) = u
<1>1. values \in Seq(OpTypes) /\ values \in Seq(ValTypes) /\ IsSuffix(SigOf(i, values).ins, values)
    BY DEF SpacesFit, OpTypes, Typed
<1>2. ASSUME SigOf(i, values) = Sig(<<t>>, o) PROVE t \in ValTypes /\ Operand(1) = t
    <2> DEFINE s == <<t>>
    <2>1. SigOf(i, values).ins = s
        BY <1>2 DEF Sig
    <2>2. s \in Seq(OpTypes) /\ Len(s) = 1 /\ s[1] = t
        OBVIOUS
    <2> HIDE DEF s
    <2>3. Len(s) <= Len(values) /\ \A k \in 1..Len(s) : values[Len(values) - Len(s) + k] = s[k]
        BY <1>1, <2>1, <2>2, SuffixIsOnTop
    <2>4. Len(values) \in 1..Len(values) /\ values[Len(values) - 1 + 1] = t
        BY <1>1, <2>2, <2>3
    <2> QED
        BY <1>1, <2>4 DEF Operand
<1>3. ASSUME NEW u \in OpTypes, NEW v \in OpTypes, SigOf(i, values) = Sig(<<t, u, v>>, o)
      PROVE  t \in ValTypes /\ u \in ValTypes /\ Operand(3) = t /\ Operand(2) = u
    <2> DEFINE s == <<t, u, v>>
    <2>1. SigOf(i, values).ins = s
        BY <1>3 DEF Sig
    <2>2. s \in Seq(OpTypes) /\ Len(s) = 3 /\ s[1] = t /\ s[2] = u
        OBVIOUS
    <2> HIDE DEF s
    <2>3. Len(s) <= Len(values) /\ \A k \in 1..Len(s) : values[Len(values) - Len(s) + k] = s[k]
        BY <1>1, <2>1, <2>2, SuffixIsOnTop
    <2>4. Len(values) \in Nat /\ Len(values) >= 3
        BY <1>1, <2>2, <2>3
    <2>5. Len(values) - 3 + 1 \in 1..Len(values) /\ Len(values) - 3 + 2 \in 1..Len(values)
        BY <2>4
    <2>6. values[Len(values) - 3 + 1] = t /\ values[Len(values) - 3 + 2] = u
        BY <2>2, <2>3
    <2>7. Len(values) - 3 + 2 = Len(values) - 2 + 1
        BY <2>4
    <2> QED
        BY <1>1, <2>5, <2>6, <2>7 DEF Operand
<1> QED
    BY <1>2, <1>3

\* Locals and globals: what is pushed is of the declared type.
LEMMA VariablesRun ==
  ASSUME NEW i, SpacesFit, Made(i), i.kind \in VariableKinds, ContextOk(i, mems), Typed(i, values)
  PROVE  RunsAsTyped(i)
<1> USE DEF VariableKinds, TableKinds, TwoIndex, ZeroByte, SigOf, VariableSig, Demands, Pushes, Runs0, Runs1
<1>1. i.x \in Nat
    BY DEF Made
<1>2. CASE i.kind \in {"LocalGet", "LocalSet", "LocalTee"}
    <2> DEFINE t == At(Locals, i.x)
    <2>1. t \in ValTypes /\ At(locals, i.x) = t
        BY <1>1, <1>2, DeclaredTypes DEF ContextOk, SpacesFit
    <2>2. <<t>> \in Seq(ValTypes) /\ t \in OpTypes
        BY <2>1, TypeSets
    <2>3. CASE i.kind = "LocalGet"
        <3>1. Runs0(i, <<t>>)
            BY <2>1, <2>3
        <3> HIDE DEF t, Runs0
        <3> QED
            BY <2>2, <3>1, Takes0
    <2>4. CASE i.kind = "LocalSet"
        <3>1. Runs1(i, t, AnyType, <<>>)
            BY <2>4
        <3> HIDE DEF t, Runs1
        <3> QED
            BY <2>2, <3>1, TypeSets, Takes1
    <2>5. CASE i.kind = "LocalTee"
        <3>1. SigOf(i, values) = Sig(<<t>>, <<t>>)
            BY <2>5
        <3>2. Operand(1) = t
            BY <2>2, <3>1, OperandsTyped
        <3>3. Runs1(i, t, AnyType, <<t>>)
            BY <2>5, <3>2
        <3> HIDE DEF t, Runs1
        <3> QED
            BY <2>2, <3>3, TypeSets, Takes1
    <2> QED
        BY <1>2, <2>3, <2>4, <2>5
<1>3. CASE i.kind \in {"GlobalGet", "GlobalSet"}
    <2> DEFINE t == At(Globals, i.x).val
    <2>1. t \in ValTypes /\ At(globals, i.x) = t
        BY <1>1, <1>3, DeclaredTypes, SlotsHold DEF ContextOk
    <2>2. <<t>> \in Seq(ValTypes) /\ t \in OpTypes
        BY <2>1, TypeSets
    <2>3. CASE i.kind = "GlobalGet"
        <3>1. Runs0(i, <<t>>)
            BY <2>1, <2>3
        <3> HIDE DEF t, Runs0
        <3> QED
            BY <2>2, <3>1, Takes0
    <2>4. CASE i.kind = "GlobalSet"
        <3>1. Runs1(i, t, AnyType, <<>>)
            BY <2>4
        <3> HIDE DEF t, Runs1
        <3> QED
            BY <2>2, <3>1, TypeSets, Takes1
    <2> QED
        BY <1>3, <2>3, <2>4
<1> QED
    BY <1>2, <1>3

\* Tables: what is pushed is of the element type.
LEMMA TablesRun ==
  ASSUME NEW i, SpacesFit, Made(i), i.kind \in TableKinds, ContextOk(i, mems), Typed(i, values)
  PROVE  RunsAsTyped(i)
<1> DEFINE t == At(Tables, i.x)
<1>1. i.x \in Nat /\ Within(i.x, Tables)
    BY DEF Made, ContextOk
<1>2. t \in ValTypes /\ t \in OpTypes /\ At(tables, i.x) \subseteq {t}
    BY <1>1, DeclaredTypes, SlotsHold, TypeSets
<1>3. <<t>> \in Seq(ValTypes)
    BY <1>2
<1>4. SigOf(i, values) = TableSig(i)
    BY DEF SigOf, TableKinds, VariableKinds, TwoIndex, ZeroByte
<1>5. CASE i.kind = "TableGet"
    <2>1. Runs1(i, "i32", U32, <<t>>)
        BY <1>2, <1>4, <1>5 DEF TableSig, Demands, Pushes, TwoIndex, Runs1
    <2> HIDE DEF t
    <2> QED
        BY <1>3, <2>1, TypeSets, Takes1
<1>6. CASE i.kind = "TableSet"
    <2>1. Runs2(i, "i32", U32, t, AnyType, <<>>)
        BY <1>4, <1>6 DEF TableSig, Demands, Pushes, TwoIndex, Runs2
    <2> HIDE DEF t
    <2> QED
        BY <1>2, <2>1, TypeSets, Takes2
<1>7. CASE i.kind = "TableGrow"
    <2>1. Runs2(i, t, AnyType, "i32", U32, <<"i32">>)
        BY <1>4, <1>7 DEF TableSig, Demands, Pushes, TwoIndex, Runs2
    <2> HIDE DEF t
    <2> QED
        BY <1>2, <2>1, TypeSets, Takes2
<1>8. CASE i.kind = "TableSize"
    <2>1. Runs0(i, <<"i32">>)
        BY <1>4, <1>8 DEF TableSig, Demands, Pushes, TwoIndex, Runs0
    <2> QED
        BY <2>1, TypeSets, Takes0
<1>9. CASE i.kind = "TableFill"
    <2>1. Runs3(i, "i32", U32, t, AnyType, "i32", U32, <<>>)
        BY <1>4, <1>9 DEF TableSig, Demands, Pushes, TwoIndex, Runs3
    <2> HIDE DEF t
    <2> QED
        BY <1>2, <2>1, TypeSets, Takes3
<1>10. CASE i.kind \in TwoIndex
    <2>1. Runs3(i, "i32", U32, "i32", U32, "i32", U32, <<>>)
        BY <1>4, <1>10, FewTuples DEF TableSig, Demands, Pushes, TwoIndex, Runs3
    <2> QED
        BY <2>1, TypeSets, Takes3
<1> QED
    BY <1>5, <1>6, <1>7, <1>8, <1>9, <1>10 DEF TableKinds

\* Whole memories, and segments dropped.
LEMMA MemoriesRun ==
  ASSUME NEW i, Made(i), i.kind \in ZeroByte \cup {"ElemDrop", "DataDrop"}
  PROVE  RunsAsTyped(i)
<1> USE DEF SigOf, MemorySig, Demands, Pushes, TwoIndex, VariableKinds, TableKinds, ZeroByte
<1>1. CASE i.kind \in {"ElemDrop", "DataDrop"}
    <2>1. Runs0(i, <<>>)
        BY <1>1 DEF Runs0
    <2> QED
        BY <2>1, TypeSets, Takes0
<1>2. CASE i.kind = "MemorySize"
    <2>1. Runs0(i, <<"i32">>)
        BY <1>2 DEF Runs0
    <2> QED
        BY <2>1, TypeSets, Takes0
<1>3. CASE i.kind = "MemoryGrow"
    <2>1. Runs1(i, "i32", U32, <<"i32">>)
        BY <1>3 DEF Runs1
    <2> QED
        BY <2>1, TypeSets, Takes1
<1>4. CASE i.kind \in {"MemoryInit", "MemoryCopy", "MemoryFill"}
    <2>1. Runs3(i, "i32", U32, "i32", U32, "i32", U32, <<>>)
        BY <1>4, FewTuples DEF Runs3
    <2> QED
        BY <2>1, TypeSets, Takes3
<1> QED
    BY <1>1, <1>2, <1>3, <1>4

\* Constants, nulls and references.
LEMMA ConstantsRun ==
  ASSUME NEW i, Made(i), i.kind \in {"Const", "V128Const", "RefNull", "RefFunc"}
  PROVE  RunsAsTyped(i)
<1> USE DEF SigOf, Demands, Pushes, TwoIndex, VariableKinds, TableKinds, ZeroByte, Runs0
<1>1. CASE i.kind = "Const"
    <2> DEFINE t == ConstTypes[i.op - \h40]
    <2>1. Runs0(i, <<t>>)
        BY <1>1 DEF ConstTypes
    <2>2. i.op \in \h41..\h44
        BY <1>1 DEF Made, OpsOf
    <2>3. t \in ValTypes
        BY <2>2 DEF ConstTypes, ValTypes
    <2> HIDE DEF t, Runs0
    <2>4. <<t>> \in Seq(ValTypes)
        BY <2>3
    <2> QED
        BY <2>1, <2>4, Takes0
<1>2. CASE i.kind = "V128Const"
    <2>1. Runs0(i, <<"v128">>)
        BY <1>2
    <2> HIDE DEF Runs0
    <2> QED
        BY <2>1, TypeSets, Takes0
<1>3. CASE i.kind = "RefNull"
    <2>1. Runs0(i, i.tys)
        BY <1>3
    <2>2. i.tys \in {<<t>> : t \in RefTypes}
        BY <1>3 DEF Made, TypesOf
    <2>3. PICK t \in RefTypes : i.tys = <<t>>
        BY <2>2
    <2>4. t \in ValTypes
        BY TypeSets
    <2>5. i.tys \in Seq(ValTypes)
        BY <2>3, <2>4
    <2> HIDE DEF Runs0
    <2> QED
        BY <2>1, <2>5, Takes0
<1>4. CASE i.kind = "RefFunc"
    <2>1. Runs0(i, <<"funcref">>)
        BY <1>4
    <2>2. <<"funcref">> \in Seq(ValTypes)
        BY TypeSets
    <2> HIDE DEF Runs0
    <2> QED
        BY <2>1, <2>2, Takes0
<1> QED
    BY <1>1, <1>2, <1>3, <1>4

\* Drop, select and ref.is_null: the types are those found on the stack.
LEMMA ParametricRuns ==
  ASSUME NEW i, SpacesFit, Made(i), i.kind \in {"Drop", "RefIsNull", "Select", "SelectT"},
         ContextOk(i, mems), Typed(i, values)
  PROVE  RunsAsTyped(i)
<1> USE DEF SigOf, Demands, Pushes, TwoIndex, VariableKinds, TableKinds, ZeroByte
<1>1. ASSUME NEW n \in Nat PROVE Top(values, n) \in OpTypes
    <2>1. values \in Seq(ValTypes)
        BY DEF SpacesFit
    <2>2. n < Len(values) => values[Len(values) - n] \in ValTypes
        BY <2>1
    <2> QED
        BY <2>2 DEF Top, OpTypes
<1>2. "none" \in OpTypes /\ "none" \notin ValTypes
    BY DEF OpTypes, ValTypes, RefTypes
<1>3. CASE i.kind = "Drop"
    <2> DEFINE t == Top(values, 0)
    <2>1. Runs1(i, t, AnyType, <<>>)
        BY <1>3 DEF Runs1
    <2>2. t \in OpTypes
        BY <1>1
    <2> HIDE DEF t
    <2> QED
        BY <2>1, <2>2, TypeSets, Takes1
<1>4. CASE i.kind = "RefIsNull"
    <2> DEFINE t == Top(values, 0)
    <2>1. CASE t \in RefTypes
        <3>1. Runs1(i, t, AnyType, <<"i32">>)
            BY <1>4, <2>1 DEF Runs1, IsNullSig
        <3> HIDE DEF t
        <3> QED
            BY <2>1, <3>1, TypeSets, Takes1
    <2>2. CASE t \notin RefTypes
        <3>1. SigOf(i, values) = Sig(<<"none">>, <<>>)
            BY <1>4, <2>2 DEF IsNullSig
        <3> HIDE DEF SigOf
        <3> QED
            BY <1>2, <3>1, OperandsTyped
    <2> QED
        BY <2>1, <2>2
<1>5. CASE i.kind = "Select"
    <2> DEFINE t == Top(values, 1)
    <2>1. CASE t \in RefTypes
        <3>1. SigOf(i, values) = Sig(<<"none">>, <<>>)
            BY <1>5, <2>1 DEF SelectSig
        <3> HIDE DEF SigOf
        <3> QED
            BY <1>2, <3>1, OperandsTyped
    <2>2. CASE t \notin RefTypes
        <3>1. SigOf(i, values) = Sig(<<t, t, "i32">>, <<t>>)
            BY <1>5, <2>2 DEF SelectSig
        <3>2. t \in OpTypes
            BY <1>1
        <3>3. t \in ValTypes /\ Operand(3) = t /\ Operand(2) = t
            <4> HIDE DEF SigOf, t
            <4> QED
                BY <3>1, <3>2, TypeSets, OperandsTyped
        <3>4. Runs3(i, t, AnyType, t, AnyType, "i32", U32, <<t>>)
            <4>1. Demands(i) = <<AnyType, AnyType, U32>> /\ Pushes(i) = {<<Operand(2)>>, <<Operand(3)>>}
                BY <1>5
            <4> HIDE DEF SigOf, Demands, Pushes, t
            <4> QED
                BY <3>1, <3>3, <4>1 DEF Runs3
        <3> HIDE DEF t
        <3>5. <<t>> \in Seq(ValTypes)
            BY <3>3
        <3> QED
            BY <3>2, <3>4, <3>5, TypeSets, Takes3
    <2> QED
        BY <2>1, <2>2
<1>6. CASE i.kind = "SelectT"
    <2> DEFINE t == i.tys[1]
    <2>1. SigOf(i, values) = Sig(<<t, t, "i32">>, i.tys) /\ Demands(i) = <<AnyType, AnyType, U32>>
          /\ Pushes(i) = {<<Operand(2)>>, <<Operand(3)>>}
        BY <1>6
    <2>2. i.tys \in {<<>>} \cup {<<u>> : u \in ValTypes} \cup {<<"i32", "i32">>} /\ Len(i.tys) = 1
        BY <1>6 DEF Made, TypesOf, ContextOk
    <2>3. i.tys = <<t>> /\ t \in ValTypes
        BY <2>2
    <2> HIDE DEF t, SigOf, Demands, Pushes
    <2>4. t \in OpTypes /\ <<t>> \in Seq(ValTypes)
        BY <2>3, TypeSets
    <2>5. Operand(3) = t /\ Operand(2) = t
        BY <2>1, <2>4, TypeSets, OperandsTyped
    <2>6. Runs3(i, t, AnyType, t, AnyType, "i32", U32, <<t>>)
        BY <2>1, <2>3, <2>5 DEF Runs3
    <2> QED
        BY <2>4, <2>6, TypeSets, Takes3
<1> QED
    BY <1>3, <1>4, <1>5, <1>6

\* Whatever the validator accepts runs as it was typed.
LEMMA AcceptedRuns ==
  ASSUME NEW i, SpacesFit, Made(i), Accepted(i, values, mems)
  PROVE  RunsAsTyped(i)
<1>1. ContextOk(i, mems) /\ Typed(i, values)
    BY DEF Accepted
<1>2. CASE i.kind \in Computing
    BY <1>2, ComputingRuns, ExactlyCovers DEF RunsExactly, RunsAsTyped
<1>3. CASE i.kind \notin Computing
    BY <1>1, <1>3, VariablesRun, TablesRun, MemoriesRun, ConstantsRun, ParametricRuns
       DEF Made, Kinds, Computing, Accesses, VariableKinds, TableKinds, TwoIndex, ZeroByte
<1> QED
    BY <1>2, <1>3

-----------------------------------------------------------------------------
(* No accepted instruction panics, and none was refused in vain.           *)

\* What the validator checks of the module is what is indexed unchecked.
LEMMA ContextIsPresent ==
  ASSUME NEW i, SpacesFit, Made(i), ContextOk(i, mems)
  PROVE  Present(i)
<1>1. locals = Locals /\ Len(globals) = Len(Globals) /\ Len(tables) = Len(Tables) /\ Len(segs) = Len(Elems)
    BY DEF SpacesFit
<1>2. HasLane(i.kind, i.op) => i.lane < LanesIndexed(i)
    BY LanesIndexedAgree
<1> QED
    BY <1>1, <1>2 DEF ContextOk, Present, Within

\* What is accepted finds its operands, indices and lanes.
LEMMA AcceptedNeverPanics ==
  ASSUME NEW i, SpacesFit, Made(i), Accepted(i, values, mems)
  PROVE  ~ Panics(i, values)
<1>1. ContextOk(i, mems) /\ IsSuffix(SigOf(i, values).ins, values)
    BY DEF Accepted, Typed
<1>2. Covers(SigOf(i, values), Demands(i)) /\ values \in Seq(ValTypes)
    BY AcceptedRuns DEF RunsAsTyped, SpacesFit
<1>3. Meets(values, Demands(i))
    BY <1>1, <1>2, TypedMeets
<1> QED
    BY <1>1, <1>3, ContextIsPresent DEF Panics

\* A computation that finds its operands is typed.
LEMMA ComputingTyped ==
  ASSUME NEW i, SpacesFit, Made(i), i.kind \in Computing, ~ Panics(i, values)
  PROVE  Typed(i, values)
<1>1. Exactly(SigOf(i, values), Demands(i))
    BY ComputingRuns DEF RunsExactly
<1>2. Meets(values, Demands(i)) /\ values \in Seq(ValTypes)
    BY DEF Panics, SpacesFit
<1> QED
    BY <1>1, <1>2, MeetsTyped DEF Typed

\* The validator looks at nothing else of it but the alignment.
LEMMA ComputingContext ==
  ASSUME NEW i, SpacesFit, Made(i), i.kind \in Computing, ~ Panics(i, values),
         i.kind \in Accesses => AlignOk(i.align, Natural(i))
  PROVE  Accepted(i, values, mems)
<1>1. Present(i)
    BY DEF Panics
<1>2. /\ i.kind \in Accesses => mems > 0
      /\ HasLane(i.kind, i.op) => i.lane < LanesIndexed(i)
    BY <1>1 DEF Present
<1>3. i.kind \in {"SimdLane", "Shuffle", "SimdMem"} =>
        /\ i.kind = "SimdMem" /\ SimdMemLanes(i.op) > 0 => i.lane < SimdMemLanes(i.op)
        /\ i.kind = "SimdLane" => i.lane < LaneShape(i.op)[1]
        /\ i.kind = "Shuffle" => i.lane < 32
    BY <1>2, LanesIndexedAgree
<1>4. ContextOk(i, mems)
    BY <1>2, <1>3 DEF ContextOk, ElementsAgree, Computing, Accesses, TableKinds, TwoIndex, ZeroByte
<1> QED
    BY <1>4, ComputingTyped DEF Accepted

\* The sequence of types after an instruction, from the one before.
LEMMA AfterRuns ==
  ASSUME NEW i, SpacesFit, Made(i), Accepted(i, values, mems)
  PROVE  /\ After(i, values) \in Seq(ValTypes)
         /\ \A out \in Pushes(i) :
              SubSeq(values, 1, Len(values) - Len(Demands(i))) \o out = After(i, values)
<1> DEFINE s == SigOf(i, values)
<1>1. /\ s.out \in Seq(ValTypes) /\ \A out \in Pushes(i) : out = s.out
      /\ Len(Demands(i)) = Len(s.ins) /\ s.ins \in Seq(OpTypes)
    BY AcceptedRuns DEF RunsAsTyped, Covers
<1>2. values \in Seq(ValTypes) /\ values \in Seq(OpTypes)
    BY DEF SpacesFit, OpTypes
<1>3. IsSuffix(s.ins, values)
    BY DEF Accepted, Typed
<1>4. After(i, values) = SubSeq(values, 1, Len(values) - Len(s.ins)) \o s.out
    BY DEF After
<1> HIDE DEF s
<1>5. Len(s.ins) <= Len(values) /\ Len(s.ins) \in Nat /\ Len(values) \in Nat
    BY <1>1, <1>2, <1>3, SuffixIsOnTop
<1> DEFINE rest == SubSeq(values, 1, Len(values) - Len(s.ins))
<1>6. rest \in Seq(ValTypes)
    BY <1>2, <1>5
<1>7. ASSUME NEW out \in Pushes(i)
      PROVE  SubSeq(values, 1, Len(values) - Len(Demands(i))) \o out = After(i, values)
    <2>1. out = s.out /\ Len(Demands(i)) = Len(s.ins)
        BY <1>1
    <2> QED
        BY <1>4, <2>1
<1> HIDE DEF rest
<1>8. rest \o s.out \in Seq(ValTypes)
    BY <1>1, <1>6
<1> QED
    BY <1>4, <1>7, <1>8 DEF rest

\* The operands of an instruction of two types.
LEMMA TwoTyped ==
  ASSUME NEW i, SpacesFit, Typed(i, values), NEW t \in OpTypes, NEW u \in OpTypes, NEW o,
         SigOf(i, values) = Sig(<<t, u>>, o)
  PROVE  Operand(2) = t /\ Operand(1) = u
<1>1. values \in Seq(OpTypes) /\ IsSuffix(SigOf(i, values).ins, values)
    BY DEF SpacesFit, OpTypes, Typed
<1> DEFINE s == <<t, u>>
<1>2. SigOf(i, values).ins = s
    BY DEF Sig
<1>3. s \in Seq(OpTypes) /\ Len(s) = 2 /\ s[1] = t /\ s[2] = u
    OBVIOUS
<1> HIDE DEF s
<1>4. Len(s) <= Len(values) /\ \A k \in 1..Len(s) : values[Len(values) - Len(s) + k] = s[k]
    BY <1>1, <1>2, <1>3, SuffixIsOnTop
<1>5. Len(values) \in Nat /\ values[Len(values) - 2 + 1] = t /\ values[Len(values) - 2 + 2] = u
    BY <1>1, <1>3, <1>4
<1>6. Len(values) - 2 + 2 = Len(values) - 1 + 1
    BY <1>5
<1> QED
    BY <1>5, <1>6 DEF Operand

\* What a table receives is of its type, whatever the instruction.
Received(i) ==
  IF i.kind = "TableSet" THEN {{Operand(1)}} ELSE
  IF i.kind \in {"TableGrow", "TableFill"} THEN {{}, {Operand(2)}} ELSE
  IF i.kind = "TableInit" THEN {{}, At(segs, i.y)} ELSE
  IF i.kind = "TableCopy" THEN {{}, At(tables, i.y)} ELSE {{}}

\* So a table receives values of its type only.
LEMMA ReceivedTyped ==
  ASSUME NEW i, SpacesFit, Made(i), i.kind \in TableKinds, Accepted(i, values, mems), NEW new \in Received(i)
  PROVE  new \subseteq {At(Tables, i.x)}
<1> DEFINE t == At(Tables, i.x)
<1>1. ContextOk(i, mems) /\ Typed(i, values)
    BY DEF Accepted
<1>2. i.x \in Nat /\ i.y \in Nat /\ Within(i.x, Tables) /\ t \in OpTypes
    BY <1>1, DeclaredTypes, TypeSets DEF Made, ContextOk
<1>3. SigOf(i, values) = TableSig(i)
    BY DEF SigOf, TableKinds, VariableKinds, TwoIndex, ZeroByte
<1>4. CASE i.kind = "TableSet"
    <2>1. SigOf(i, values) = Sig(<<"i32", t>>, <<>>)
        BY <1>3, <1>4 DEF TableSig
    <2>2. new = {Operand(1)}
        BY <1>4 DEF Received
    <2> HIDE DEF t
    <2>3. Operand(1) = t
        BY <1>1, <1>2, <2>1, TypeSets, TwoTyped
    <2> QED
        BY <2>2, <2>3 DEF t
<1>5. CASE i.kind = "TableGrow"
    <2>1. SigOf(i, values) = Sig(<<t, "i32">>, <<"i32">>)
        BY <1>3, <1>5 DEF TableSig
    <2>2. new = {} \/ new = {Operand(2)}
        BY <1>5 DEF Received
    <2> HIDE DEF t
    <2>3. Operand(2) = t
        BY <1>1, <1>2, <2>1, TypeSets, TwoTyped
    <2> QED
        BY <2>2, <2>3 DEF t
<1>6. CASE i.kind = "TableFill"
    <2>1. SigOf(i, values) = Sig(<<"i32", t, "i32">>, <<>>)
        BY <1>3, <1>6 DEF TableSig
    <2>2. new = {} \/ new = {Operand(2)}
        BY <1>6 DEF Received
    <2> HIDE DEF t
    <2>3. Operand(2) = t
        BY <1>1, <1>2, <2>1, TypeSets, OperandsTyped
    <2> QED
        BY <2>2, <2>3 DEF t
<1>7. CASE i.kind = "TableInit"
    <2>1. Within(i.y, Elems) /\ At(Elems, i.y) = t
        BY <1>1, <1>7 DEF ContextOk, ElementsAgree
    <2>2. new = {} \/ new = At(segs, i.y)
        BY <1>7 DEF Received
    <2> QED
        BY <1>2, <2>1, <2>2, SlotsHold
<1>8. CASE i.kind = "TableCopy"
    <2>1. Within(i.y, Tables) /\ At(Tables, i.y) = t
        BY <1>1, <1>8 DEF ContextOk, ElementsAgree
    <2>2. new = {} \/ new = At(tables, i.y)
        BY <1>8 DEF Received
    <2> QED
        BY <1>2, <2>1, <2>2, SlotsHold
<1>9. CASE i.kind \in {"TableGet", "TableSize"}
    BY <1>9 DEF Received
<1> QED
    BY <1>4, <1>5, <1>6, <1>7, <1>8, <1>9 DEF TableKinds, TwoIndex

\* The value a local or global receives is of the type it has.
LEMMA StoredTyped ==
  ASSUME NEW i, SpacesFit, Made(i), Accepted(i, values, mems)
  PROVE  /\ i.kind \in {"LocalSet", "LocalTee"} => Within(i.x, Locals) /\ Operand(1) = At(Locals, i.x)
         /\ i.kind = "GlobalSet" => Within(i.x, Globals) /\ Operand(1) = At(Globals, i.x).val
<1>1. ContextOk(i, mems) /\ Typed(i, values) /\ i.x \in Nat
    BY DEF Accepted, Made
<1>2. ASSUME i.kind \in {"LocalSet", "LocalTee"} PROVE Within(i.x, Locals) /\ Operand(1) = At(Locals, i.x)
    <2> DEFINE t == At(Locals, i.x)
    <2>1. Within(i.x, Locals) /\ t \in OpTypes
        BY <1>1, <1>2, DeclaredTypes, TypeSets DEF ContextOk
    <2>2. SigOf(i, values) = Sig(<<t>>, <<>>) \/ SigOf(i, values) = Sig(<<t>>, <<t>>)
        BY <1>2 DEF SigOf, VariableSig, VariableKinds, TableKinds, TwoIndex, ZeroByte
    <2> HIDE DEF t
    <2>3. Operand(1) = t
        BY <1>1, <2>1, <2>2, OperandsTyped
    <2> QED
        BY <2>1, <2>3 DEF t
<1>3. ASSUME i.kind = "GlobalSet" PROVE Within(i.x, Globals) /\ Operand(1) = At(Globals, i.x).val
    <2> DEFINE t == At(Globals, i.x).val
    <2>1. Within(i.x, Globals) /\ t \in OpTypes
        BY <1>1, <1>3, DeclaredTypes, TypeSets DEF ContextOk
    <2>2. SigOf(i, values) = Sig(<<t>>, <<>>)
        BY <1>3 DEF SigOf, VariableSig, VariableKinds, TableKinds, TwoIndex, ZeroByte
    <2> HIDE DEF t
    <2>3. Operand(1) = t
        BY <1>1, <2>1, <2>2, OperandsTyped
    <2> QED
        BY <2>1, <2>3 DEF t
<1> QED
    BY <1>2, <1>3

-----------------------------------------------------------------------------
(* The steps.                                                              *)

\* A function on the places of a sequence is a sequence of its length.
LEMMA AsLong ==
  ASSUME NEW X, NEW s \in Seq(X), NEW r \in [DOMAIN s -> X]
  PROVE  r \in Seq(X) /\ Len(r) = Len(s) /\ DOMAIN r = DOMAIN s
<1>1. DOMAIN s = 1..Len(s) /\ Len(s) \in Nat
    OBVIOUS
<1> QED
    BY <1>1

\* What a run writes keeps the types of the places.
LEMMA WritesKeep ==
  ASSUME NEW i, SpacesFit, Made(i), Accepted(i, values, mems), Writes(i), values' \in Seq(ValTypes)
  PROVE  SpacesFit'
<1>1. ContextOk(i, mems) /\ i.x \in Nat
    BY DEF Accepted, Made
<1>2. /\ locals = Locals /\ Locals \in Seq(ValTypes)
      /\ globals \in Seq(ValTypes) /\ Len(globals) = Len(Globals) /\ Len(Globals) \in Nat
      /\ tables \in Seq(SUBSET ValTypes) /\ Len(tables) = Len(Tables) /\ Len(Tables) \in Nat
      /\ segs \in Seq(SUBSET ValTypes) /\ Len(segs) = Len(Elems) /\ Len(Elems) \in Nat
    BY OpcodesAssumption DEF SpacesFit
<1>3. /\ \A g \in DOMAIN globals : globals[g] = Globals[g].val
      /\ \A t \in DOMAIN tables : tables[t] \subseteq {Tables[t]}
      /\ \A e \in DOMAIN segs : segs[e] \subseteq {Elems[e]}
    BY DEF SpacesFit, SlotsKeepTypes
<1>4. locals' = Locals
    <2>1. CASE i.kind \in {"LocalSet", "LocalTee"}
        <3>1. locals' = [locals EXCEPT ![i.x + 1] = Operand(1)]
            BY <2>1 DEF Writes, Set
        <3>2. Operand(1) = Locals[i.x + 1]
            BY <2>1, StoredTyped DEF At
        <3> QED
            BY <1>2, <3>1, <3>2
    <2>2. CASE i.kind \notin {"LocalSet", "LocalTee"}
        BY <1>2, <2>2 DEF Writes
    <2> QED
        BY <2>1, <2>2
<1>5. globals' = globals
    <2>1. CASE i.kind = "GlobalSet"
        <3>1. globals' = [globals EXCEPT ![i.x + 1] = Operand(1)]
            BY <2>1 DEF Writes, Set
        <3>2. Operand(1) = Globals[i.x + 1].val /\ i.x + 1 \in DOMAIN globals
            BY <1>1, <1>2, <2>1, StoredTyped DEF At, Within
        <3>3. globals[i.x + 1] = Operand(1)
            BY <1>3, <3>2
        <3> QED
            BY <1>2, <3>1, <3>3
    <2>2. CASE i.kind # "GlobalSet"
        BY <2>2 DEF Writes
    <2> QED
        BY <2>1, <2>2
<1>6. /\ segs' \in Seq(SUBSET ValTypes) /\ Len(segs') = Len(Elems)
      /\ \A e \in DOMAIN segs' : segs'[e] \subseteq {Elems[e]}
    <2>1. CASE i.kind = "ElemDrop"
        <3>1. segs' = [segs EXCEPT ![i.x + 1] = {}]
            BY <2>1 DEF Writes, Set
        <3>2. {} \in SUBSET ValTypes
            OBVIOUS
        <3>3. segs \in [DOMAIN segs -> SUBSET ValTypes]
            BY <1>2
        <3>4. segs' \in [DOMAIN segs -> SUBSET ValTypes]
            BY <3>1, <3>2, <3>3
        <3>5. segs' \in Seq(SUBSET ValTypes) /\ Len(segs') = Len(segs) /\ DOMAIN segs' = DOMAIN segs
            BY <1>2, <3>4, AsLong
        <3>6. \A e \in DOMAIN segs : segs'[e] = segs[e] \/ segs'[e] = {}
            BY <3>1
        <3> QED
            BY <1>2, <1>3, <3>5, <3>6
    <2>2. CASE i.kind # "ElemDrop"
        <3>1. segs' = segs
            BY <2>2 DEF Writes
        <3> QED
            BY <1>2, <1>3, <3>1
    <2> QED
        BY <2>1, <2>2
<1>7. /\ tables' \in Seq(SUBSET ValTypes) /\ Len(tables') = Len(Tables)
      /\ \A t \in DOMAIN tables' : tables'[t] \subseteq {Tables[t]}
    <2>1. CASE i.kind \in TableKinds
        <3>1. PICK new \in Received(i) : tables' = [tables EXCEPT ![i.x + 1] = @ \cup new]
            BY <2>1 DEF Writes, Received, Add
        <3>2. new \subseteq {Tables[i.x + 1]}
            BY <2>1, ReceivedTyped DEF At
        <3>3. i.x + 1 \in 1..Len(Tables)
            BY <1>1, <1>2, <2>1 DEF ContextOk, Within
        <3>4. Tables[i.x + 1] \in ValTypes
            BY <3>3, OpcodesAssumption DEF ValTypes
        <3>5. tables[i.x + 1] \cup new \in SUBSET ValTypes
            BY <1>2, <3>2, <3>3, <3>4
        <3>6. tables \in [DOMAIN tables -> SUBSET ValTypes]
            BY <1>2
        <3>7. tables' \in [DOMAIN tables -> SUBSET ValTypes]
            BY <3>1, <3>5, <3>6
        <3>8. tables' \in Seq(SUBSET ValTypes) /\ Len(tables') = Len(tables) /\ DOMAIN tables' = DOMAIN tables
            BY <1>2, <3>7, AsLong
        <3>9. ASSUME NEW t \in DOMAIN tables PROVE tables'[t] \subseteq {Tables[t]}
            <4>1. CASE t = i.x + 1
                <5>1. tables'[t] = tables[t] \cup new
                    BY <3>1, <4>1
                <5> QED
                    BY <1>3, <3>2, <4>1, <5>1
            <4>2. CASE t # i.x + 1
                <5>1. tables'[t] = tables[t]
                    BY <3>1, <4>2
                <5> QED
                    BY <1>3, <5>1
            <4> QED
                BY <4>1, <4>2
        <3> QED
            BY <1>2, <3>8, <3>9
    <2>2. CASE i.kind \notin TableKinds
        <3>1. tables' = tables
            BY <2>2 DEF Writes
        <3> QED
            BY <1>2, <1>3, <3>1
    <2> QED
        BY <2>1, <2>2
<1> QED
    BY <1>2, <1>3, <1>4, <1>5, <1>6, <1>7 DEF SpacesFit, SlotsKeepTypes

\* What each stage knows of the instruction and the two stacks.
AtStage ==
  /\ stage # "panicked"
  /\ stage \in {"decode", "validate", "invalid"} => types = values
  /\ stage \in {"validate", "invalid", "execute"} => Made(instr)
  /\ stage = "invalid" => ~ Accepted(instr, values, mems)
  /\ stage = "execute" => Accepted(instr, values, mems) /\ types = After(instr, values)

TypesInv == TypeOK /\ SpacesFit /\ AtStage

\* TypesInv holds at first.
LEMMA TypesInit == Init => TypesInv
<1> SUFFICES ASSUME Init PROVE TypesInv
    OBVIOUS
<1> USE DEF Init
<1>1. TypeOK
    BY DEF TypeOK, Stages, NoInstr, Instr
<1>2. ASSUME NEW g \in 1..Len(Globals) PROVE Globals[g].val \in ValTypes
    <2>1. Globals \in Seq([val : ValTypes, mutable : BOOLEAN])
        BY OpcodesAssumption
    <2> DEFINE x == Globals[g]
    <2>2. x \in [val : ValTypes, mutable : BOOLEAN]
        BY <2>1, ElementOfSeq
    <2> HIDE DEF x
    <2>3. x.val \in ValTypes
        BY <2>2
    <2> QED
        BY <2>3 DEF x
<1>3. DOMAIN Globals = 1..Len(Globals) /\ Len(Globals) \in Nat
    BY OpcodesAssumption
<1>4. globals = [g \in 1..Len(Globals) |-> Globals[g].val]
    BY <1>3
<1>5. globals \in Seq(ValTypes) /\ Len(globals) = Len(Globals) /\ \A g \in DOMAIN globals : globals[g] = Globals[g].val
    BY <1>2, <1>3, <1>4
<1>6. /\ DOMAIN Tables = 1..Len(Tables) /\ Len(Tables) \in Nat /\ \A t \in 1..Len(Tables) : {Tables[t]} \in SUBSET ValTypes
      /\ DOMAIN Elems = 1..Len(Elems) /\ Len(Elems) \in Nat /\ \A e \in 1..Len(Elems) : {Elems[e]} \in SUBSET ValTypes
    BY OpcodesAssumption, TypeSets
<1>7. /\ tables \in Seq(SUBSET ValTypes) /\ Len(tables) = Len(Tables)
      /\ \A t \in DOMAIN tables : tables[t] \subseteq {Tables[t]}
    BY <1>6
<1>8. /\ segs \in Seq(SUBSET ValTypes) /\ Len(segs) = Len(Elems)
      /\ \A e \in DOMAIN segs : segs[e] \subseteq {Elems[e]}
    BY <1>6
<1>9. SpacesFit
    BY <1>5, <1>7, <1>8, TypeSets DEF SpacesFit, SlotsKeepTypes
<1> QED
    BY <1>1, <1>9 DEF TypesInv, AtStage

\* And every step keeps it.
LEMMA TypesStep == TypesInv /\ [Next]_vars => TypesInv'
<1> SUFFICES ASSUME TypesInv, [Next]_vars PROVE TypesInv'
    OBVIOUS
<1>1. TypeOK /\ SpacesFit /\ AtStage
    BY DEF TypesInv
<1>2. ASSUME UNCHANGED <<values, slots>> PROVE SpacesFit'
    BY <1>1, <1>2 DEF SpacesFit, SlotsKeepTypes, slots
<1>3. CASE Decode
    <2>1. PICK c \in Codes : KindOf(c[1], c[2]) # "illegal" /\ \E i \in InstrsAt(c) : MemargOk(i) /\ instr' = i
        BY <1>3 DEF Decode
    <2>2. Made(instr') /\ (instr').op \in Nat
        BY <2>1, DecodedIsMade
    <2>3. stage = "decode" /\ stage' = "validate" /\ UNCHANGED <<mems, types, values>> /\ UNCHANGED slots
        BY <1>3 DEF Decode
    <2>4. TypeOK'
        BY <1>1, <2>2, <2>3 DEF TypeOK, Stages
    <2>5. AtStage'
        BY <1>1, <2>2, <2>3 DEF AtStage
    <2> QED
        BY <1>2, <2>3, <2>4, <2>5 DEF TypesInv
<1>4. CASE DecodeFails
    <2>1. stage' = "malformed" /\ instr' = NoInstr /\ UNCHANGED <<mems, types, values>> /\ UNCHANGED slots
        BY <1>4 DEF DecodeFails
    <2>2. TypeOK' /\ AtStage'
        BY <1>1, <2>1 DEF TypeOK, Stages, AtStage, NoInstr, Instr
    <2> QED
        BY <1>2, <2>1, <2>2 DEF TypesInv
<1>5. CASE Validate
    <2>1. /\ stage = "validate" /\ Accepted(instr, types, mems) /\ types' = After(instr, types)
          /\ stage' = "execute" /\ UNCHANGED <<mems, instr, values>> /\ UNCHANGED slots
        BY <1>5 DEF Validate
    <2>2. types = values /\ Made(instr)
        BY <1>1, <2>1 DEF AtStage
    <2>3. After(instr, values) \in Seq(ValTypes)
        BY <1>1, <2>1, <2>2, AfterRuns
    <2>4. TypeOK'
        BY <1>1, <2>1, <2>2, <2>3 DEF TypeOK, Stages
    <2>5. AtStage'
        BY <2>1, <2>2 DEF AtStage
    <2> QED
        BY <1>2, <2>1, <2>4, <2>5 DEF TypesInv
<1>6. CASE Reject
    <2>1. /\ stage = "validate" /\ ~ Accepted(instr, types, mems) /\ stage' = "invalid"
          /\ UNCHANGED <<mems, instr, types, values>> /\ UNCHANGED slots
        BY <1>6 DEF Reject
    <2>2. TypeOK' /\ AtStage'
        BY <1>1, <2>1 DEF TypeOK, Stages, AtStage
    <2> QED
        BY <1>2, <2>1, <2>2 DEF TypesInv
<1>7. CASE Execute
    <2>1. stage = "execute" /\ UNCHANGED <<mems, types>>
        BY <1>7 DEF Execute
    <2>2. Made(instr) /\ Accepted(instr, values, mems) /\ types = After(instr, values)
        BY <1>1, <2>1 DEF AtStage
    <2>3. ~ Panics(instr, values)
        BY <1>1, <2>2, AcceptedNeverPanics
    <2>4. Run
        BY <1>7, <2>3 DEF Execute
    <2>5. values' = types /\ values' \in Seq(ValTypes)
        BY <1>1, <2>2, <2>4, AfterRuns DEF Run
    <2>6. Writes(instr) /\ stage' = "decode" /\ instr' = NoInstr
        BY <2>4 DEF Run
    <2>7. SpacesFit'
        BY <1>1, <2>2, <2>5, <2>6, WritesKeep
    <2>8. TypeOK' /\ AtStage'
        BY <1>1, <2>1, <2>5, <2>6 DEF TypeOK, Stages, AtStage, NoInstr, Instr
    <2> QED
        BY <2>7, <2>8 DEF TypesInv
<1>8. CASE Trap
    <2>1. stage' = "trapped" /\ instr' = NoInstr /\ UNCHANGED <<mems, types, values>> /\ UNCHANGED slots
        BY <1>8 DEF Trap
    <2>2. TypeOK' /\ AtStage'
        BY <1>1, <2>1 DEF TypeOK, Stages, AtStage, NoInstr, Instr
    <2> QED
        BY <1>2, <2>1, <2>2 DEF TypesInv
<1>9. CASE UNCHANGED vars
    <2>1. UNCHANGED <<stage, mems, instr, types, values>> /\ UNCHANGED slots
        BY <1>9 DEF vars, slots
    <2>2. TypeOK' /\ AtStage'
        BY <1>1, <2>1 DEF TypeOK, AtStage
    <2> QED
        BY <1>2, <2>1, <2>2 DEF TypesInv
<1> QED
    BY <1>3, <1>4, <1>5, <1>6, <1>7, <1>8, <1>9 DEF Next

\* So it always holds.
LEMMA AlwaysTypes == Spec => []TypesInv
  BY TypesInit, TypesStep, PTL DEF Spec

-----------------------------------------------------------------------------
(* What follows.                                                           *)

\* No instruction the validator accepted makes the interpreter panic, in any
\* module, on any stack, with any immediate (step of validate.rs and of
\* exec.rs).
THEOREM AcceptedCodeNeverPanics == Spec => []NeverPanics
<1>1. TypesInv => NeverPanics
    BY DEF TypesInv, AtStage, NeverPanics
<1> QED
    BY AlwaysTypes, <1>1, PTL

\* The interpreter's values, unchecked as they are, have the types on the
\* validator's stack, and the locals, globals, tables and segments hold
\* values of their types only.
THEOREM StacksAlwaysKeepTypes == Spec => []StacksKeepTypes
<1>1. TypesInv => StacksKeepTypes
    BY DEF TypesInv, AtStage, SpacesFit, StacksKeepTypes, StacksAgree
<1> QED
    BY AlwaysTypes, <1>1, PTL

\* An access that runs is aligned to its width at most, and one refused for
\* its alignment alone wanted more.
LEMMA Aligned == TypesInv => AlignedToWidth
<1> SUFFICES ASSUME TypesInv, instr.kind \in Accesses,
                    stage = "execute" \/ (stage = "invalid" /\ ~ Panics(instr, values))
             PROVE  /\ stage = "execute" => 2^instr.align <= Width(instr)
                    /\ stage = "invalid" => 2^instr.align > Width(instr)
    BY DEF AlignedToWidth
<1>1. SpacesFit /\ Made(instr) /\ (stage = "execute" => Accepted(instr, values, mems))
      /\ (stage = "invalid" => ~ Accepted(instr, values, mems))
    BY DEF TypesInv, AtStage
<1>2. Natural(instr) = Width(instr) /\ Width(instr) \in Nat /\ instr.align \in 0..31
    BY <1>1, NaturalIsWidth DEF Made
<1>3. 2^instr.align \in Int
    <2> DEFINE a == instr.align
    <2>1. a \in 0..31
        BY <1>2
    <2> HIDE DEF a
    <2>2. 2^a \in Int
        BY <2>1, Z3
    <2> QED
        BY <2>2 DEF a
<1>4. CASE stage = "execute"
    <2>1. AlignOk(instr.align, Natural(instr))
        BY <1>1, <1>4 DEF Accepted, ContextOk
    <2> QED
        BY <1>2, <1>4, <2>1 DEF AlignOk
<1>5. CASE stage = "invalid" /\ ~ Panics(instr, values)
    <2>1. ~ AlignOk(instr.align, Natural(instr))
        BY <1>1, <1>5, ComputingContext DEF Computing
    <2> QED
        BY <1>2, <1>3, <1>5, <2>1 DEF AlignOk
<1> QED
    BY <1>4, <1>5

\* What the validator refuses of numbers, vectors and lanes would have made
\* the interpreter panic, and its natural alignments are the widths in
\* exec.rs and simd.rs: it asks for what is needed and no more.
THEOREM AlwaysAsksWhatIsNeeded == Spec => []AsksWhatIsNeeded
<1>1. TypesInv => RejectionsAreNeeded
    <2> SUFFICES ASSUME TypesInv, stage = "invalid", instr.kind \in {"Num", "Simd", "SimdLane", "Shuffle"}
                 PROVE  Panics(instr, values)
        BY DEF RejectionsAreNeeded
    <2>1. SpacesFit /\ Made(instr) /\ ~ Accepted(instr, values, mems)
        BY DEF TypesInv, AtStage
    <2> QED
        BY <2>1, ComputingContext DEF Computing, Accesses
<1>2. TypesInv => AsksWhatIsNeeded
    BY <1>1, Aligned DEF TypesInv, AsksWhatIsNeeded
<1> QED
    BY AlwaysTypes, <1>2, PTL
=============================================================================
