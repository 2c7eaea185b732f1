----------------------------- MODULE Induction -----------------------------
(***************************************************************************)
(* Induction and recursion over the natural numbers, for sets and          *)
(* functions instead of operators: a predicate is the set of the numbers   *)
(* of which it holds, and one step of a recursion is a function.  In this  *)
(* form the provers can use them.                                          *)
(***************************************************************************)
EXTENDS WellFoundedInduction, SequencesExt, TLAPS

(* A set with 0 and with the successor of each of its numbers has all      *)
(* natural numbers.                                                        *)
LEMMA SetInduction ==
  ASSUME NEW S, 0 \in S, \A n \in Nat : n \in S => n + 1 \in S
  PROVE  \A n \in Nat : n \in S
<1> DEFINE R == OpToRel(<, Nat)
           T == {n \in Nat : n \notin S}
<1>1. IsWellFoundedOn(R, Nat)
  BY NatLessThanWellFounded
<1>2. \A m, n \in Nat : m < n => <<m, n>> \in R
  BY DEF OpToRel
<1>3. SUFFICES ASSUME T # {} PROVE FALSE
  OBVIOUS
<1>4. T \subseteq Nat
  OBVIOUS
<1> HIDE DEF R
<1>5. PICK x \in T : \A y \in T : ~ (<<y, x>> \in R)
  BY <1>1, <1>3, <1>4, WFMin
<1>6. x \in Nat \ {0} /\ x - 1 \in Nat /\ x - 1 \notin T
  <2>1. x \in Nat \ {0} /\ x - 1 \in Nat
    OBVIOUS
  <2>2. x - 1 < x
    BY <2>1
  <2>3. <<x - 1, x>> \in R
    BY <1>2, <2>1, <2>2
  <2> QED BY <1>5, <2>1, <2>3
<1>7. x - 1 \in S
  BY <1>6
<1>8. x - 1 + 1 \in S
  BY <1>6, <1>7
<1> QED BY <1>6, <1>8

(* The values of a recursion from a, of which F[i] is the i-th step. *)
Runs(f, a, F, n) == f[0] = a /\ \A i \in 1..n : f[i] = F[i][f[i - 1]]

(* A recursion of n steps has values.                                      *)
LEMMA Recursion ==
  ASSUME NEW T, NEW a \in T, NEW n \in Nat, NEW F \in [1..n -> [T -> T]]
  PROVE  \E f \in [0..n -> T] : Runs(f, a, F, n)
<1> DEFINE Good == {k \in Nat : k <= n => \E f \in [0..k -> T] : Runs(f, a, F, k)}
<1>1. 0 \in Good
  <2>1. [i \in 0..0 |-> a] \in [0..0 -> T]
    OBVIOUS
  <2>2. Runs([i \in 0..0 |-> a], a, F, 0)
    BY DEF Runs
  <2> QED BY <2>1, <2>2
<1>2. ASSUME NEW k \in Nat, k \in Good PROVE k + 1 \in Good
  <2> SUFFICES ASSUME k + 1 <= n PROVE \E f \in [0..(k + 1) -> T] : Runs(f, a, F, k + 1)
    OBVIOUS
  <2>1. PICK f \in [0..k -> T] : Runs(f, a, F, k)
    BY <1>2
  <2> DEFINE g == [i \in 0..(k + 1) |-> IF i = k + 1 THEN F[k + 1][f[k]] ELSE f[i]]
  <2>2. F[k + 1] \in [T -> T] /\ f[k] \in T
    BY <2>1
  <2>3. g \in [0..(k + 1) -> T]
    BY <2>1, <2>2
  <2>4. \A i \in 0..k : g[i] = f[i]
    OBVIOUS
  <2>5. g[k + 1] = F[k + 1][f[k]]
    OBVIOUS
  <2> HIDE DEF g
  <2>6. g[0] = a
    BY <2>1, <2>4 DEF Runs
  <2>7. ASSUME NEW i \in 1..(k + 1) PROVE g[i] = F[i][g[i - 1]]
    <3>1. CASE i = k + 1
      BY <2>4, <2>5, <3>1
    <3>2. CASE i # k + 1
      <4>1. i \in 1..k /\ i \in 0..k /\ i - 1 \in 0..k
        BY <3>2
      <4>2. f[i] = F[i][f[i - 1]]
        BY <2>1, <4>1 DEF Runs
      <4> QED BY <2>4, <4>1, <4>2
    <3> QED BY <3>1, <3>2
  <2> QED BY <2>3, <2>6, <2>7 DEF Runs
<1> HIDE DEF Good
<1>3. n \in Good
  BY <1>1, <1>2, SetInduction
<1> QED BY <1>3 DEF Good

(* Values that follow from the one before as those of f do are those of f. *)
LEMMA Agree ==
  ASSUME NEW n \in Nat, NEW f, NEW g, g[0] = f[0],
         \A i \in 1..n : g[i - 1] = f[i - 1] => g[i] = f[i]
  PROVE  \A i \in 0..n : g[i] = f[i]
<1> DEFINE Good == {k \in Nat : k <= n => g[k] = f[k]}
<1>1. 0 \in Good
  OBVIOUS
<1>2. ASSUME NEW k \in Nat, k \in Good PROVE k + 1 \in Good
  <2> SUFFICES ASSUME k + 1 <= n PROVE g[k + 1] = f[k + 1]
    OBVIOUS
  <2>1. g[k] = f[k] /\ k + 1 \in 1..n /\ k + 1 - 1 = k
    BY <1>2
  <2> QED BY <2>1
<1> HIDE DEF Good
<1>3. \A k \in Nat : k \in Good
  BY <1>1, <1>2, SetInduction
<1> QED BY <1>3 DEF Good

-----------------------------------------------------------------------------
(* FlattenSeq is the last value of the recursion that appends the          *)
(* sequences one after the other.                                          *)
Joined(f, ss) == f[0] = <<>> /\ \A i \in 1..Len(ss) : f[i] = f[i - 1] \o ss[i]

LEMMA FlattenIs ==
  ASSUME NEW S, NEW ss \in Seq(Seq(S)), NEW f \in [0..Len(ss) -> Seq(S)], Joined(f, ss)
  PROVE  FlattenSeq(ss) = f[Len(ss)]
<1> DEFINE n == Len(ss)
           Def(g) == [i \in 1..n |-> IF i = 1 THEN ss[i] ELSE g[i - 1] \o ss[i]]
           c == CHOOSE g : g = Def(g)
           h == [i \in 1..n |-> f[i]]
           k == [i \in 0..n |-> IF i = 0 THEN <<>> ELSE c[i]]
<1>1. CASE n = 0
  <2>1. ss = <<>> /\ FlattenSeq(ss) = ss /\ f[0] = <<>>
    BY <1>1 DEF FlattenSeq, Joined
  <2> QED BY <1>1, <2>1
<1>2. CASE n # 0
  <2>1. n \in Nat \ {0} /\ ss \in [1..n -> Seq(S)]
    BY <1>2
  <2>2. FlattenSeq(ss) = c[n]
    BY <1>2 DEF FlattenSeq
  <2>3. f[1] = ss[1]
    <3>1. 1 \in 1..n /\ 1 - 1 = 0
      BY <2>1
    <3>2. f[1] = f[0] \o ss[1] /\ f[0] = <<>>
      BY <3>1 DEF Joined
    <3>3. ss[1] \in Seq(S)
      BY <2>1, <3>1
    <3> QED BY <3>2, <3>3
  <2>4. ASSUME NEW i \in 1..n, i # 1 PROVE h[i] = h[i - 1] \o ss[i]
    <3>1. i - 1 \in 1..n
      BY <2>1, <2>4
    <3>2. f[i] = f[i - 1] \o ss[i]
      BY DEF Joined
    <3> QED BY <3>1, <3>2
  <2>5. h = Def(h)
    <3>1. ASSUME NEW i \in 1..n PROVE h[i] = Def(h)[i]
      <4>1. CASE i = 1
        BY <2>3, <4>1
      <4>2. CASE i # 1
        <5>1. h[i] = h[i - 1] \o ss[i]
          BY <2>4, <4>2
        <5> HIDE DEF h
        <5> QED BY <4>2, <5>1
      <4> QED BY <4>1, <4>2
    <3> QED BY <3>1
  <2>6. c = Def(c)
    BY <2>5, Zenon
  <2> HIDE DEF c
  <2>7. \A i \in 1..n : c[i] = IF i = 1 THEN ss[i] ELSE c[i - 1] \o ss[i]
    BY <2>6
  <2>8. ASSUME NEW i \in 1..n, k[i - 1] = f[i - 1] PROVE k[i] = f[i]
    <3>1. CASE i = 1
      BY <2>1, <2>3, <2>7, <3>1
    <3>2. CASE i # 1
      <4>1. i - 1 \in 0..n /\ i - 1 # 0 /\ i \in 0..n /\ i # 0
        BY <2>1, <3>2
      <4>2. k[i - 1] = c[i - 1] /\ k[i] = c[i]
        BY <4>1
      <4>3. c[i] = c[i - 1] \o ss[i]
        BY <2>7, <3>2
      <4>4. f[i] = f[i - 1] \o ss[i]
        BY DEF Joined
      <4> QED BY <2>8, <4>2, <4>3, <4>4
    <3> QED BY <3>1, <3>2
  <2>9. k[0] = f[0]
    BY <2>1 DEF Joined
  <2>10. k[n] = c[n]
    BY <2>1
  <2> HIDE DEF k
  <2>11. \A i \in 0..n : k[i] = f[i]
    <3>1. PICK g, l : g = k /\ l = n
      OBVIOUS
    <3>2. l \in Nat /\ g[0] = f[0]
      BY <2>1, <2>9, <3>1
    <3>3. \A i \in 1..l : g[i - 1] = f[i - 1] => g[i] = f[i]
      BY <2>8, <3>1
    <3>4. \A i \in 0..l : g[i] = f[i]
      BY <3>2, <3>3, Agree, ZenonT(60)
    <3> QED BY <3>1, <3>4
  <2> QED BY <2>1, <2>2, <2>10, <2>11
<1> QED BY <1>1, <1>2

LEMMA JoinedExists ==
  ASSUME NEW S, NEW ss \in Seq(Seq(S))
  PROVE  \E f \in [0..Len(ss) -> Seq(S)] : Joined(f, ss)
<1> DEFINE n == Len(ss)
           F == [i \in 1..n |-> [t \in Seq(S) |-> t \o ss[i]]]
<1>1. n \in Nat /\ ss \in [1..n -> Seq(S)] /\ <<>> \in Seq(S)
  OBVIOUS
<1>2. \A t, u \in Seq(S) : t \o u \in Seq(S)
  OBVIOUS
<1>3. F \in [1..n -> [Seq(S) -> Seq(S)]]
  BY <1>1, <1>2
<1>4. \A i \in 1..n : \A t \in Seq(S) : F[i][t] = t \o ss[i]
  OBVIOUS
<1> HIDE DEF F
<1>5. PICK f \in [0..n -> Seq(S)] : Runs(f, <<>>, F, n)
  BY <1>1, <1>3, Recursion
<1>6. ASSUME NEW i \in 1..n PROVE f[i] = f[i - 1] \o ss[i]
  <2>1. f[i - 1] \in Seq(S)
    <3>1. i - 1 \in 0..n
      BY <1>1
    <3> QED BY <1>5, <3>1
  <2> QED BY <1>4, <1>5, <2>1 DEF Runs
<1> QED BY <1>5, <1>6 DEF Joined, Runs

(* Nothing flattened is nothing, and one sequence more is appended.        *)
LEMMA FlattenEmpty == FlattenSeq(<<>>) = <<>>
BY DEF FlattenSeq

LEMMA FlattenAppend ==
  ASSUME NEW S, NEW ss \in Seq(Seq(S)), NEW s \in Seq(S)
  PROVE  /\ FlattenSeq(ss) \in Seq(S)
         /\ FlattenSeq(Append(ss, s)) = FlattenSeq(ss) \o s
<1> DEFINE n == Len(ss)
           ss2 == Append(ss, s)
<1>1. n \in Nat /\ ss2 \in Seq(Seq(S)) /\ Len(ss2) = n + 1
  OBVIOUS
<1>2. ss2[n + 1] = s /\ \A i \in 1..n : ss2[i] = ss[i]
  OBVIOUS
<1> HIDE DEF ss2
<1>3. PICK f \in [0..Len(ss2) -> Seq(S)] : Joined(f, ss2)
  BY <1>1, JoinedExists
<1>4. FlattenSeq(ss2) = f[n + 1] /\ f[n + 1] = f[n] \o s
  <2>1. FlattenSeq(ss2) = f[Len(ss2)]
    BY <1>1, <1>3, FlattenIs
  <2>2. n + 1 \in 1..Len(ss2) /\ n + 1 - 1 = n
    BY <1>1
  <2>3. f[n + 1] = f[n] \o ss2[n + 1]
    <3>1. \A i \in 1..Len(ss2) : f[i] = f[i - 1] \o ss2[i]
      BY <1>3 DEF Joined
    <3> DEFINE m == n + 1
    <3>2. m \in 1..Len(ss2) /\ m - 1 = n
      BY <2>2
    <3> HIDE DEF m
    <3>3. f[m] = f[m - 1] \o ss2[m]
      BY <3>1, <3>2
    <3>4. f[m] = f[n] \o ss2[m]
      BY <3>2, <3>3
    <3> QED BY <3>4 DEF m
  <2> QED BY <1>1, <1>2, <2>1, <2>3
<1> DEFINE g == [i \in 0..n |-> f[i]]
<1>5. g \in [0..n -> Seq(S)] /\ \A i \in 0..n : g[i] = f[i]
  BY <1>1, <1>3
<1> HIDE DEF g
<1>6. Joined(g, ss)
  <2>1. g[0] = <<>>
    BY <1>1, <1>3, <1>5 DEF Joined
  <2>2. ASSUME NEW i \in 1..n PROVE g[i] = g[i - 1] \o ss[i]
    <3>1. i \in 1..Len(ss2) /\ i \in 0..n /\ i - 1 \in 0..n
      BY <1>1
    <3>2. f[i] = f[i - 1] \o ss2[i]
      BY <1>3, <3>1 DEF Joined
    <3> QED BY <1>2, <1>5, <3>1, <3>2
  <2> QED BY <2>1, <2>2 DEF Joined
<1>7. FlattenSeq(ss) = f[n] /\ f[n] \in Seq(S)
  <2>1. FlattenSeq(ss) = g[n]
    BY <1>5, <1>6, FlattenIs
  <2>2. n \in 0..n /\ n \in 0..Len(ss2)
    BY <1>1
  <2> QED BY <1>3, <1>5, <2>1, <2>2
<1> QED BY <1>4, <1>7 DEF ss2
=============================================================================
