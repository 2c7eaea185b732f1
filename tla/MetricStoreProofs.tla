------------------------- MODULE MetricStoreProofs -------------------------
(***************************************************************************)
(* Proofs about the store of metrics for any programs and texts, any       *)
(* number of names and labels and any bounds: its types, that no metric    *)
(* has two values for a label, that the metrics of a name are of one kind  *)
(* and each declared once, that a reload copies all data, and that what a  *)
(* virtual machine updates is what is exported.                            *)
(***************************************************************************)
EXTENDS MetricStore, FiniteSetTheorems, TLAPS

LoadsLeft == MaxLoads - loads
InStore == UNION {Elements(store[n]) : n \in Names}
Making == add \in {"add", "copy", "insert"}

(* The types of the metrics and of their LabelValues.                      *)
ObjectsOK ==
  /\ nmetrics \in Nat /\ nlvs \in Nat /\ nlvs <= MaxLVs
  /\ loads \in Nat /\ LoadsLeft \in Nat
  /\ nmetrics + NNames * LoadsLeft = NNames * MaxLoads
  /\ store \in [Names -> Seq(1..nmetrics)]
  /\ lvs \in [Metrics -> Seq(1..nlvs)]
  /\ label \in [LVs -> Labels \cup {Unlabelled}]
  /\ datum \in [LVs -> Nat] /\ \A x \in 1..nlvs : datum[x] \in 1..nlvs
  /\ expiry \in [LVs -> BOOLEAN] /\ aged \subseteq 1..nlvs

(* The types of the loader's state.  While it loads, its metrics are the   *)
(* last ones made, and those of the running machines are earlier ones.     *)
LoadOK ==
  /\ add \in {"idle", "add", "copy", "insert", "run"}
  /\ at \in Names /\ dupe \in Nat
  /\ add # "idle" => adding \in Progs /\ base \in Nat \ {0} /\ base + NNames = nmetrics + 1
  /\ cur \in [Progs -> Nat]
  /\ \A p \in Progs : cur[p] # 0 =>
       cur[p] + NNames <= IF add = "idle" THEN nmetrics + 1 ELSE base
  /\ add = "copy" => dupe \in 1..Len(store[at]) /\ copyView.m = Old
  /\ add = "insert" => dupe \in 0..Len(store[at])

(* The types of the views, and of Gc's state.  Gc is at a metric that is   *)
(* in the store, which no Insert changes meanwhile.                        *)
ViewsOf(n) == [m : Nat, arr : Seq(1..n), i : Nat \ {0}, alias : BOOLEAN]
GcOK ==
  /\ copyView \in ViewsOf(nlvs) /\ gcView \in ViewsOf(nlvs)
  /\ gc \in {"idle", "scan", "remove"}
  /\ gc = "remove" => ~Over(gcView)
  /\ gc = "idle" => gcTodo = {} /\ gcView.m = 0
  /\ gcTodo \subseteq InStore
  /\ gcView.m \in InStore \cup {0}
  /\ gcView.m = 0 => gcView.arr = <<>>

(* Of the metrics of a load, those under names it has passed are in the    *)
(* store, each under its name, and the others are not.                     *)
PassedInv ==
  add # "idle" =>
    \A n \in Names :
      /\ add = "run" \/ n < at => base + n - 1 \in Elements(store[n])
      /\ \A v \in Elements(store[n]) : v >= base => v = base + n - 1 /\ (add = "run" \/ n < at)

(* Metrics belong to the program whose machine uses them or whose load     *)
(* made them.                                                              *)
OwnerInv ==
  /\ \A p \in Progs : cur[p] # 0 => \A n \in Names : owner[cur[p] + n - 1] = p
  /\ add # "idle" => \A n \in Names : owner[base + n - 1] = adding

(* What Add found of the list holds until Insert.                          *)
FoundInv ==
  add \in {"copy", "insert"} =>
    /\ ~AddFails
    /\ dupe = 0 => \A i \in 1..Len(store[at]) : ~Duplicate(store[at][i], New)
    /\ dupe # 0 => Duplicate(Old, New)

(* A load that has inserted nothing leaves its program's metrics exported. *)
UntouchedInv ==
  Making /\ at = 1 /\ adding \notin halfLoaded /\ cur[adding] # 0 =>
    \A n \in Names : cur[adding] + n - 1 \in Elements(store[n])

(* NoDuplicateLabels, of the metrics not made yet too.                     *)
Distinct(lab, s) == \A i, j \in 1..Len(s) : i # j => lab[s[i]] # lab[s[j]]
DistinctInv == \A m \in Metrics : Distinct(label, lvs[m])

(* As long as nothing is deleted from the old metric, the array that the   *)
(* copy ranges over is the beginning of its slice and holds what was owed, *)
(* and the new metric has what the loop has passed.                        *)
HasCopy(x) == \E y \in Elements(lvs[New]) : label[y] = label[x] /\ datum[y] = datum[x]
CopyInv ==
  add = "copy" /\ ~disturbed =>
    /\ Len(copyView.arr) <= Len(lvs[Old])
    /\ \A j \in 1..Len(copyView.arr) : copyView.arr[j] = lvs[Old][j]
    /\ owed \subseteq Elements(copyView.arr)
    /\ \A j \in 1..Len(copyView.arr) : j < copyView.i => HasCopy(copyView.arr[j])

(* The inductive invariant: types, what the lists of the store hold while  *)
(* a load goes on, and the LabelValues of the metrics.                     *)
TypesInv == ObjectsOK /\ LoadOK /\ GcOK
ListInv ==
  /\ PassedInv /\ OwnerInv /\ FoundInv
  /\ KindsAgree /\ OncePerSource /\ UntouchedInv /\ LiveExported
IInv == TypesInv /\ ListInv /\ DistinctInv /\ CopyInv

-----------------------------------------------------------------------------
(* Sequences, and what is in them.                                         *)
LEMMA ElementsIn ==
  ASSUME NEW T, NEW s \in Seq(T), NEW x \in Elements(s)
  PROVE  x \in T
<1>1. PICK i \in 1..Len(s) : s[i] = x
  BY DEF Elements
<1> QED BY <1>1

LEMMA ElementsOfAppend ==
  ASSUME NEW T, NEW s \in Seq(T), NEW x \in T
  PROVE  /\ Append(s, x) \in Seq(T) /\ Len(Append(s, x)) = Len(s) + 1
         /\ Append(s, x)[Len(s) + 1] = x
         /\ \A i \in 1..Len(s) : Append(s, x)[i] = s[i]
         /\ Elements(Append(s, x)) = Elements(s) \cup {x}
<1>1. /\ Append(s, x) \in Seq(T) /\ Len(Append(s, x)) = Len(s) + 1
      /\ Append(s, x)[Len(s) + 1] = x
      /\ \A i \in 1..Len(s) : Append(s, x)[i] = s[i]
  OBVIOUS
<1> DEFINE a == Append(s, x)
<1> HIDE DEF a
<1>2. ASSUME NEW e PROVE e \in Elements(a) <=> e \in Elements(s) \cup {x}
  <2>1. ASSUME e \in Elements(a) PROVE e \in Elements(s) \cup {x}
    <3>1. PICK i \in 1..(Len(s) + 1) : a[i] = e
      BY <1>1, <2>1 DEF Elements, a
    <3>2. CASE i = Len(s) + 1
      BY <1>1, <3>1, <3>2 DEF a
    <3>3. CASE i \in 1..Len(s)
      BY <1>1, <3>1, <3>3 DEF a, Elements
    <3> QED BY <3>2, <3>3
  <2>2. ASSUME e \in Elements(s) PROVE e \in Elements(a)
    <3>1. PICK i \in 1..Len(s) : s[i] = e
      BY <2>2 DEF Elements
    <3>2. i \in 1..Len(a) /\ a[i] = e
      BY <1>1, <3>1 DEF a
    <3> QED BY <3>2 DEF Elements
  <2>3. x \in Elements(a)
    <3>1. Len(s) + 1 \in 1..Len(a) /\ a[Len(s) + 1] = x
      BY <1>1 DEF a
    <3> QED BY <3>1 DEF Elements
  <2> QED BY <2>1, <2>2, <2>3
<1> QED BY <1>1, <1>2 DEF a

LEMMA Cut ==
  ASSUME NEW T, NEW s \in Seq(T), NEW d \in 1..Len(s)
  PROVE  /\ RemoveAt(s, d) \in Seq(T) /\ Len(RemoveAt(s, d)) = Len(s) - 1
         /\ \A i \in 1..(Len(s) - 1) : RemoveAt(s, d)[i] = IF i < d THEN s[i] ELSE s[i + 1]
<1> DEFINE a == SubSeq(s, 1, d - 1)
           b == SubSeq(s, d + 1, Len(s))
<1>1. a \in Seq(T) /\ Len(a) = d - 1 /\ \A i \in 1..(d - 1) : a[i] = s[i]
  OBVIOUS
<1>2. b \in Seq(T) /\ Len(b) = Len(s) - d /\ \A i \in 1..(Len(s) - d) : b[i] = s[d + i]
  OBVIOUS
<1>3. RemoveAt(s, d) = a \o b
  BY DEF RemoveAt
<1> HIDE DEF a, b
<1>4. /\ a \o b \in Seq(T) /\ Len(a \o b) = Len(s) - 1
      /\ \A i \in 1..(Len(s) - 1) : (a \o b)[i] = IF i < d THEN a[i] ELSE b[i - (d - 1)]
  BY <1>1, <1>2
<1>5. ASSUME NEW i \in 1..(Len(s) - 1)
      PROVE  (a \o b)[i] = IF i < d THEN s[i] ELSE s[i + 1]
  <2>1. CASE i < d
    BY <1>1, <1>4, <2>1
  <2>2. CASE ~(i < d)
    <3>1. i - (d - 1) \in 1..(Len(s) - d) /\ d + (i - (d - 1)) = i + 1
      BY <2>2
    <3>2. b[i - (d - 1)] = s[i + 1]
      BY <1>2, <3>1
    <3> QED BY <1>4, <2>2, <3>2
  <2> QED BY <2>1, <2>2
<1> QED BY <1>3, <1>4, <1>5

LEMMA ElementsOfCut ==
  ASSUME NEW T, NEW s \in Seq(T), NEW d \in 1..Len(s)
  PROVE  /\ Elements(RemoveAt(s, d)) \subseteq Elements(s)
         /\ \A i \in 1..Len(s) : i # d => s[i] \in Elements(RemoveAt(s, d))
<1> DEFINE r == RemoveAt(s, d)
<1>1. /\ r \in Seq(T) /\ Len(r) = Len(s) - 1
      /\ \A i \in 1..(Len(s) - 1) : r[i] = IF i < d THEN s[i] ELSE s[i + 1]
  BY Cut
<1> HIDE DEF r
<1>2. ASSUME NEW e \in Elements(r) PROVE e \in Elements(s)
  <2>1. PICK i \in 1..(Len(s) - 1) : r[i] = e
    BY <1>1 DEF Elements
  <2>2. e = s[i] \/ e = s[i + 1]
    BY <1>1, <2>1
  <2>3. i \in 1..Len(s) /\ i + 1 \in 1..Len(s)
    OBVIOUS
  <2> QED BY <2>2, <2>3 DEF Elements
<1>3. ASSUME NEW i \in 1..Len(s), i # d PROVE s[i] \in Elements(r)
  <2>1. CASE i < d
    <3>1. i \in 1..Len(r) /\ r[i] = s[i]
      BY <1>1, <2>1
    <3> QED BY <3>1 DEF Elements
  <2>2. CASE i > d
    <3>1. i - 1 \in 1..(Len(s) - 1) /\ ~(i - 1 < d) /\ (i - 1) + 1 = i
      BY <2>2
    <3>2. i - 1 \in 1..Len(r) /\ r[i - 1] = s[i]
      BY <1>1, <3>1
    <3> QED BY <3>2 DEF Elements
  <2> QED BY <1>3, <2>1, <2>2
<1> QED BY <1>2, <1>3 DEF r

(* Sequences of distinct labels.                                           *)
LEMMA DistinctKept ==
  ASSUME NEW lab, NEW lab2, NEW n \in Nat, NEW s \in Seq(1..n), Distinct(lab, s),
         \A x \in 1..n : lab2[x] = lab[x]
  PROVE  Distinct(lab2, s)
<1>1. \A i \in 1..Len(s) : s[i] \in 1..n
  OBVIOUS
<1> QED BY <1>1 DEF Distinct

LEMMA DistinctAppend ==
  ASSUME NEW lab, NEW n \in Nat, NEW s \in Seq(1..n), Distinct(lab, s), NEW x,
         \A y \in Elements(s) : lab[y] # lab[x]
  PROVE  Distinct(lab, Append(s, x))
<1>1. /\ Len(Append(s, x)) = Len(s) + 1 /\ Append(s, x)[Len(s) + 1] = x
      /\ \A i \in 1..Len(s) : Append(s, x)[i] = s[i]
  OBVIOUS
<1>2. \A i \in 1..Len(s) : lab[s[i]] # lab[x]
  BY DEF Elements
<1> DEFINE a == Append(s, x)
<1> HIDE DEF a
<1> SUFFICES ASSUME NEW i \in 1..(Len(s) + 1), NEW j \in 1..(Len(s) + 1), i # j
             PROVE  lab[a[i]] # lab[a[j]]
  BY <1>1 DEF Distinct, a
<1>3. CASE i \in 1..Len(s) /\ j \in 1..Len(s)
  BY <1>1, <1>3 DEF a, Distinct
<1>4. CASE i = Len(s) + 1 /\ j \in 1..Len(s)
  BY <1>1, <1>2, <1>4 DEF a
<1>5. CASE j = Len(s) + 1 /\ i \in 1..Len(s)
  BY <1>1, <1>2, <1>5 DEF a
<1> QED BY <1>3, <1>4, <1>5

(* RemoveDatum removes one label and nothing else.                         *)
LEMMA RemovedIs ==
  ASSUME NEW n \in Nat, NEW s \in Seq(1..n), Distinct(label, s), NEW l
  PROVE  /\ Removed(s, l) \in Seq(1..n) /\ Distinct(label, Removed(s, l))
         /\ Elements(Removed(s, l)) \subseteq Elements(s)
         /\ \A x \in Elements(s) : label[x] # l => x \in Elements(Removed(s, l))
         /\ \A x \in Elements(Removed(s, l)) : label[x] # l
<1> DEFINE hits == {i \in 1..Len(s) : label[s[i]] = l}
<1>1. CASE hits = {}
  <2>1. Removed(s, l) = s
    BY <1>1 DEF Removed
  <2>2. \A x \in Elements(s) : label[x] # l
    BY <1>1 DEF Elements
  <2> QED BY <2>1, <2>2
<1>2. CASE hits # {}
  <2>1. PICK d \in hits : Removed(s, l) = RemoveAt(s, d)
    BY <1>2 DEF Removed
  <2>2. d \in 1..Len(s) /\ label[s[d]] = l
    OBVIOUS
  <2> DEFINE r == RemoveAt(s, d)
  <2>3. /\ r \in Seq(1..n) /\ Len(r) = Len(s) - 1
        /\ \A i \in 1..(Len(s) - 1) : r[i] = IF i < d THEN s[i] ELSE s[i + 1]
    BY <2>2, Cut
  <2>4. /\ Elements(r) \subseteq Elements(s)
        /\ \A i \in 1..Len(s) : i # d => s[i] \in Elements(r)
    BY <2>2, ElementsOfCut
  <2> HIDE DEF r
  <2>a. ASSUME NEW i \in 1..(Len(s) - 1)
        PROVE  \E a \in 1..Len(s) : r[i] = s[a] /\ a # d /\ a = IF i < d THEN i ELSE i + 1
    <3>1. CASE i < d
      <4>1. i \in 1..Len(s) /\ r[i] = s[i] /\ i # d
        BY <2>3, <3>1
      <4> QED BY <3>1, <4>1
    <3>2. CASE ~(i < d)
      <4>1. i + 1 \in 1..Len(s) /\ r[i] = s[i + 1] /\ i + 1 # d
        BY <2>2, <2>3, <3>2
      <4> QED BY <3>2, <4>1
    <3> QED BY <3>1, <3>2
  <2>5. Distinct(label, r)
    <3> SUFFICES ASSUME NEW i \in 1..(Len(s) - 1), NEW j \in 1..(Len(s) - 1), i # j
                 PROVE  label[r[i]] # label[r[j]]
      BY <2>3 DEF Distinct
    <3>1. PICK a \in 1..Len(s) : r[i] = s[a] /\ a = IF i < d THEN i ELSE i + 1
      BY <2>a
    <3>2. PICK b \in 1..Len(s) : r[j] = s[b] /\ b = IF j < d THEN j ELSE j + 1
      BY <2>a
    <3>3. a # b
      BY <2>2, <3>1, <3>2
    <3> QED BY <3>1, <3>2, <3>3 DEF Distinct
  <2>6. \A x \in Elements(s) : label[x] # l => x \in Elements(r)
    BY <2>2, <2>4 DEF Elements
  <2>7. ASSUME NEW x \in Elements(r) PROVE label[x] # l
    <3>1. PICK i \in 1..(Len(s) - 1) : r[i] = x
      BY <2>3 DEF Elements
    <3>2. PICK a \in 1..Len(s) : x = s[a] /\ a # d
      BY <2>a, <3>1
    <3> QED BY <2>2, <3>2 DEF Distinct
  <2> QED BY <2>1, <2>3, <2>4, <2>5, <2>6, <2>7 DEF r
<1> QED BY <1>1, <1>2

(* Views.                                                                  *)
LEMMA ViewsGrow ==
  ASSUME NEW n \in Nat, NEW k \in Nat, n <= k, NEW v \in ViewsOf(n)
  PROVE  v \in ViewsOf(k)
<1>1. v.arr \in Seq(1..k)
  BY DEF ViewsOf
<1> QED BY <1>1 DEF ViewsOf

LEMMA SeenIs ==
  ASSUME NEW n \in Nat, NEW v \in ViewsOf(n), NEW m, NEW s \in Seq(1..n)
  PROVE  /\ Seen(v, m, s) \in ViewsOf(n)
         /\ Seen(v, m, s).m = v.m /\ Seen(v, m, s).i = v.i
         /\ Len(Seen(v, m, s).arr) = Len(v.arr)
         /\ v.m # m => Seen(v, m, s) = v
<1> DEFINE a == [j \in 1..Len(v.arr) |-> IF j <= Len(s) THEN s[j] ELSE v.arr[j]]
<1>1. v.arr \in Seq(1..n)
  BY DEF ViewsOf
<1>2. a \in Seq(1..n) /\ Len(a) = Len(v.arr)
  <2>1. \A j \in 1..Len(v.arr) : (IF j <= Len(s) THEN s[j] ELSE v.arr[j]) \in 1..n
    BY <1>1
  <2> QED BY <1>1, <2>1
<1>3. Seen(v, m, s) = v \/ (v.m = m /\ Seen(v, m, s) = [v EXCEPT !.arr = a])
  BY DEF Seen
<1> HIDE DEF a
<1>4. [v EXCEPT !.arr = a] \in ViewsOf(n) /\ [v EXCEPT !.arr = a].arr = a
      /\ [v EXCEPT !.arr = a].m = v.m /\ [v EXCEPT !.arr = a].i = v.i
  BY <1>2 DEF ViewsOf
<1> QED BY <1>2, <1>3, <1>4

LEMMA SeenAppendIs ==
  ASSUME NEW n \in Nat, NEW v \in ViewsOf(n), NEW m, NEW s \in Seq(1..n),
         NEW w \in SeenAppend(v, m, s)
  PROVE  /\ w \in ViewsOf(n) /\ w.m = v.m /\ w.i = v.i /\ Len(w.arr) = Len(v.arr)
         /\ v.m # m \/ Len(s) > Len(v.arr) => w.arr = v.arr
<1>1. CASE v.m = m /\ Len(s) > Len(v.arr)
  <2>1. w = v \/ w = [v EXCEPT !.alias = FALSE]
    BY <1>1 DEF SeenAppend
  <2> QED BY <2>1 DEF ViewsOf
<1>2. CASE ~(v.m = m /\ Len(s) > Len(v.arr))
  <2>1. w = Seen(v, m, s)
    BY <1>2 DEF SeenAppend
  <2> QED BY <1>2, <2>1, SeenIs
<1> QED BY <1>1, <1>2

-----------------------------------------------------------------------------
(* Where the metrics are.                                                  *)
LEMMA Product ==
  ASSUME NEW k \in Nat
  PROVE  NNames * k \in Nat /\ NNames * (k + 1) = NNames * k + NNames
BY StoreAssumption

LEMMA MetricsMade ==
  ASSUME ObjectsOK
  PROVE  /\ NNames \in Nat /\ NNames > 0 /\ nmetrics \in Nat
         /\ \A m \in 1..nmetrics : m \in Metrics
         /\ \A x \in 1..nlvs : x \in LVs
         /\ \A n \in Names : \A v \in Elements(store[n]) : v \in 1..nmetrics
<1>1. NNames * LoadsLeft \in Nat /\ NNames * MaxLoads \in Nat
  BY Product, StoreAssumption DEF ObjectsOK
<1>2. \A m \in 1..nmetrics : m \in Metrics
  BY <1>1 DEF ObjectsOK, Metrics
<1>3. \A x \in 1..nlvs : x \in LVs
  BY StoreAssumption DEF ObjectsOK, LVs
<1>4. ASSUME NEW n \in Names, NEW v \in Elements(store[n]) PROVE v \in 1..nmetrics
  <2>1. store[n] \in Seq(1..nmetrics)
    BY DEF ObjectsOK
  <2> QED BY <2>1, ElementsIn
<1> QED BY <1>2, <1>3, <1>4, StoreAssumption DEF ObjectsOK

LEMMA NewIs ==
  ASSUME ObjectsOK, LoadOK, add # "idle"
  PROVE  /\ New \in 1..nmetrics /\ New >= base /\ base \in Nat /\ New \in Metrics
         /\ \A n \in Names : base + n - 1 \in 1..nmetrics
<1>1. \A n \in Names : base + n - 1 \in 1..nmetrics
  BY MetricsMade DEF LoadOK, Names
<1>2. New \in 1..nmetrics /\ New >= base /\ base \in Nat
  BY <1>1, MetricsMade DEF LoadOK, Names, New
<1> QED BY <1>1, <1>2, MetricsMade

LEMMA OldIs ==
  ASSUME ObjectsOK, LoadOK, PassedInv, add \in {"copy", "insert"}, dupe # 0
  PROVE  /\ dupe \in 1..Len(store[at]) /\ Old \in Elements(store[at])
         /\ Old \in 1..nmetrics /\ Old \in Metrics /\ Old # New /\ Old < base
<1>1. dupe \in 1..Len(store[at]) /\ at \in Names
  BY DEF LoadOK
<1>2. Old \in Elements(store[at])
  BY <1>1 DEF Elements, Old
<1>3. Old \in 1..nmetrics /\ Old \in Metrics
  BY <1>1, <1>2, MetricsMade
<1>4. New >= base /\ base \in Nat /\ New \in Nat
  BY NewIs
<1>5. Old < base
  BY <1>1, <1>2, <1>3, <1>4 DEF PassedInv, Names
<1> QED BY <1>1, <1>2, <1>3, <1>4, <1>5

LEMMA NewNotInStore ==
  ASSUME ObjectsOK, LoadOK, PassedInv, Making
  PROVE  New \notin InStore
<1> SUFFICES ASSUME NEW n \in Names, New \in Elements(store[n]) PROVE FALSE
  BY DEF InStore
<1>1. add # "idle" /\ add # "run" /\ at \in Names
  BY DEF Making, LoadOK
<1>2. New >= base /\ base \in Nat
  BY <1>1, NewIs
<1>3. New = base + n - 1 /\ n < at
  BY <1>1, <1>2 DEF PassedInv
<1>4. n \in Nat /\ at \in Nat
  BY <1>1 DEF Names
<1> QED BY <1>2, <1>3, <1>4 DEF New

LEMMA UsedIs ==
  ASSUME ObjectsOK, LoadOK, NEW m \in Used
  PROVE  m \in 1..nmetrics /\ m \in Metrics /\ (add # "idle" => m < base /\ m # New)
<1>1. PICK p \in Progs, n \in Names : cur[p] # 0 /\ m = cur[p] + n - 1
  BY DEF Used
<1>2. cur[p] \in Nat /\ n \in 1..NNames /\ NNames \in Nat /\ nmetrics \in Nat
  BY <1>1, MetricsMade DEF LoadOK, Names
<1>3. CASE add = "idle"
  <2>1. m \in 1..nmetrics
    BY <1>1, <1>2, <1>3 DEF LoadOK
  <2> QED BY <1>3, <2>1, MetricsMade
<1>4. CASE add # "idle"
  <2>1. base \in Nat /\ New >= base /\ New \in Nat /\ base + NNames = nmetrics + 1
    BY <1>4, NewIs DEF LoadOK
  <2>2. m < base /\ m \in 1..nmetrics
    BY <1>1, <1>2, <1>4, <2>1 DEF LoadOK
  <2> QED BY <2>1, <2>2, MetricsMade
<1> QED BY <1>3, <1>4

-----------------------------------------------------------------------------
(* Steps that change no list.                                              *)
LEMMA ListSame ==
  ASSUME ListInv,
         UNCHANGED <<store, decl, owner, cur, add, adding, base, at, dupe, halfLoaded>>
  PROVE  ListInv'
<1>1. PassedInv' /\ OwnerInv'
  BY DEF ListInv, PassedInv, OwnerInv, Elements
<1>2. FoundInv'
  BY DEF ListInv, FoundInv, AddFails, Duplicate, New, Old
<1>3. KindsAgree' /\ OncePerSource'
  BY DEF ListInv, KindsAgree, OncePerSource, Elements
<1>4. UntouchedInv' /\ LiveExported'
  BY DEF ListInv, UntouchedInv, LiveExported, Making, Elements
<1> QED BY <1>1, <1>2, <1>3, <1>4 DEF ListInv

(* Steps of the programs and of Gc: they change LabelValues only.  Those   *)
(* made before stay what they are, and without a deletion the two metrics  *)
(* of a copy keep theirs.                                                  *)
LEMMA DataStep ==
  ASSUME IInv, UNCHANGED <<store, objVars, loadVars>>,
         nlvs' \in Nat, nlvs <= nlvs', nlvs' <= MaxLVs,
         lvs' \in [Metrics -> Seq(1..nlvs')],
         label' \in [LVs -> Labels \cup {Unlabelled}],
         datum' \in [LVs -> Nat], \A x \in 1..nlvs' : datum'[x] \in 1..nlvs',
         \A x \in 1..nlvs : label'[x] = label[x] /\ datum'[x] = datum[x],
         expiry' \in [LVs -> BOOLEAN], aged' \subseteq 1..nlvs',
         GcOK', copyView'.m = copyView.m, copyView'.i = copyView.i,
         \A m \in Metrics : Distinct(label', lvs'[m]),
         add = "copy" /\ ~disturbed' =>
           /\ ~disturbed /\ copyView'.arr = copyView.arr /\ lvs'[New] = lvs[New]
           /\ Len(lvs[Old]) <= Len(lvs'[Old])
           /\ \A j \in 1..Len(lvs[Old]) : lvs'[Old][j] = lvs[Old][j]
  PROVE  IInv'
<1> USE DEF objVars, loadVars
<1>1. ObjectsOK'
  BY DEF IInv, TypesInv, ObjectsOK, LoadsLeft
<1>2. LoadOK'
  BY DEF IInv, TypesInv, LoadOK, Old
<1>3. ListInv'
  BY ListSame DEF IInv
<1>4. DistinctInv'
  BY DEF DistinctInv
<1>5. CopyInv'
  <2> SUFFICES ASSUME add = "copy", ~disturbed' PROVE CopyInv'
    BY DEF CopyInv
  <2>a. TypesInv /\ ListInv /\ CopyInv
    BY DEF IInv
  <2> DEFINE a == copyView.arr
             o == lvs[Old]
  <2>1. UNCHANGED <<New, Old>> /\ copyView'.arr = a /\ lvs'[New] = lvs[New]
    BY DEF New, Old
  <2>2. /\ Len(a) <= Len(o) /\ \A j \in 1..Len(a) : a[j] = o[j]
        /\ owed \subseteq Elements(a)
        /\ \A j \in 1..Len(a) : j < copyView.i => HasCopy(a[j])
    BY <2>a DEF CopyInv
  <2>3. dupe # 0
    BY <2>a DEF TypesInv, LoadOK
  <2>4. Old \in Metrics /\ New \in Metrics
    BY <2>3, <2>a, OldIs, NewIs DEF TypesInv, ListInv
  <2>5. a \in Seq(1..nlvs) /\ o \in Seq(1..nlvs) /\ lvs[New] \in Seq(1..nlvs) /\ nlvs \in Nat
    BY <2>4, <2>a DEF TypesInv, GcOK, ViewsOf, ObjectsOK
  <2>6. /\ Len(a) <= Len(lvs'[Old]) /\ \A j \in 1..Len(a) : a[j] = lvs'[Old][j]
    BY <2>2, <2>4, <2>5
  <2>7. ASSUME NEW j \in 1..Len(a), j < copyView.i
        PROVE  \E y \in Elements(lvs[New]) : label'[y] = label'[a[j]] /\ datum'[y] = datum'[a[j]]
    <3>1. PICK y \in Elements(lvs[New]) : label[y] = label[a[j]] /\ datum[y] = datum[a[j]]
      BY <2>2, <2>7 DEF HasCopy
    <3>2. y \in 1..nlvs /\ a[j] \in 1..nlvs
      BY <2>5, ElementsIn
    <3> QED BY <3>1, <3>2
  <2> HIDE DEF a, o
  <2>9. \A j \in 1..Len(a) : j < copyView.i =>
          \E y \in Elements(lvs[New])' : label'[y] = label'[a[j]] /\ datum'[y] = datum'[a[j]]
    BY <2>1, <2>7 DEF Elements
  <2> QED BY <2>1, <2>2, <2>6, <2>9 DEF CopyInv, HasCopy, Elements
<1> QED BY <1>1, <1>2, <1>3, <1>4, <1>5 DEF IInv, TypesInv

LEMMA InStoreSame ==
  ASSUME UNCHANGED store
  PROVE  InStore' = InStore
BY DEF InStore, Elements

(* GetDatum, with or without a new LabelValue.                             *)
LEMMA UpdateKeeps ==
  ASSUME IInv, NEW m \in Used, NEW l \in Labels \cup {Unlabelled}, Update(m, l),
         UNCHANGED <<expiry, disturbed, store, objVars, loadVars, gcVars>>
  PROVE  IInv'
<1>a. ObjectsOK /\ LoadOK /\ GcOK /\ ListInv /\ DistinctInv /\ CopyInv
  BY DEF IInv, TypesInv
<1>b. m \in Metrics /\ (add = "copy" => m # New)
  BY <1>a, UsedIs
<1>1. CASE l \in LabelsOf(lvs[m])
  <2>1. aged' \subseteq aged /\ UNCHANGED <<nlvs, label, datum, lvs, copyView, gcView>>
    BY <1>1 DEF Update, lvVars
  <2>2. GcOK'
    BY <1>a, <2>1, InStoreSame DEF GcOK, gcVars, Over
  <2>3. \A x \in Metrics : Distinct(label', lvs'[x])
    BY <1>a, <2>1 DEF DistinctInv
  <2> QED BY <1>a, <2>1, <2>2, <2>3, DataStep DEF ObjectsOK
<1>2. CASE l \notin LabelsOf(lvs[m])
  <2> DEFINE s == Append(lvs[m], nlvs + 1)
             n == nlvs + 1
  <2>1. /\ nlvs < MaxLVs /\ nlvs' = n /\ lvs' = [lvs EXCEPT ![m] = s]
        /\ label' = [label EXCEPT ![n] = l] /\ datum' = [datum EXCEPT ![n] = n]
        /\ copyView' \in SeenAppend(copyView, m, s) /\ gcView' \in SeenAppend(gcView, m, s)
        /\ UNCHANGED aged
    BY <1>2 DEF Update
  <2>2. nlvs \in Nat /\ n \in Nat /\ n \in LVs /\ MaxLVs \in Nat
    BY <1>a, <2>1, StoreAssumption DEF ObjectsOK, LVs
  <2>3. lvs[m] \in Seq(1..nlvs) /\ \A x \in Metrics : lvs[x] \in Seq(1..nlvs)
    BY <1>a, <1>b DEF ObjectsOK
  <2>4. \A x \in Metrics : lvs[x] \in Seq(1..n)
    BY <2>2, <2>3
  <2>5. /\ s \in Seq(1..n) /\ Len(s) = Len(lvs[m]) + 1
        /\ \A i \in 1..Len(lvs[m]) : s[i] = lvs[m][i]
    BY <1>b, <2>2, <2>4, ElementsOfAppend
  <2> HIDE DEF s
  <2>6. lvs' \in [Metrics -> Seq(1..n)] /\ lvs'[m] = s /\ \A x \in Metrics : x # m => lvs'[x] = lvs[x]
    BY <1>a, <1>b, <2>1, <2>4, <2>5 DEF ObjectsOK
  <2>7. /\ label' \in [LVs -> Labels \cup {Unlabelled}] /\ datum' \in [LVs -> Nat]
        /\ label'[n] = l /\ datum'[n] = n
        /\ \A x \in 1..nlvs : label'[x] = label[x] /\ datum'[x] = datum[x]
    BY <1>a, <2>1, <2>2, MetricsMade DEF ObjectsOK
  <2>8. \A x \in 1..n : datum'[x] \in 1..n
    BY <1>a, <2>2, <2>7 DEF ObjectsOK
  <2>9. copyView \in ViewsOf(n) /\ gcView \in ViewsOf(n)
    BY <1>a, <2>2, ViewsGrow DEF GcOK
  <2>10. /\ copyView' \in ViewsOf(n) /\ copyView'.m = copyView.m /\ copyView'.i = copyView.i
         /\ copyView.m # m \/ Len(s) > Len(copyView.arr) => copyView'.arr = copyView.arr
    BY <2>1, <2>2, <2>5, <2>9, SeenAppendIs
  <2>11. /\ gcView' \in ViewsOf(n) /\ gcView'.m = gcView.m /\ gcView'.i = gcView.i
         /\ Len(gcView'.arr) = Len(gcView.arr)
    BY <2>1, <2>2, <2>5, <2>9, SeenAppendIs
  <2>12. GcOK'
    <3>1. gcView'.arr = <<>> <=> gcView.arr = <<>>
      BY <2>9, <2>11 DEF ViewsOf
    <3> QED BY <1>a, <2>1, <2>10, <2>11, <3>1, InStoreSame DEF GcOK, gcVars, Over
  <2>13. ASSUME NEW x \in Metrics PROVE Distinct(label', lvs'[x])
    <3>1. Distinct(label', lvs[x])
      <4>1. Distinct(label, lvs[x]) /\ lvs[x] \in Seq(1..nlvs)
        BY <1>a, <2>3 DEF DistinctInv
      <4>2. \A y \in 1..nlvs : label'[y] = label[y]
        BY <2>7
      <4> QED BY <2>2, <4>1, <4>2, DistinctKept
    <3>2. CASE x = m
      <4>1. \A y \in Elements(lvs[m]) : label'[y] # label'[n]
        <5> SUFFICES ASSUME NEW y \in Elements(lvs[m]) PROVE label'[y] # l
          BY <2>7
        <5>1. y \in 1..nlvs
          BY <2>3, ElementsIn
        <5>2. label[y] \in LabelsOf(lvs[m])
          BY DEF LabelsOf
        <5> QED BY <1>2, <2>7, <5>1, <5>2
      <4> QED BY <2>2, <2>3, <2>6, <3>1, <3>2, <4>1, DistinctAppend DEF s
    <3> QED BY <2>6, <3>1, <3>2
  <2>14. ASSUME add = "copy", ~disturbed'
         PROVE  /\ ~disturbed /\ copyView'.arr = copyView.arr /\ lvs'[New] = lvs[New]
                /\ Len(lvs[Old]) <= Len(lvs'[Old])
                /\ \A j \in 1..Len(lvs[Old]) : lvs'[Old][j] = lvs[Old][j]
    <3>1. Old \in Metrics /\ New \in Metrics /\ copyView.m = Old
      <4>1. dupe # 0 /\ copyView.m = Old
        BY <1>a, <2>14 DEF LoadOK
      <4> QED BY <1>a, <2>14, <4>1, OldIs, NewIs DEF ListInv
    <3>2. ~disturbed
      BY <2>14
    <3>3. Len(copyView.arr) <= Len(lvs[Old])
      BY <1>a, <2>14, <3>2 DEF CopyInv
    <3>4. lvs'[New] = lvs[New]
      BY <1>b, <2>6, <2>14, <3>1
    <3>5. /\ Len(lvs[Old]) <= Len(lvs'[Old])
          /\ \A j \in 1..Len(lvs[Old]) : lvs'[Old][j] = lvs[Old][j]
      <4>1. lvs[Old] \in Seq(1..nlvs)
        BY <2>3, <3>1
      <4>2. CASE Old = m
        BY <2>5, <2>6, <4>1, <4>2
      <4>3. CASE Old # m
        BY <2>6, <3>1, <4>1, <4>3
      <4> QED BY <4>2, <4>3
    <3>6. copyView'.arr = copyView.arr
      <4>1. Len(copyView.arr) \in Nat /\ Len(lvs[m]) \in Nat
        BY <2>3, <2>9 DEF ViewsOf
      <4> QED BY <2>5, <2>10, <3>1, <3>3, <4>1
    <3> QED BY <3>2, <3>4, <3>5, <3>6
  <2>15. aged' \subseteq 1..n /\ expiry' \in [LVs -> BOOLEAN]
    BY <1>a, <2>1, <2>2 DEF ObjectsOK
  <2>16. nlvs' \in Nat /\ nlvs <= nlvs' /\ nlvs' <= MaxLVs
    BY <2>1, <2>2
  <2> QED BY <2>1, <2>6, <2>7, <2>8, <2>10, <2>12, <2>13, <2>14, <2>15, <2>16, DataStep
<1> QED BY <1>1, <1>2

(* RemoveDatum, by a program or by Gc.                                     *)
LEMMA RemoveKeeps ==
  ASSUME IInv, NEW m \in Metrics, add = "copy" => m # New, NEW l, RemoveDatum(m, l),
         UNCHANGED <<store, objVars, lvVars, expiry, aged, loadVars>>,
         copyView' \in ViewsOf(nlvs) => GcOK'
  PROVE  IInv'
<1>a. ObjectsOK /\ LoadOK /\ GcOK /\ ListInv /\ DistinctInv /\ CopyInv
  BY DEF IInv, TypesInv
<1> DEFINE s == Removed(lvs[m], l)
<1>1. /\ lvs' = [lvs EXCEPT ![m] = s] /\ copyView' = Seen(copyView, m, s)
      /\ disturbed' = (disturbed \/ copyView.m = m) /\ UNCHANGED <<nlvs, label, datum>>
  BY DEF RemoveDatum, lvVars
<1>2. nlvs \in Nat /\ lvs[m] \in Seq(1..nlvs)
  BY <1>a DEF ObjectsOK
<1>3. s \in Seq(1..nlvs) /\ Distinct(label, s)
  BY <1>a, <1>2, RemovedIs DEF DistinctInv
<1> HIDE DEF s
<1>4. lvs' \in [Metrics -> Seq(1..nlvs)] /\ lvs'[m] = s /\ \A x \in Metrics : x # m => lvs'[x] = lvs[x]
  BY <1>a, <1>1, <1>3 DEF ObjectsOK
<1>5. /\ copyView' \in ViewsOf(nlvs) /\ copyView'.m = copyView.m /\ copyView'.i = copyView.i
      /\ copyView.m # m => copyView' = copyView
  BY <1>a, <1>1, <1>2, <1>3, SeenIs DEF GcOK
<1>6. GcOK'
  BY <1>5
<1>7. \A x \in Metrics : Distinct(label', lvs'[x])
  BY <1>a, <1>1, <1>3, <1>4 DEF DistinctInv
<1>8. ASSUME add = "copy", ~disturbed'
      PROVE  /\ ~disturbed /\ copyView'.arr = copyView.arr /\ lvs'[New] = lvs[New]
             /\ Len(lvs[Old]) <= Len(lvs'[Old])
             /\ \A j \in 1..Len(lvs[Old]) : lvs'[Old][j] = lvs[Old][j]
  <2>1. dupe # 0 /\ copyView.m = Old
    BY <1>a, <1>8 DEF LoadOK
  <2>2. Old \in Metrics /\ New \in Metrics
    BY <1>a, <1>8, <2>1, OldIs, NewIs DEF ListInv
  <2>3. ~disturbed /\ copyView.m # m
    BY <1>1, <1>8
  <2>4. lvs'[New] = lvs[New] /\ lvs'[Old] = lvs[Old] /\ copyView' = copyView
    BY <1>4, <1>5, <1>8, <2>1, <2>2, <2>3
  <2>5. lvs[Old] \in Seq(1..nlvs)
    BY <1>a, <2>2 DEF ObjectsOK
  <2> QED BY <2>3, <2>4, <2>5
<1> QED BY <1>a, <1>1, <1>4, <1>5, <1>6, <1>7, <1>8, DataStep DEF ObjectsOK

(* Every step of a program.                                                *)
LEMMA UseMetricKeeps ==
  ASSUME IInv, UseMetric
  PROVE  IInv'
<1>a. ObjectsOK /\ LoadOK /\ GcOK /\ ListInv /\ DistinctInv /\ CopyInv
  BY DEF IInv, TypesInv
<1>0. PICK m \in Used :
        \/ \E l \in Labels \cup {Unlabelled} : Update(m, l) /\ UNCHANGED <<expiry, dels, disturbed>>
        \/ \E l \in Labels : Delete(m, l) /\ UNCHANGED <<lvVars, expiry, aged>>
        \/ \E l \in Labels :
             ExpireDatum(m, l) /\ UNCHANGED <<lvVars, lvs, aged, copyView, gcView, dels, disturbed>>
  BY DEF UseMetric
<1>b. UNCHANGED <<store, objVars, loadVars, gcVars>>
  BY DEF UseMetric
<1>c. m \in Metrics /\ (add = "copy" => m # New)
  BY <1>a, UsedIs
<1>d. lvs[m] \in Seq(1..nlvs) /\ nlvs \in Nat /\ Distinct(label, lvs[m])
  BY <1>a, <1>c DEF ObjectsOK, DistinctInv
<1>1. ASSUME NEW l \in Labels \cup {Unlabelled}, Update(m, l), UNCHANGED <<expiry, dels, disturbed>>
      PROVE  IInv'
  BY <1>1, <1>b, UpdateKeeps
<1>2. ASSUME NEW l \in Labels, Delete(m, l), UNCHANGED <<lvVars, expiry, aged>>
      PROVE  IInv'
  <2> DEFINE s == Removed(lvs[m], l)
  <2>1. RemoveDatum(m, l) /\ gcView' = Seen(gcView, m, s) /\ nlvs' = nlvs
    BY <1>2 DEF Delete, lvVars
  <2>2. s \in Seq(1..nlvs)
    BY <1>d, RemovedIs
  <2> HIDE DEF s
  <2>3. /\ gcView' \in ViewsOf(nlvs) /\ gcView'.m = gcView.m /\ gcView'.i = gcView.i
        /\ Len(gcView'.arr) = Len(gcView.arr)
    BY <1>a, <1>d, <2>1, <2>2, SeenIs DEF GcOK
  <2>4. gcView'.arr = <<>> <=> gcView.arr = <<>>
    BY <1>a, <2>3 DEF GcOK, ViewsOf
  <2>5. copyView' \in ViewsOf(nlvs) => GcOK'
    BY <1>a, <1>b, <2>1, <2>3, <2>4, InStoreSame DEF GcOK, gcVars, Over
  <2> QED BY <1>2, <1>b, <1>c, <2>1, <2>5, RemoveKeeps
<1>3. ASSUME NEW l \in Labels, ExpireDatum(m, l),
             UNCHANGED <<lvVars, lvs, aged, copyView, gcView, dels, disturbed>>
      PROVE  IInv'
  <2>1. expiry' \in [LVs -> BOOLEAN]
    BY <1>3, <1>a DEF ExpireDatum, ObjectsOK
  <2>2. GcOK'
    BY <1>3, <1>a, <1>b, InStoreSame DEF GcOK, gcVars, lvVars, Over
  <2>3. \A x \in Metrics : Distinct(label', lvs'[x])
    BY <1>3, <1>a DEF DistinctInv, lvVars
  <2>4. UNCHANGED <<nlvs, label, datum, lvs, aged, copyView, disturbed>>
    BY <1>3 DEF lvVars
  <2>5. add = "copy" => lvs[Old] \in Seq(1..nlvs)
    <3>1. add = "copy" => dupe # 0
      BY <1>a DEF LoadOK
    <3>2. add = "copy" => Old \in Metrics
      BY <1>a, <3>1, OldIs DEF ListInv
    <3> QED BY <1>a, <3>2 DEF ObjectsOK
  <2> QED BY <1>a, <1>b, <2>1, <2>2, <2>3, <2>4, <2>5, DataStep DEF ObjectsOK
<1> QED BY <1>0, <1>1, <1>2, <1>3

(* The passing of time, and every step of Gc.                              *)
LEMMA GcKeeps ==
  ASSUME IInv, Age \/ GcStep
  PROVE  IInv'
<1>a. ObjectsOK /\ LoadOK /\ GcOK /\ ListInv /\ DistinctInv /\ CopyInv
  BY DEF IInv, TypesInv
<1>b. UNCHANGED <<store, objVars, nlvs, label, datum, expiry, loadVars>>
  BY DEF Age, GcStep, Gc, GcMetric, GcCheck, GcRemove, lvVars
<1>c. nlvs \in Nat /\ lvs \in [Metrics -> Seq(1..nlvs)]
  BY <1>a DEF ObjectsOK
<1>d. \A m \in InStore : m \in Metrics /\ m # 0
  <2>1. \A m \in InStore : m \in 1..nmetrics
    BY <1>a, MetricsMade DEF InStore
  <2> QED BY <1>a, <2>1, MetricsMade
<1>1. ASSUME UNCHANGED <<lvs, copyView, disturbed>>, aged' \subseteq 1..nlvs, GcOK'
      PROVE  IInv'
  <2>1. \A x \in Metrics : Distinct(label', lvs'[x])
    BY <1>1, <1>a, <1>b DEF DistinctInv
  <2>2. add = "copy" => lvs[Old] \in Seq(1..nlvs)
    <3>1. add = "copy" => dupe # 0
      BY <1>a DEF LoadOK
    <3>2. add = "copy" => Old \in Metrics
      BY <1>a, <3>1, OldIs DEF ListInv
    <3> QED BY <1>a, <3>2 DEF ObjectsOK
  <2> QED BY <1>a, <1>b, <1>1, <2>1, <2>2, DataStep DEF ObjectsOK
<1>2. CASE Age
  <2>1. PICK d \in {datum[x] : x \in {y \in 1..nlvs : expiry[y]}} : aged' = aged \cup {d}
    BY <1>2 DEF Age
  <2>2. d \in 1..nlvs
    BY <1>a DEF ObjectsOK
  <2>3. aged' \subseteq 1..nlvs
    BY <1>a, <2>1, <2>2 DEF ObjectsOK
  <2>4. UNCHANGED <<lvs, copyView, disturbed, gcView, gcVars>>
    BY <1>2 DEF Age
  <2>5. GcOK'
    BY <1>a, <1>b, <2>4, InStoreSame DEF GcOK, gcVars, Over
  <2> QED BY <1>1, <2>3, <2>4, <2>5
<1>3. CASE Gc
  <2>1. UNCHANGED <<lvs, copyView, disturbed, gcView, aged>> /\ gcTodo' = InStore /\ gc' = "scan"
    BY <1>3 DEF Gc, InStore
  <2>2. GcOK'
    BY <1>a, <1>b, <2>1, InStoreSame DEF GcOK
  <2> QED BY <1>1, <1>a, <2>1, <2>2 DEF ObjectsOK
<1>4. CASE GcMetric
  <2>1. UNCHANGED <<lvs, copyView, disturbed, aged>> /\ gc = "scan"
    BY <1>4 DEF GcMetric
  <2>2. ASSUME NEW m \in gcTodo, gcTodo' = gcTodo \ {m}, gcView' = View(m), gc' = gc
        PROVE  GcOK'
    <3>1. m \in InStore /\ m \in Metrics /\ m # 0 /\ m \in Nat
      BY <1>a, <1>d DEF GcOK, Metrics
    <3>2. lvs[m] \in Seq(1..nlvs)
      BY <1>c, <3>1
    <3>3. View(m) \in ViewsOf(nlvs) /\ View(m).m = m
      BY <3>1, <3>2 DEF View, ViewsOf
    <3> QED BY <1>a, <1>b, <2>1, <2>2, <3>1, <3>3, InStoreSame DEF GcOK
  <2>3. ASSUME gcTodo = {}, gc' = "idle", gcView' = NoView, UNCHANGED gcTodo
        PROVE  GcOK'
    <3>1. NoView \in ViewsOf(nlvs) /\ NoView.m = 0 /\ NoView.arr = <<>>
      <4>1. <<>> \in Seq(1..nlvs)
        OBVIOUS
      <4> QED BY <4>1 DEF NoView, ViewsOf
    <3> QED BY <1>a, <1>b, <2>1, <2>3, <3>1, InStoreSame DEF GcOK
  <2>4. GcOK'
    BY <1>4, <2>2, <2>3 DEF GcMetric
  <2> QED BY <1>1, <1>a, <2>1, <2>4 DEF ObjectsOK
<1>5. CASE GcCheck
  <2>1. UNCHANGED <<lvs, copyView, disturbed, aged, gcTodo>> /\ gc = "scan" /\ ~Over(gcView)
    BY <1>5 DEF GcCheck
  <2>2. CASE gc' = "remove" /\ UNCHANGED gcView
    <3>1. GcOK'
      BY <1>a, <1>b, <2>1, <2>2, InStoreSame DEF GcOK, Over
    <3> QED BY <1>1, <1>a, <2>1, <3>1 DEF ObjectsOK
  <2>3. CASE gcView' = [gcView EXCEPT !.i = @ + 1] /\ UNCHANGED gc
    <3> DEFINE v == [gcView EXCEPT !.i = @ + 1]
    <3>1. v \in ViewsOf(nlvs) /\ v.m = gcView.m /\ v.arr = gcView.arr
      BY <1>a DEF GcOK, ViewsOf
    <3> HIDE DEF v
    <3>2. GcOK'
      BY <1>a, <1>b, <2>1, <2>3, <3>1, InStoreSame DEF GcOK, v
    <3> QED BY <1>1, <1>a, <2>1, <3>2 DEF ObjectsOK
  <2> QED BY <1>5, <2>2, <2>3 DEF GcCheck
<1>6. CASE GcRemove
  <2> DEFINE m == gcView.m
             l == label[gcView.arr[gcView.i]]
             s == Removed(lvs[m], l)
             w == Seen(gcView, m, s)
  <2>1. /\ RemoveDatum(m, l) /\ gcView' = [w EXCEPT !.i = @ + 1] /\ gc = "remove" /\ gc' = "scan"
        /\ UNCHANGED <<store, objVars, lvVars, expiry, aged, loadVars, gcTodo>>
    BY <1>6 DEF GcRemove
  <2>2. ~Over(gcView) /\ gcView \in ViewsOf(nlvs)
    BY <1>a, <2>1 DEF GcOK
  <2>3. m # 0
    <3>1. gcView.i > 0 /\ gcView.i \in Nat
      BY <2>2 DEF ViewsOf
    <3>2. gcView.arr = <<>> => Over(gcView)
      BY <3>1 DEF Over
    <3> QED BY <1>a, <2>2, <3>2 DEF GcOK
  <2>4. m \in InStore /\ m \in Metrics
    BY <1>a, <1>d, <2>3 DEF GcOK
  <2>5. s \in Seq(1..nlvs)
    BY <1>a, <1>c, <2>4, RemovedIs DEF DistinctInv
  <2> HIDE DEF s
  <2>6. w \in ViewsOf(nlvs) /\ w.m = m
    BY <1>c, <2>2, <2>5, SeenIs
  <2> HIDE DEF w, l
  <2>7. gcView' \in ViewsOf(nlvs) /\ gcView'.m = m
    BY <2>1, <2>6 DEF ViewsOf
  <2>8. copyView' \in ViewsOf(nlvs) => GcOK'
    BY <1>a, <1>b, <2>1, <2>3, <2>4, <2>7, InStoreSame DEF GcOK
  <2>9. add = "copy" => m # New
    BY <1>a, <2>4, NewNotInStore DEF Making, ListInv
  <2> QED BY <2>1, <2>4, <2>8, <2>9, RemoveKeeps
<1> QED BY <1>2, <1>3, <1>4, <1>5, <1>6 DEF GcStep

-----------------------------------------------------------------------------
(* Steps of a load.                                                        *)

(* While the list that is looked at does not change.                       *)
LEMMA ListMaking ==
  ASSUME ListInv, Making, Making',
         UNCHANGED <<store, decl, owner, cur, adding, base, at, halfLoaded>>, FoundInv'
  PROVE  ListInv'
<1>0. add # "idle" /\ add' # "idle" /\ add # "run" /\ add' # "run"
  BY DEF Making
<1>1. PassedInv' /\ OwnerInv'
  BY <1>0 DEF ListInv, PassedInv, OwnerInv, Elements
<1>2. KindsAgree' /\ OncePerSource'
  BY DEF ListInv, KindsAgree, OncePerSource, Elements
<1>3. UntouchedInv' /\ LiveExported'
  BY <1>0 DEF ListInv, UntouchedInv, LiveExported, Elements
<1> QED BY <1>1, <1>2, <1>3 DEF ListInv

LEMMA AddKeeps ==
  ASSUME IInv, Add
  PROVE  IInv'
<1>a. ObjectsOK /\ LoadOK /\ GcOK /\ ListInv /\ DistinctInv /\ CopyInv
  BY DEF IInv, TypesInv
<1>b. /\ add = "add"
      /\ UNCHANGED <<store, nmetrics, decl, owner, loads, nlvs, label, datum, lvs, expiry, aged>>
      /\ UNCHANGED <<cur, adding, base, at, gc, gcTodo, gcView>>
  BY DEF Add, objVars, lvVars, gcVars
<1>c. ObjectsOK' /\ DistinctInv'
  BY <1>a, <1>b DEF ObjectsOK, DistinctInv, LoadsLeft
<1>d. at \in Names /\ store[at] \in Seq(1..nmetrics) /\ NNames \in Nat /\ nmetrics \in Nat
  BY <1>a, MetricsMade DEF LoadOK, ObjectsOK
<1> DEFINE dupes == {i \in 1..Len(store[at]) : Duplicate(store[at][i], New)}
<1>1. CASE /\ add' = "idle" /\ UNCHANGED <<dupe, copyView>>
           /\ halfLoaded' = IF at > 1 THEN halfLoaded \cup {adding} ELSE halfLoaded
  <2>1. LoadOK'
    BY <1>1, <1>a, <1>b, <1>d DEF LoadOK
  <2>2. GcOK'
    BY <1>1, <1>a, <1>b, InStoreSame DEF GcOK, Over
  <2>3. PassedInv' /\ OwnerInv' /\ FoundInv' /\ UntouchedInv' /\ CopyInv'
    BY <1>1, <1>a, <1>b DEF ListInv, PassedInv, OwnerInv, FoundInv, UntouchedInv, CopyInv, Making
  <2>4. KindsAgree' /\ OncePerSource'
    BY <1>a, <1>b DEF ListInv, KindsAgree, OncePerSource, Elements
  <2>5. LiveExported'
    <3> SUFFICES ASSUME NEW p \in Progs, p \notin halfLoaded', cur[p] # 0, NEW n \in Names
                 PROVE  cur[p] + n - 1 \in Elements(store[n])
      BY <1>b DEF LiveExported, Elements
    <3>1. CASE p # adding
      BY <1>1, <1>a, <3>1 DEF ListInv, LiveExported
    <3>2. CASE p = adding
      <4>1. at = 1 /\ adding \notin halfLoaded
        BY <1>1, <1>d, <3>2 DEF Names
      <4> QED BY <1>a, <1>b, <3>2, <4>1 DEF ListInv, UntouchedInv, Making
    <3> QED BY <3>1, <3>2
  <2> QED BY <1>c, <2>1, <2>2, <2>3, <2>4, <2>5 DEF IInv, TypesInv, ListInv
<1>2. ASSUME ~AddFails, add' \in {"copy", "insert"}, dupe' \in 0..Len(store[at]),
             dupe' = 0 => dupes = {} /\ add' = "insert", dupe' # 0 => dupe' \in dupes,
             UNCHANGED halfLoaded,
             \/ add' = "insert" /\ UNCHANGED copyView
             \/ /\ add' = "copy" /\ copyView' = View(store[at][dupe'])
                /\ owed' = Elements(lvs[store[at][dupe']])
      PROVE  IInv'
  <2>1. Making /\ Making'
    BY <1>2, <1>b DEF Making
  <2>2. FoundInv'
    <3>1. ~AddFails'
      BY <1>2, <1>b DEF AddFails, New
    <3>2. dupe' = 0 => \A i \in 1..Len(store[at]) : ~Duplicate(store[at][i], New)
      BY <1>2
    <3>3. dupe' # 0 => Duplicate(store[at][dupe'], New)
      BY <1>2
    <3> QED BY <1>b, <3>1, <3>2, <3>3 DEF FoundInv, Duplicate, New, Old
  <2>3. ListInv'
    BY <1>2, <1>a, <1>b, <2>1, <2>2, ListMaking
  <2>4. CASE add' = "insert"
    <3>1. LoadOK'
      BY <1>2, <1>a, <1>b, <2>4 DEF LoadOK
    <3>2. GcOK'
      BY <1>2, <1>a, <1>b, <2>4, InStoreSame DEF GcOK, Over
    <3>3. CopyInv'
      BY <2>4 DEF CopyInv
    <3> QED BY <1>c, <2>3, <3>1, <3>2, <3>3 DEF IInv, TypesInv
  <2>5. CASE add' = "copy"
    <3> DEFINE v == store[at][dupe']
    <3>1. /\ dupe' \in 1..Len(store[at]) /\ copyView' = View(v)
          /\ owed' = Elements(lvs[v])
      BY <1>2, <2>5
    <3>2. v \in 1..nmetrics /\ v \in Metrics
      BY <1>a, <1>d, <3>1, MetricsMade
    <3>3. lvs[v] \in Seq(1..nlvs)
      BY <1>a, <3>2 DEF ObjectsOK
    <3>4. Old' = v /\ lvs'[Old'] = lvs[v]
      BY <1>b DEF Old
    <3> HIDE DEF v
    <3>5. View(v) \in ViewsOf(nlvs) /\ View(v).m = v /\ View(v).arr = lvs[v] /\ View(v).i = 1
      BY <1>d, <3>2, <3>3 DEF View, ViewsOf
    <3>6. LoadOK'
      BY <1>a, <1>b, <2>5, <3>1, <3>4, <3>5 DEF LoadOK
    <3>7. GcOK'
      BY <1>a, <1>b, <3>1, <3>5, InStoreSame DEF GcOK, Over
    <3>8. CopyInv'
      BY <3>1, <3>3, <3>4, <3>5 DEF CopyInv, Elements
    <3> QED BY <1>c, <2>3, <3>6, <3>7, <3>8 DEF IInv, TypesInv
  <2> QED BY <1>2, <2>4, <2>5
<1>3. CASE ~AddFails /\ dupes = {} /\ dupe' = 0 /\ add' = "insert" /\ UNCHANGED <<copyView, halfLoaded>>
  BY <1>2, <1>3, <1>d
<1>4. ASSUME ~AddFails, NEW i \in dupes, dupe' = i, UNCHANGED halfLoaded,
             IF decl[store[at][i]].keys # decl[New].keys
             THEN add' = "insert" /\ UNCHANGED <<copyView, owed, disturbed>>
             ELSE /\ add' = "copy" /\ copyView' = View(store[at][i])
                  /\ owed' = Elements(lvs[store[at][i]]) /\ disturbed' = FALSE
      PROVE  IInv'
  <2>1. i \in 1..Len(store[at]) /\ i # 0 /\ i \in 0..Len(store[at])
    BY <1>d
  <2> HIDE DEF dupes
  <2> QED BY <1>2, <1>4, <2>1
<1> QED BY <1>1, <1>3, <1>4 DEF Add

LEMMA CopiedKeeps ==
  ASSUME IInv, Copied
  PROVE  IInv'
<1>a. ObjectsOK /\ LoadOK /\ GcOK /\ ListInv /\ DistinctInv /\ CopyInv
  BY DEF IInv, TypesInv
<1>b. /\ add = "copy" /\ add' = "insert" /\ copyView' = NoView
      /\ UNCHANGED <<store, nmetrics, decl, owner, loads, nlvs, label, datum, lvs, expiry, aged>>
      /\ UNCHANGED <<cur, adding, base, at, dupe, halfLoaded, gc, gcTodo, gcView>>
  BY DEF Copied, objVars, lvVars, gcVars
<1>1. ObjectsOK' /\ DistinctInv' /\ CopyInv'
  BY <1>a, <1>b DEF ObjectsOK, DistinctInv, LoadsLeft, CopyInv
<1>2. LoadOK'
  BY <1>a, <1>b DEF LoadOK
<1>3. NoView \in ViewsOf(nlvs)
  <2>1. <<>> \in Seq(1..nlvs)
    OBVIOUS
  <2> QED BY <2>1 DEF NoView, ViewsOf
<1>4. GcOK'
  BY <1>a, <1>b, <1>3, InStoreSame DEF GcOK, Over
<1>5. FoundInv'
  BY <1>a, <1>b DEF ListInv, FoundInv, AddFails, Duplicate, New, Old
<1>6. ListInv'
  BY <1>a, <1>b, <1>5, ListMaking DEF Making
<1> QED BY <1>1, <1>2, <1>4, <1>6 DEF IInv, TypesInv

LEMMA RunKeeps ==
  ASSUME IInv, Run
  PROVE  IInv'
<1>a. ObjectsOK /\ LoadOK /\ GcOK /\ ListInv /\ DistinctInv /\ CopyInv
  BY DEF IInv, TypesInv
<1>b. /\ add = "run" /\ add' = "idle" /\ cur' = [cur EXCEPT ![adding] = base]
      /\ halfLoaded' = halfLoaded \ {adding}
      /\ UNCHANGED <<store, nmetrics, decl, owner, loads, nlvs, label, datum, lvs, expiry, aged>>
      /\ UNCHANGED <<adding, base, at, dupe, copyView, gc, gcTodo, gcView>>
  BY DEF Run, objVars, lvVars, gcVars
<1>c. /\ adding \in Progs /\ base \in Nat /\ base + NNames = nmetrics + 1
      /\ NNames \in Nat /\ nmetrics \in Nat
  BY <1>a, <1>b, MetricsMade DEF LoadOK
<1>d. cur'[adding] = base /\ \A p \in Progs : p # adding => cur'[p] = cur[p]
  BY <1>a, <1>b, <1>c DEF LoadOK
<1>1. ObjectsOK' /\ DistinctInv' /\ CopyInv'
  BY <1>a, <1>b DEF ObjectsOK, DistinctInv, LoadsLeft, CopyInv
<1>2. LoadOK'
  BY <1>a, <1>b, <1>c, <1>d DEF LoadOK
<1>3. GcOK'
  BY <1>a, <1>b, InStoreSame DEF GcOK, Over
<1>4. PassedInv' /\ FoundInv' /\ UntouchedInv'
  BY <1>b DEF PassedInv, FoundInv, UntouchedInv, Making
<1>5. KindsAgree' /\ OncePerSource'
  BY <1>a, <1>b DEF ListInv, KindsAgree, OncePerSource, Elements
<1>6. OwnerInv'
  BY <1>a, <1>b, <1>c, <1>d DEF ListInv, OwnerInv
<1>7. LiveExported'
  <2> SUFFICES ASSUME NEW p \in Progs, p \notin halfLoaded', cur'[p] # 0, NEW n \in Names
               PROVE  cur'[p] + n - 1 \in Elements(store[n])
    BY <1>b DEF LiveExported, Elements
  <2>1. CASE p = adding
    BY <1>a, <1>b, <1>d, <2>1 DEF ListInv, PassedInv
  <2>2. CASE p # adding
    BY <1>a, <1>b, <1>d, <2>2 DEF ListInv, LiveExported
  <2> QED BY <2>1, <2>2
<1> QED BY <1>1, <1>2, <1>3, <1>4, <1>5, <1>6, <1>7 DEF IInv, TypesInv, ListInv

(* The list's elements u and v are at two places of s other than d, or v   *)
(* is the new one.                                                         *)
TwoPlaces(s, d, x, u, v) ==
  \E a \in 1..Len(s) :
    /\ a # d /\ u = s[a]
    /\ v = x \/ \E b \in 1..Len(s) : b # a /\ b # d /\ v = s[b]

(* The list after Insert: the new metric at its end, without the one at    *)
(* dupeIndex.                                                              *)
ListWith(s, x, d) == IF d = 0 THEN Append(s, x) ELSE RemoveAt(Append(s, x), d)

LEMMA Inserted ==
  ASSUME NEW n \in Nat, NEW s \in Seq(1..n), NEW x \in 1..n, NEW d \in 0..Len(s)
  PROVE  LET r == ListWith(s, x, d) IN
         /\ r \in Seq(1..n) /\ Elements(r) \subseteq Elements(s) \cup {x} /\ x \in Elements(r)
         /\ \A i \in 1..Len(s) : i # d => s[i] \in Elements(r)
         /\ \A i, j \in 1..Len(r) : i < j =>
              TwoPlaces(s, d, x, r[i], r[j])
<1> DEFINE t == Append(s, x)
           r == ListWith(s, x, d)
<1>1. /\ t \in Seq(1..n) /\ Len(t) = Len(s) + 1 /\ t[Len(s) + 1] = x
      /\ \A i \in 1..Len(s) : t[i] = s[i]
      /\ Elements(t) = Elements(s) \cup {x}
  BY ElementsOfAppend
<1> HIDE DEF t, r
<1>2. CASE d = 0
  <2>1. r = t
    BY <1>2 DEF t, r, ListWith
  <2>a. Len(s) \in Nat /\ Len(r) = Len(s) + 1 /\ \A i \in 1..Len(s) : r[i] = s[i]
    BY <1>1, <2>1
  <2>2. \A i \in 1..Len(s) : s[i] \in Elements(r)
    BY <1>1, <2>1 DEF Elements
  <2>3. ASSUME NEW i \in 1..Len(r), NEW j \in 1..Len(r), i < j
        PROVE  TwoPlaces(s, d, x, r[i], r[j])
    <3>1. i \in 1..Len(s) /\ i # d /\ r[i] = s[i]
      <4>1. i \in 1..Len(s) /\ i # d
        BY <1>2, <2>a, <2>3
      <4> QED BY <2>a, <4>1
    <3>2. CASE j = Len(s) + 1
      BY <1>1, <2>1, <3>1, <3>2 DEF TwoPlaces
    <3>3. CASE j # Len(s) + 1
      <4>1. j \in 1..Len(s) /\ j # d /\ j # i
        BY <1>2, <2>a, <2>3, <3>3
      <4>2. r[j] = s[j]
        BY <2>a, <4>1
      <4> QED BY <3>1, <4>1, <4>2 DEF TwoPlaces
    <3> QED BY <3>2, <3>3
  <2>4. r \in Seq(1..n) /\ Elements(r) \subseteq Elements(s) \cup {x} /\ x \in Elements(r)
    BY <1>1, <2>1
  <2> QED BY <2>2, <2>3, <2>4 DEF r
<1>3. CASE d # 0
  <2>0. d \in 1..Len(s) /\ d \in 1..Len(t) /\ d # Len(s) + 1 /\ r = RemoveAt(t, d)
    BY <1>1, <1>3 DEF t, r, ListWith
  <2>1. /\ r \in Seq(1..n) /\ Len(r) = Len(s)
        /\ \A i \in 1..Len(s) : r[i] = IF i < d THEN t[i] ELSE t[i + 1]
    <3>1. /\ r \in Seq(1..n) /\ Len(r) = Len(t) - 1
          /\ \A i \in 1..(Len(t) - 1) : r[i] = IF i < d THEN t[i] ELSE t[i + 1]
      BY <1>1, <2>0, Cut
    <3> QED BY <1>1, <3>1
  <2>2. /\ Elements(r) \subseteq Elements(t)
        /\ \A i \in 1..Len(t) : i # d => t[i] \in Elements(r)
    BY <1>1, <2>0, ElementsOfCut
  <2>3. \A i \in 1..Len(s) : i # d => s[i] \in Elements(r)
    BY <1>1, <2>2
  <2>4. x \in Elements(r)
    <3>1. Len(s) + 1 \in 1..Len(t)
      BY <1>1
    <3> QED BY <1>1, <2>0, <2>2, <3>1
  <2>5. ASSUME NEW i \in 1..Len(r), NEW j \in 1..Len(r), i < j
        PROVE  TwoPlaces(s, d, x, r[i], r[j])
    <3> DEFINE a == IF i < d THEN i ELSE i + 1
               b == IF j < d THEN j ELSE j + 1
    <3>1. i \in 1..Len(s) /\ j \in 1..Len(s)
      BY <2>1
    <3>a. r[i] = t[a] /\ r[j] = t[b]
      BY <2>1, <3>1
    <3>b. /\ a \in 1..Len(s) /\ a # d /\ b \in 1..(Len(s) + 1) /\ b # d /\ b # a
      BY <2>0, <2>5, <3>1
    <3> HIDE DEF a, b
    <3>2. a \in 1..Len(s) /\ a # d /\ r[i] = s[a]
      <4>1. t[a] = s[a]
        BY <1>1, <3>b
      <4> QED BY <3>a, <3>b, <4>1
    <3>3. b \in 1..(Len(s) + 1) /\ b # d /\ b # a /\ r[j] = t[b]
      BY <3>a, <3>b
    <3>4. CASE b = Len(s) + 1
      BY <1>1, <3>2, <3>3, <3>4 DEF TwoPlaces
    <3>5. CASE b # Len(s) + 1
      <4>1. b \in 1..Len(s) /\ r[j] = s[b]
        <5>1. b \in 1..Len(s)
          BY <1>1, <3>3, <3>5
        <5>2. t[b] = s[b]
          BY <1>1, <5>1
        <5> QED BY <3>3, <5>1, <5>2
      <4> QED BY <3>2, <3>3, <4>1 DEF TwoPlaces
    <3> QED BY <3>4, <3>5
  <2>6. r \in Seq(1..n) /\ Elements(r) \subseteq Elements(s) \cup {x}
    BY <1>1, <2>1, <2>2
  <2> QED BY <2>3, <2>4, <2>5, <2>6 DEF r
<1> QED BY <1>2, <1>3 DEF r

LEMMA InsertKeeps ==
  ASSUME IInv, Insert
  PROVE  IInv'
<1>a. ObjectsOK /\ LoadOK /\ GcOK /\ ListInv /\ DistinctInv /\ CopyInv
  BY DEF IInv, TypesInv
<1>b. /\ add = "insert" /\ gc = "idle"
      /\ \/ at < NNames /\ add' = "add" /\ at' = at + 1
         \/ ~(at < NNames) /\ add' = "run" /\ at' = at
      /\ UNCHANGED <<nmetrics, decl, owner, loads, nlvs, label, datum, lvs, expiry, aged>>
      /\ UNCHANGED <<cur, adding, base, dupe, halfLoaded, copyView, gc, gcTodo, gcView>>
  BY DEF Insert, objVars, lvVars, gcVars
<1>c. at \in Names /\ store[at] \in Seq(1..nmetrics) /\ NNames \in Nat /\ nmetrics \in Nat
  BY <1>a, MetricsMade DEF LoadOK, ObjectsOK
<1>d. /\ New \in 1..nmetrics /\ New >= base /\ base \in Nat /\ New = base + at - 1
      /\ dupe \in 0..Len(store[at])
  BY <1>a, <1>b, NewIs DEF LoadOK, New
<1> DEFINE s == store[at]
           r == ListWith(s, New, dupe)
<1>e. /\ r \in Seq(1..nmetrics) /\ Elements(r) \subseteq Elements(s) \cup {New} /\ New \in Elements(r)
      /\ \A i \in 1..Len(s) : i # dupe => s[i] \in Elements(r)
      /\ \A i, j \in 1..Len(r) : i < j =>
           TwoPlaces(s, dupe, New, r[i], r[j])
  <2>1. s \in Seq(1..nmetrics) /\ dupe \in 0..Len(s)
    BY <1>c, <1>d
  <2> HIDE DEF s
  <2> QED BY <1>c, <1>d, <2>1, Inserted
<1>f. store' = [store EXCEPT ![at] = r]
  BY DEF Insert, ListWith
<1> HIDE DEF s, r
<1>g. store'[at] = r /\ \A n \in Names : n # at => store'[n] = store[n]
  BY <1>a, <1>c, <1>f DEF ObjectsOK
<1>h. /\ FoundInv /\ KindsAgree /\ OncePerSource /\ PassedInv /\ OwnerInv /\ LiveExported
  BY <1>a DEF ListInv
<1>1. ObjectsOK' /\ DistinctInv' /\ CopyInv'
  <2>1. store' \in [Names -> Seq(1..nmetrics)]
    BY <1>a, <1>c, <1>e, <1>f DEF ObjectsOK
  <2> QED BY <1>a, <1>b, <2>1 DEF ObjectsOK, DistinctInv, LoadsLeft, CopyInv
<1>2. LoadOK'
  <2>1. at' \in Names
    BY <1>b, <1>c DEF Names
  <2> QED BY <1>a, <1>b, <2>1 DEF LoadOK
<1>3. GcOK'
  BY <1>a, <1>b DEF GcOK, Over
<1>4. FoundInv' /\ UntouchedInv'
  <2>1. add' = "add" => at' # 1
    BY <1>b, <1>c DEF Names
  <2> QED BY <1>b, <2>1 DEF FoundInv, UntouchedInv, Making
<1>5. OwnerInv'
  BY <1>b, <1>h DEF OwnerInv
<1>6. PassedInv'
  <2> SUFFICES ASSUME NEW n \in Names
               PROVE  /\ add' = "run" \/ n < at' => base + n - 1 \in Elements(store'[n])
                      /\ \A v \in Elements(store'[n]) :
                           v >= base => v = base + n - 1 /\ (add' = "run" \/ n < at')
    BY <1>b DEF PassedInv, Elements
  <2>0. n \in Nat /\ at \in Nat /\ n <= NNames /\ at <= NNames
    BY <1>c DEF Names
  <2>1. CASE n = at
    <3>1. add' = "run" \/ n < at'
      BY <1>b, <2>0, <2>1
    <3>2. \A v \in Elements(s) : ~(v >= base)
      BY <1>b, <1>c, <1>h, <2>0 DEF PassedInv, s
    <3>3. \A v \in Elements(r) : v >= base => v = New
      BY <1>e, <3>2
    <3> QED BY <1>d, <1>e, <1>g, <2>1, <3>1, <3>3
  <2>2. CASE n # at
    <3>1. (add' = "run" \/ n < at') <=> n < at \/ (n > at /\ add' = "run")
      BY <1>b, <2>0, <2>2
    <3>2. ~(n > at /\ add' = "run")
      <4>1. add' = "run" => ~(at < NNames)
        BY <1>b
      <4> QED BY <1>c, <2>0, <4>1
    <3>3. /\ n < at => base + n - 1 \in Elements(store[n])
          /\ \A v \in Elements(store[n]) : v >= base => v = base + n - 1 /\ n < at
      BY <1>b, <1>h DEF PassedInv
    <3> QED BY <1>g, <2>2, <3>1, <3>2, <3>3
  <2> QED BY <2>1, <2>2
<1>7. KindsAgree'
  <2> SUFFICES ASSUME NEW n \in Names, NEW v \in Elements(store'[n]), NEW w \in Elements(store'[n])
               PROVE  decl[v].kind = decl[w].kind
    BY <1>b DEF KindsAgree, Elements
  <2>1. CASE n # at
    BY <1>g, <1>h, <2>1 DEF KindsAgree
  <2>2. CASE n = at
    <3>1. ASSUME NEW u \in Elements(s) PROVE decl[u].kind = decl[New].kind
      <4>1. 1 \in 1..Len(s) /\ s # <<>>
        <5>1. PICK i \in 1..Len(s) : s[i] = u
          BY DEF Elements
        <5>2. s \in Seq(1..nmetrics)
          BY <1>c DEF s
        <5> QED BY <5>1, <5>2
      <4>2. s[1] \in Elements(s)
        BY <4>1 DEF Elements
      <4>3. decl[s[1]].kind = decl[New].kind
        BY <1>b, <1>h, <4>1 DEF FoundInv, AddFails, s
      <4>4. decl[u].kind = decl[s[1]].kind
        BY <1>c, <1>h, <3>1, <4>2 DEF KindsAgree, s
      <4> QED BY <4>3, <4>4
    <3>2. \A u \in Elements(r) : decl[u].kind = decl[New].kind
      BY <1>e, <3>1
    <3>3. v \in Elements(r) /\ w \in Elements(r)
      BY <1>g, <2>2
    <3> QED BY <3>2, <3>3
  <2> QED BY <2>1, <2>2
<1>8. OncePerSource'
  <2> DEFINE Same(v, w) == owner[v] = owner[w] /\ decl[v].type = decl[w].type
                             /\ decl[v].source = decl[w].source
  <2> SUFFICES ASSUME NEW n \in Names, NEW i \in 1..Len(store'[n]), NEW j \in 1..Len(store'[n]),
                      Same(store'[n][i], store'[n][j])
               PROVE  i = j
    BY <1>b DEF OncePerSource
  <2>1. CASE n # at
    BY <1>g, <1>h, <2>1 DEF OncePerSource
  <2>2. CASE n = at
    <3>0. i \in 1..Len(r) /\ j \in 1..Len(r) /\ Same(r[i], r[j])
      BY <1>g, <2>2
    <3>1. ASSUME NEW a \in 1..Len(s), NEW b \in 1..Len(s), Same(s[a], s[b]) PROVE a = b
      BY <1>c, <1>h, <3>1 DEF OncePerSource, s
    <3>2. ASSUME NEW a \in 1..Len(s), a # dupe PROVE ~Same(s[a], New)
      <4>1. CASE dupe = 0
        BY <1>b, <1>h, <4>1 DEF FoundInv, Duplicate, s
      <4>2. CASE dupe # 0
        <5>1. Same(s[dupe], New) /\ dupe \in 1..Len(s)
          BY <1>b, <1>d, <1>h, <4>2 DEF FoundInv, Duplicate, Old, s
        <5> QED BY <3>1, <3>2, <5>1
      <4> QED BY <4>1, <4>2
    <3>3. ASSUME NEW k \in 1..Len(r), NEW l \in 1..Len(r), k < l PROVE ~Same(r[k], r[l])
      <4>1. PICK a \in 1..Len(s) :
              /\ a # dupe /\ r[k] = s[a]
              /\ r[l] = New \/ \E b \in 1..Len(s) : b # a /\ b # dupe /\ r[l] = s[b]
        BY <1>e, <3>3 DEF TwoPlaces
      <4>2. CASE r[l] = New
        BY <3>2, <4>1, <4>2
      <4>3. ASSUME NEW b \in 1..Len(s), b # a, b # dupe, r[l] = s[b] PROVE ~Same(r[k], r[l])
        <5>1. ~Same(s[a], s[b])
          BY <3>1, <4>3
        <5> QED BY <4>1, <4>3, <5>1
      <4> QED BY <4>1, <4>2, <4>3
    <3>4. Same(r[j], r[i])
      BY <3>0
    <3> HIDE DEF Same
    <3>5. ~(i < j) /\ ~(j < i)
      BY <3>0, <3>3, <3>4
    <3> QED BY <3>0, <3>5
  <2> QED BY <2>1, <2>2
<1>9. LiveExported'
  <2> SUFFICES ASSUME NEW p \in Progs, p \notin halfLoaded, cur[p] # 0, p # adding, NEW n \in Names
               PROVE  cur[p] + n - 1 \in Elements(store'[n])
    BY <1>b DEF LiveExported, Elements
  <2> DEFINE v == cur[p] + n - 1
  <2>1. v \in Elements(store[n]) /\ owner[v] = p
    BY <1>h DEF LiveExported, OwnerInv
  <2> HIDE DEF v
  <2>2. CASE n # at
    BY <1>g, <2>1, <2>2 DEF v
  <2>3. CASE n = at
    <3>1. PICK i \in 1..Len(s) : s[i] = v
      BY <2>1, <2>3 DEF Elements, s
    <3>2. i # dupe
      <4> SUFFICES ASSUME i = dupe PROVE FALSE
        OBVIOUS
      <4>1. dupe # 0 /\ v = Old
        BY <1>d, <3>1 DEF Old, s
      <4>2. owner[Old] = owner[New]
        BY <1>b, <1>h, <4>1 DEF FoundInv, Duplicate
      <4>3. owner[New] = adding
        BY <1>b, <1>c, <1>h DEF OwnerInv, New
      <4> QED BY <2>1, <4>1, <4>2, <4>3
    <3> QED BY <1>e, <1>g, <2>3, <3>1, <3>2 DEF v
  <2> QED BY <2>2, <2>3
<1> QED BY <1>1, <1>2, <1>3, <1>4, <1>5, <1>6, <1>7, <1>8, <1>9 DEF IInv, TypesInv, ListInv


LEMMA FindIs ==
  ASSUME NEW s, NEW l \in LabelsOf(s)
  PROVE  Find(s, l) \in Elements(s) /\ label[Find(s, l)] = l
BY DEF Find, LabelsOf

LEMMA SeqGrows ==
  ASSUME NEW k \in Nat, NEW n \in Nat, k <= n, NEW s \in Seq(1..k)
  PROVE  s \in Seq(1..n)
<1>1. 1..k \subseteq 1..n
  OBVIOUS
<1>2. \A i \in 1..Len(s) : s[i] \in 1..n
  BY <1>1
<1> QED BY <1>2

(* One LabelValue is copied to the new metric.                             *)
LEMMA CopyKeeps ==
  ASSUME IInv, Copy
  PROVE  IInv'
<1>a. ObjectsOK /\ LoadOK /\ GcOK /\ ListInv /\ DistinctInv /\ CopyInv
  BY DEF IInv, TypesInv
<1> DEFINE e == copyView.arr[copyView.i]
           l == label[e]
           gone == l \notin LabelsOf(lvs[Old])
           x == nlvs + 1
           y == nlvs + 2
           n == IF gone THEN y ELSE x
           rest == Removed(lvs[New], l)
           mine == Append(rest, x)
           theirs == IF gone THEN Append(lvs[Old], y) ELSE lvs[Old]
           d == IF gone THEN y ELSE datum[Find(lvs[Old], l)]
<1>1. /\ add = "copy" /\ ~Over(copyView) /\ nlvs' = n /\ n <= MaxLVs
      /\ UNCHANGED <<store, nmetrics, decl, owner, loads, expiry, aged, cur, add, adding>>
      /\ UNCHANGED <<base, at, dupe, halfLoaded, owed, gc, gcTodo, dels, disturbed>>
  BY DEF Copy, objVars, loadVars, gcVars
<1>2. /\ lvs' = [lvs EXCEPT ![New] = mine, ![Old] = theirs]
      /\ label' = [z \in LVs |-> IF z > nlvs /\ z <= n THEN l ELSE label[z]]
      /\ datum' = [z \in LVs |-> IF z <= nlvs \/ z > n THEN datum[z] ELSE d]
  BY DEF Copy
<1>3. /\ \E view \in IF gone THEN SeenAppend(copyView, Old, theirs) ELSE {copyView} :
           copyView' = [view EXCEPT !.i = @ + 1]
      /\ gcView' \in IF gone THEN SeenAppend(gcView, Old, theirs) ELSE {gcView}
  BY DEF Copy
<1>4. /\ Old \in Metrics /\ New \in Metrics /\ Old # New /\ copyView.m = Old
      /\ UNCHANGED <<New, Old>>
  <2>1. dupe # 0 /\ copyView.m = Old
    BY <1>a, <1>1 DEF LoadOK
  <2> QED BY <1>a, <1>1, <2>1, OldIs, NewIs DEF ListInv, New, Old
<1>5. /\ nlvs \in Nat /\ nlvs <= MaxLVs /\ MaxLVs \in Nat
      /\ copyView.arr \in Seq(1..nlvs) /\ copyView.i \in 1..Len(copyView.arr)
  BY <1>a, <1>1, StoreAssumption DEF ObjectsOK, GcOK, ViewsOf, Over
<1>6. e \in 1..nlvs /\ e \in LVs /\ l \in Labels \cup {Unlabelled}
  <2>1. e \in 1..nlvs
    BY <1>5
  <2>2. e \in LVs
    BY <1>a, <2>1, MetricsMade
  <2> QED BY <1>a, <2>1, <2>2 DEF ObjectsOK
<1>7. ASSUME ~gone PROVE Find(lvs[Old], l) \in Elements(lvs[Old]) /\ label[Find(lvs[Old], l)] = l
  <2>1. l \in LabelsOf(lvs[Old])
    BY <1>7
  <2> QED BY <2>1, FindIs
<1> HIDE DEF l
<1>8. /\ n \in Nat /\ nlvs < n /\ x \in 1..n /\ n \in {x, y} /\ (gone => y \in 1..n)
      /\ \A z \in 1..nlvs : z \in 1..n
      /\ \A z \in 1..n : z \in LVs
  BY <1>1, <1>5 DEF LVs
<1>9. /\ lvs[Old] \in Seq(1..nlvs) /\ lvs[New] \in Seq(1..nlvs)
      /\ \A m \in Metrics : lvs[m] \in Seq(1..nlvs)
      /\ \A m \in Metrics : Distinct(label, lvs[m])
  BY <1>4, <1>a DEF ObjectsOK, DistinctInv
<1>10. /\ d \in 1..n
  <2>1. CASE gone
    BY <1>8, <2>1
  <2>2. CASE ~gone
    <3>1. Find(lvs[Old], l) \in 1..nlvs
      BY <1>7, <1>9, <2>2, ElementsIn
    <3>2. datum[Find(lvs[Old], l)] \in 1..nlvs
      BY <1>a, <3>1 DEF ObjectsOK
    <3> QED BY <1>8, <2>2, <3>2
  <2> QED BY <2>1, <2>2
<1> HIDE DEF gone, d, n
<1>11. /\ label' \in [LVs -> Labels \cup {Unlabelled}] /\ datum' \in [LVs -> Nat]
       /\ \A z \in 1..nlvs : label'[z] = label[z] /\ datum'[z] = datum[z]
       /\ \A z \in 1..n : z > nlvs => label'[z] = l /\ datum'[z] = d
  <2>1. label \in [LVs -> Labels \cup {Unlabelled}] /\ datum \in [LVs -> Nat] /\ d \in Nat
    BY <1>8, <1>10, <1>a DEF ObjectsOK
  <2>2. /\ label' \in [LVs -> Labels \cup {Unlabelled}] /\ datum' \in [LVs -> Nat]
    BY <1>2, <1>6, <2>1
  <2>3. \A z \in 1..nlvs : z \in LVs /\ z <= nlvs /\ ~(z > nlvs)
    BY <1>5, <1>8
  <2>4. \A z \in 1..n : z \in LVs /\ z <= n /\ ~(z > n) /\ (z > nlvs => ~(z <= nlvs))
    BY <1>5, <1>8
  <2> QED BY <1>2, <2>2, <2>3, <2>4
<1>12. \A z \in 1..n : datum'[z] \in 1..n
  <2> SUFFICES ASSUME NEW z \in 1..n PROVE datum'[z] \in 1..n
    OBVIOUS
  <2>1. CASE z > nlvs
    BY <1>10, <1>11, <2>1
  <2>2. CASE ~(z > nlvs)
    <3>1. z \in 1..nlvs
      BY <1>5, <1>8, <2>2
    <3>2. datum[z] \in 1..nlvs
      BY <1>a, <3>1 DEF ObjectsOK
    <3> QED BY <1>8, <1>11, <3>1, <3>2
  <2> QED BY <2>1, <2>2
<1>13. \A m \in Metrics : Distinct(label', lvs[m])
  <2> SUFFICES ASSUME NEW m \in Metrics PROVE Distinct(label', lvs[m])
    OBVIOUS
  <2>1. lvs[m] \in Seq(1..nlvs) /\ Distinct(label, lvs[m])
    BY <1>9
  <2>2. \A z \in 1..nlvs : label'[z] = label[z]
    BY <1>11
  <2> QED BY <1>5, <2>1, <2>2, DistinctKept
<1>14. label'[x] = l /\ datum'[x] = d
  BY <1>5, <1>8, <1>11
<1>15. /\ mine \in Seq(1..n) /\ Distinct(label', mine)
       /\ Elements(mine) = Elements(rest) \cup {x}
       /\ \A z \in Elements(lvs[New]) : label[z] # l => z \in Elements(rest)
  <2>1. /\ rest \in Seq(1..nlvs) /\ Distinct(label, rest)
        /\ \A z \in Elements(rest) : label[z] # l
        /\ \A z \in Elements(lvs[New]) : label[z] # l => z \in Elements(rest)
    BY <1>4, <1>5, <1>9, RemovedIs
  <2> HIDE DEF rest
  <2>2. Distinct(label', rest)
    BY <1>5, <1>11, <2>1, DistinctKept
  <2>3. rest \in Seq(1..n)
    BY <1>5, <1>8, <2>1, SeqGrows
  <2>4. ASSUME NEW z \in Elements(rest) PROVE label'[z] # label'[x]
    <3>1. z \in 1..nlvs
      BY <2>1, ElementsIn
    <3> QED BY <1>11, <1>14, <2>1, <3>1
  <2>5. Distinct(label', mine)
    BY <1>8, <2>2, <2>3, <2>4, DistinctAppend
  <2>6. mine \in Seq(1..n) /\ Elements(mine) = Elements(rest) \cup {x}
    BY <1>8, <2>3, ElementsOfAppend
  <2> QED BY <2>1, <2>5, <2>6
<1>16. /\ theirs \in Seq(1..n) /\ Distinct(label', theirs) /\ (~gone => theirs = lvs[Old])
  <2>1. lvs[Old] \in Seq(1..n)
    BY <1>5, <1>8, <1>9, SeqGrows
  <2>2. CASE ~gone
    BY <1>4, <1>13, <2>1, <2>2
  <2>3. CASE gone
    <3>1. y \in 1..n /\ y > nlvs /\ label'[y] = l
      BY <1>5, <1>8, <1>11, <2>3
    <3>2. ASSUME NEW z \in Elements(lvs[Old]) PROVE label'[z] # label'[y]
      <4>1. z \in 1..nlvs
        BY <1>9, ElementsIn
      <4>2. label[z] \in LabelsOf(lvs[Old])
        BY DEF LabelsOf
      <4> QED BY <1>11, <2>3, <3>1, <4>1, <4>2 DEF gone
    <3>3. Append(lvs[Old], y) \in Seq(1..n)
      BY <2>1, <3>1
    <3>4. Distinct(label', Append(lvs[Old], y))
      BY <1>4, <1>8, <1>13, <2>1, <3>2, DistinctAppend
    <3> QED BY <2>3, <3>3, <3>4
  <2> QED BY <2>2, <2>3
<1> HIDE DEF mine, theirs, x, y
<1>17. /\ lvs'[New] = mine /\ lvs'[Old] = theirs
       /\ \A m \in Metrics : m # New /\ m # Old => lvs'[m] = lvs[m]
       /\ lvs' \in [Metrics -> Seq(1..n)]
  <2>1. \A m \in Metrics : lvs[m] \in Seq(1..n)
    BY <1>5, <1>8, <1>9, SeqGrows
  <2>2. lvs \in [Metrics -> Seq(1..nlvs)]
    BY <1>a DEF ObjectsOK
  <2>3. /\ lvs'[New] = mine /\ lvs'[Old] = theirs
        /\ \A m \in Metrics : m # New /\ m # Old => lvs'[m] = lvs[m]
        /\ lvs' = [m \in Metrics |-> lvs'[m]]
    BY <1>2, <1>4, <2>2
  <2>4. \A m \in Metrics : lvs'[m] \in Seq(1..n)
    BY <1>15, <1>16, <2>1, <2>3
  <2> QED BY <2>3, <2>4
<1>18. /\ copyView' \in ViewsOf(n) /\ copyView'.m = copyView.m /\ copyView'.i = copyView.i + 1
       /\ ~gone => copyView'.arr = copyView.arr
  <2>1. PICK view \in IF gone THEN SeenAppend(copyView, Old, theirs) ELSE {copyView} :
          copyView' = [view EXCEPT !.i = @ + 1]
    BY <1>3
  <2>2. copyView \in ViewsOf(n)
    BY <1>5, <1>8, <1>a, ViewsGrow DEF GcOK
  <2>3. view \in ViewsOf(n) /\ view.m = copyView.m /\ view.i = copyView.i
        /\ (~gone => view = copyView)
    <3>1. CASE gone
      <4>1. view \in SeenAppend(copyView, Old, theirs)
        BY <2>1, <3>1
      <4> QED BY <1>8, <1>16, <2>2, <3>1, <4>1, SeenAppendIs
    <3>2. CASE ~gone
      BY <2>1, <2>2, <3>2
    <3> QED BY <3>1, <3>2
  <2> QED BY <2>1, <2>3 DEF ViewsOf
<1>19. /\ gcView' \in ViewsOf(n) /\ gcView'.m = gcView.m /\ gcView'.i = gcView.i
       /\ Len(gcView'.arr) = Len(gcView.arr)
  <2>2. gcView \in ViewsOf(n)
    BY <1>5, <1>8, <1>a, ViewsGrow DEF GcOK
  <2>3. CASE gone
    <3>1. gcView' \in SeenAppend(gcView, Old, theirs)
      BY <1>3, <2>3
    <3> QED BY <1>8, <1>16, <2>2, <3>1, SeenAppendIs
  <2>4. CASE ~gone
    BY <1>3, <2>2, <2>4
  <2> QED BY <2>3, <2>4
<1>20. ObjectsOK'
  <2>1. aged' \subseteq 1..n
    BY <1>1, <1>8, <1>a DEF ObjectsOK
  <2> QED BY <1>1, <1>8, <1>11, <1>12, <1>17, <1>a, <2>1 DEF ObjectsOK, LoadsLeft
<1>21. LoadOK'
  BY <1>1, <1>4, <1>18, <1>a DEF LoadOK
<1>22. GcOK'
  <2>1. gcView'.arr = <<>> <=> gcView.arr = <<>>
    BY <1>19, <1>a DEF ViewsOf, GcOK
  <2> QED BY <1>1, <1>18, <1>19, <1>a, <2>1, InStoreSame DEF GcOK, Over
<1>23. ListInv'
  BY <1>1, <1>a, ListSame
<1>24. DistinctInv'
  BY <1>13, <1>15, <1>16, <1>17 DEF DistinctInv
<1>25. CopyInv'
  <2> SUFFICES ASSUME ~disturbed PROVE CopyInv'
    BY <1>1 DEF CopyInv
  <2> DEFINE a == copyView.arr
             o == lvs[Old]
             i == copyView.i
  <2>1. /\ Len(a) <= Len(o) /\ \A j \in 1..Len(a) : a[j] = o[j]
        /\ owed \subseteq Elements(a)
        /\ \A j \in 1..Len(a) : j < i => HasCopy(a[j])
    BY <1>1, <1>a DEF CopyInv
  <2>2. e \in Elements(o) /\ i \in 1..Len(a) /\ a \in Seq(1..nlvs) /\ o \in Seq(1..nlvs)
    <3>a. i \in 1..Len(a) /\ Len(a) \in Nat /\ Len(o) \in Nat /\ e = a[i]
      BY <1>5, <1>9
    <3>1. i \in 1..Len(o) /\ o[i] = e
      BY <2>1, <3>a
    <3> QED BY <1>5, <1>9, <3>1 DEF Elements
  <2>3. ~gone
    BY <2>2 DEF gone, l, LabelsOf
  <2>4. d = datum[e]
    <3>1. Find(o, l) \in Elements(o) /\ label[Find(o, l)] = l
      BY <1>7, <2>3 DEF gone
    <3>2. Find(o, l) = e
      <4>1. PICK j \in 1..Len(o) : o[j] = Find(o, l)
        BY <3>1 DEF Elements
      <4>2. PICK k \in 1..Len(o) : o[k] = e
        BY <2>2 DEF Elements
      <4>3. label[o[j]] = label[o[k]]
        BY <3>1, <4>1, <4>2 DEF l
      <4>4. Distinct(label, o)
        BY <1>4, <1>9
      <4> HIDE DEF o
      <4>5. j = k
        BY <4>3, <4>4 DEF Distinct
      <4> QED BY <4>1, <4>2, <4>5
    <3> QED BY <2>3, <3>2 DEF d
  <2>5. x \in Elements(mine)
    BY <1>15
  <2>6. ASSUME NEW j \in 1..Len(a), j < i + 1
        PROVE  \E z \in Elements(mine) : label'[z] = label'[a[j]] /\ datum'[z] = datum'[a[j]]
    <3>1. a[j] \in 1..nlvs
      BY <1>5, <2>6
    <3>2. CASE j = i
      <4>1. label'[e] = l /\ datum'[e] = d
        BY <1>6, <1>11, <2>4 DEF l
      <4> QED BY <1>14, <2>5, <3>2, <4>1
    <3>3. CASE j # i
      <4>1. HasCopy(a[j])
        BY <2>1, <2>2, <2>6, <3>3
      <4>2. PICK z \in Elements(lvs[New]) : label[z] = label[a[j]] /\ datum[z] = datum[a[j]]
        BY <4>1 DEF HasCopy
      <4>3. z \in 1..nlvs
        BY <1>9, ElementsIn
      <4>4. label[a[j]] # l
        <5>1. j \in 1..Len(o) /\ i \in 1..Len(o) /\ o[j] = a[j] /\ o[i] = e
          BY <2>1, <2>2
        <5>2. Distinct(label, o)
          BY <1>4, <1>9
        <5> QED BY <3>3, <5>1, <5>2 DEF Distinct, l
      <4>5. z \in Elements(mine)
        BY <1>15, <4>2, <4>4
      <4> QED BY <1>11, <3>1, <4>2, <4>3, <4>5
    <3> QED BY <3>2, <3>3
  <2>7. copyView'.arr = a /\ copyView'.i = i + 1 /\ lvs'[Old] = o
    BY <1>16, <1>17, <1>18, <2>3
  <2> HIDE DEF a, o, i
  <2>8. Elements(lvs[New])' = Elements(mine) /\ Elements(copyView.arr)' = Elements(a)
    BY <1>4, <1>17, <2>7 DEF Elements
  <2> QED BY <1>1, <1>4, <2>1, <2>6, <2>7, <2>8 DEF CopyInv, HasCopy
<1> QED BY <1>20, <1>21, <1>22, <1>23, <1>24, <1>25 DEF IInv, TypesInv

LEMMA Born ==
  ASSUME NEW born \in SUBSET Names, NEW n \in Names
  PROVE  LET c(k) == Cardinality({i \in born : i <= k})
         IN  c(n) \in Nat /\ c(NNames) \in Nat /\ c(n) <= c(NNames) /\ (n \in born => c(n) > 0)
<1> DEFINE S == {i \in born : i <= n}
           T == {i \in born : i <= NNames}
<1>1. NNames \in Nat /\ n \in Nat /\ n <= NNames
  BY StoreAssumption DEF Names
<1>2. IsFiniteSet(Names)
  BY <1>1, FS_Interval DEF Names
<1>3. S \subseteq T /\ T \subseteq Names
  <2>1. \A i \in born : i \in Names /\ i <= NNames
    BY <1>1 DEF Names
  <2> QED BY <2>1
<1>4. n \in born => n \in S
  BY <1>1
<1> HIDE DEF S, T
<1>5. IsFiniteSet(T)
  BY <1>2, <1>3, FS_Subset
<1>6. IsFiniteSet(S) /\ Cardinality(S) <= Cardinality(T)
  BY <1>3, <1>5, FS_Subset
<1>7. Cardinality(S) \in Nat /\ Cardinality(T) \in Nat
  BY <1>5, <1>6, FS_CardinalityType
<1>8. S # {} => Cardinality(S) > 0
  BY <1>6, <1>7, FS_EmptySet
<1>9. n \in born => Cardinality(S) > 0
  BY <1>4, <1>8
<1> QED BY <1>6, <1>7, <1>9 DEF S, T

(* A text is compiled.                                                     *)
LEMMA CompileKeeps ==
  ASSUME IInv, Compile
  PROVE  IInv'
<1>a. ObjectsOK /\ LoadOK /\ GcOK /\ ListInv /\ DistinctInv /\ CopyInv
  BY DEF IInv, TypesInv
<1>1. /\ add = "idle" /\ loads < MaxLoads /\ nmetrics' = nmetrics + NNames /\ loads' = loads + 1
      /\ add' = "add" /\ base' = nmetrics + 1 /\ at' = 1
      /\ UNCHANGED <<store, expiry, aged, cur, dupe, halfLoaded, copyView, gc, gcTodo, gcView>>
  BY DEF Compile, gcVars
<1> DEFINE Upto(born, n) == nlvs + Cardinality({i \in born : i <= n})
<1>3. PICK p \in Progs, t \in Texts, born \in SUBSET Names :
        /\ nlvs' = Upto(born, NNames) /\ nlvs' <= MaxLVs
        /\ decl' = [m \in Metrics |-> IF m > nmetrics /\ m <= nmetrics + NNames
                                      THEN t[m - nmetrics] ELSE decl[m]]
        /\ owner' = [m \in Metrics |-> IF m > nmetrics /\ m <= nmetrics + NNames
                                       THEN p ELSE owner[m]]
        /\ lvs' = [m \in Metrics |->
                     IF (m > nmetrics /\ m <= nmetrics + NNames) /\ m - nmetrics \in born
                     THEN <<Upto(born, m - nmetrics)>> ELSE lvs[m]]
        /\ label' = [x \in LVs |-> IF x > nlvs /\ x <= Upto(born, NNames)
                                   THEN Unlabelled ELSE label[x]]
        /\ datum' = [x \in LVs |-> IF x > nlvs /\ x <= Upto(born, NNames) THEN x ELSE datum[x]]
        /\ adding' = p
  <2>1. \A t \in Texts : {n \in Names : BornWithDatum(t[n])} \in SUBSET Names
    OBVIOUS
  <2> QED BY <2>1 DEF Compile
<1>4. /\ NNames \in Nat /\ NNames > 0 /\ nmetrics \in Nat /\ nlvs \in Nat /\ MaxLVs \in Nat
      /\ loads \in Nat /\ MaxLoads \in Nat /\ nlvs <= MaxLVs
      /\ \A m \in 1..nmetrics : m \in Metrics
      /\ \A x \in 1..nlvs : x \in LVs
      /\ \A n \in Names : \A v \in Elements(store[n]) : v \in 1..nmetrics
  BY <1>a, MetricsMade, StoreAssumption DEF ObjectsOK
<1>5. /\ nlvs' \in Nat /\ nlvs <= nlvs'
      /\ \A n \in born : Upto(born, n) \in 1..nlvs' /\ Upto(born, n) > nlvs
  <2> DEFINE c(n) == Cardinality({i \in born : i <= n})
  <2>1. \A n \in Names : /\ c(n) \in Nat /\ c(NNames) \in Nat /\ c(n) <= c(NNames)
                         /\ n \in born => c(n) > 0
    BY Born
  <2>2. NNames \in Names
    BY <1>4 DEF Names
  <2>3. nlvs' = nlvs + c(NNames) /\ \A n \in born : Upto(born, n) = nlvs + c(n) /\ n \in Names
    BY <1>3
  <2> HIDE DEF c, Upto
  <2> QED BY <1>4, <2>1, <2>2, <2>3
<1> HIDE DEF Upto
<1>6. /\ LoadsLeft' \in Nat /\ nmetrics' + NNames * LoadsLeft' = NNames * MaxLoads
      /\ nmetrics' \in Nat
      /\ \A m \in 1..nmetrics' : m \in Metrics
  <2>1. LoadsLeft' \in Nat /\ LoadsLeft = LoadsLeft' + 1
    BY <1>1, <1>4 DEF LoadsLeft
  <2> DEFINE k == LoadsLeft'
  <2> HIDE DEF k
  <2>2. k \in Nat /\ LoadsLeft = k + 1
    BY <2>1 DEF k
  <2>3. /\ NNames * k \in Nat /\ NNames * (k + 1) = NNames * k + NNames
        /\ NNames * MaxLoads \in Nat
    BY <1>4, <2>2, Product
  <2>4. nmetrics + NNames * (k + 1) = NNames * MaxLoads
    BY <1>a, <2>2 DEF ObjectsOK
  <2> DEFINE q == NNames * k
             r == NNames * MaxLoads
             w == NNames * (k + 1)
  <2>5. q \in Nat /\ r \in Nat /\ w = q + NNames /\ nmetrics + w = r
    BY <2>3, <2>4
  <2> HIDE DEF q, r, w
  <2>6. nmetrics' + q = r /\ nmetrics' \in Nat /\ nmetrics' <= r
    BY <1>1, <1>4, <2>5
  <2>7. \A m \in 1..nmetrics' : m \in Metrics
    BY <2>5, <2>6 DEF Metrics, r
  <2> QED BY <2>2, <2>6, <2>7 DEF q, r, k
<1>7. /\ \A m \in 1..nmetrics : decl'[m] = decl[m] /\ owner'[m] = owner[m]
      /\ \A n \in Names : owner'[nmetrics + n] = p
  <2>1. \A m \in 1..nmetrics : m \in Metrics /\ ~(m > nmetrics)
    BY <1>4
  <2>2. \A n \in Names : nmetrics + n \in Metrics /\ nmetrics + n > nmetrics
                         /\ nmetrics + n <= nmetrics + NNames
    BY <1>1, <1>4, <1>6 DEF Names
  <2> QED BY <1>3, <2>1, <2>2
<1>8. /\ label' \in [LVs -> Labels \cup {Unlabelled}] /\ datum' \in [LVs -> Nat]
      /\ \A x \in 1..nlvs : label'[x] = label[x] /\ datum'[x] = datum[x]
      /\ \A x \in 1..nlvs' : datum'[x] \in 1..nlvs'
  <2>1. label \in [LVs -> Labels \cup {Unlabelled}] /\ datum \in [LVs -> Nat]
    BY <1>a DEF ObjectsOK
  <2>2. \A x \in LVs : x \in Nat
    BY DEF LVs
  <2>3. /\ label' = [x \in LVs |-> IF x > nlvs /\ x <= nlvs' THEN Unlabelled ELSE label[x]]
        /\ datum' = [x \in LVs |-> IF x > nlvs /\ x <= nlvs' THEN x ELSE datum[x]]
    BY <1>3
  <2>4. /\ label' \in [LVs -> Labels \cup {Unlabelled}] /\ datum' \in [LVs -> Nat]
    BY <2>1, <2>2, <2>3
  <2>5. \A x \in 1..nlvs : x \in LVs /\ ~(x > nlvs)
    BY <1>4
  <2>6. \A x \in 1..nlvs : label'[x] = label[x] /\ datum'[x] = datum[x]
    BY <2>3, <2>5
  <2>7. ASSUME NEW x \in 1..nlvs' PROVE datum'[x] \in 1..nlvs'
    <3>1. CASE x > nlvs
      <4>1. x \in LVs /\ x <= nlvs'
        BY <1>3, <1>4, <1>5 DEF LVs
      <4> QED BY <2>3, <3>1, <4>1
    <3>2. CASE ~(x > nlvs)
      <4>1. x \in 1..nlvs
        BY <1>4, <1>5, <3>2
      <4>2. datum[x] \in 1..nlvs
        BY <1>a, <4>1 DEF ObjectsOK
      <4> QED BY <1>4, <1>5, <2>6, <4>1, <4>2
    <3> QED BY <3>1, <3>2
  <2> QED BY <2>4, <2>6, <2>7
<1>9. ASSUME NEW m \in Metrics
      PROVE  lvs'[m] \in Seq(1..nlvs') /\ Distinct(label', lvs'[m])
  <2>1. CASE (m > nmetrics /\ m <= nmetrics + NNames) /\ m - nmetrics \in born
    <3> DEFINE k == Upto(born, m - nmetrics)
    <3>1. lvs'[m] = <<k>>
      BY <1>3, <2>1
    <3>2. k \in 1..nlvs'
      BY <1>5, <2>1
    <3> HIDE DEF k
    <3>3. <<k>> \in Seq(1..nlvs') /\ Len(<<k>>) = 1
      BY <3>2
    <3>4. Distinct(label', <<k>>)
      BY <3>3 DEF Distinct
    <3> QED BY <3>1, <3>3, <3>4
  <2>2. CASE ~((m > nmetrics /\ m <= nmetrics + NNames) /\ m - nmetrics \in born)
    <3>1. lvs'[m] = lvs[m]
      BY <1>3, <2>2
    <3>2. lvs[m] \in Seq(1..nlvs) /\ Distinct(label, lvs[m])
      BY <1>a DEF ObjectsOK, DistinctInv
    <3>3. Distinct(label', lvs[m])
      BY <1>4, <1>8, <3>2, DistinctKept
    <3>4. lvs[m] \in Seq(1..nlvs')
      BY <1>4, <1>5, <3>2, SeqGrows
    <3> QED BY <3>1, <3>3, <3>4
  <2> QED BY <2>1, <2>2
<1>10. ObjectsOK'
  <2>1. \A n \in Names : store[n] \in Seq(1..nmetrics')
    BY <1>1, <1>4, <1>a, SeqGrows DEF ObjectsOK
  <2>2. store' \in [Names -> Seq(1..nmetrics')]
    BY <1>1, <1>a, <2>1 DEF ObjectsOK
  <2>3. lvs' \in [Metrics -> Seq(1..nlvs')]
    BY <1>3, <1>9
  <2>4. aged' \subseteq 1..nlvs' /\ expiry' \in [LVs -> BOOLEAN]
    BY <1>1, <1>4, <1>5, <1>a DEF ObjectsOK
  <2>5. loads' \in Nat
    BY <1>1, <1>4
  <2> QED BY <1>3, <1>5, <1>6, <1>8, <2>2, <2>3, <2>4, <2>5 DEF ObjectsOK
<1>11. LoadOK'
  <2>1. at' \in Names /\ base' \in Nat \ {0} /\ base' + NNames = nmetrics' + 1
    BY <1>1, <1>4 DEF Names
  <2> QED BY <1>1, <1>3, <1>a, <2>1 DEF LoadOK
<1>12. GcOK'
  <2>1. copyView \in ViewsOf(nlvs') /\ gcView \in ViewsOf(nlvs')
    BY <1>4, <1>5, <1>a, ViewsGrow DEF GcOK
  <2> QED BY <1>1, <1>a, <2>1, InStoreSame DEF GcOK, Over
<1>13. CopyInv' /\ FoundInv'
  BY <1>1 DEF CopyInv, FoundInv
<1>14. DistinctInv'
  BY <1>9 DEF DistinctInv
<1>15. /\ OwnerInv /\ KindsAgree /\ OncePerSource /\ LiveExported
  BY <1>a DEF ListInv
<1>16. PassedInv'
  <2>1. \A n \in Names : ~(n < 1) /\ \A v \in Elements(store[n]) : ~(v >= nmetrics + 1)
    BY <1>4 DEF Names
  <2> QED BY <1>1, <2>1 DEF PassedInv, Elements
<1>17. OwnerInv'
  <2>1. ASSUME NEW q \in Progs, cur[q] # 0, NEW n \in Names PROVE cur[q] + n - 1 \in 1..nmetrics
    BY <1>1, <1>4, <1>a, <2>1 DEF LoadOK, Names
  <2>2. \A q \in Progs : cur[q] # 0 => \A n \in Names : owner'[cur[q] + n - 1] = q
    BY <1>7, <1>15, <2>1 DEF OwnerInv
  <2>3. \A n \in Names : base' + n - 1 = nmetrics + n
    BY <1>1, <1>4 DEF Names
  <2>4. \A n \in Names : owner'[base' + n - 1] = adding'
    BY <1>3, <1>7, <2>3
  <2> QED BY <1>1, <2>2, <2>4 DEF OwnerInv
<1>18. KindsAgree'
  <2> SUFFICES ASSUME NEW n \in Names, NEW v \in Elements(store[n]), NEW w \in Elements(store[n])
               PROVE  decl'[v].kind = decl'[w].kind
    BY <1>1 DEF KindsAgree, Elements
  <2> QED BY <1>4, <1>7, <1>15 DEF KindsAgree
<1>19. OncePerSource'
  <2> SUFFICES ASSUME NEW n \in Names, NEW i \in 1..Len(store[n]), NEW j \in 1..Len(store[n]),
                      owner'[store[n][i]] = owner'[store[n][j]],
                      decl'[store[n][i]].type = decl'[store[n][j]].type,
                      decl'[store[n][i]].source = decl'[store[n][j]].source
               PROVE  i = j
    BY <1>1 DEF OncePerSource
  <2>1. store[n][i] \in 1..nmetrics /\ store[n][j] \in 1..nmetrics
    BY <1>4 DEF Elements
  <2> QED BY <1>7, <1>15, <2>1 DEF OncePerSource
<1>20. UntouchedInv' /\ LiveExported'
  <2>1. \A q \in Progs : q \notin halfLoaded /\ cur[q] # 0 =>
          \A n \in Names : cur[q] + n - 1 \in Elements(store[n])
    BY <1>1, <1>15 DEF LiveExported
  <2> QED BY <1>1, <1>3, <2>1 DEF UntouchedInv, LiveExported, Elements
<1> QED BY <1>10, <1>11, <1>12, <1>13, <1>14, <1>16, <1>17, <1>18, <1>19, <1>20
        DEF IInv, TypesInv, ListInv

-----------------------------------------------------------------------------
(* The invariant holds at first, and every step keeps it.                  *)
LEMMA InitIInv == Init => IInv
<1> SUFFICES ASSUME Init PROVE IInv
  OBVIOUS
<1> USE DEF Init
<1>a. <<>> \in Seq(1..0)
  OBVIOUS
<1>b. NNames \in Nat /\ NNames > 0 /\ MaxLVs \in Nat /\ MaxLoads \in Nat
  BY StoreAssumption
<1>1. ObjectsOK
  <2>1. LoadsLeft = MaxLoads /\ LoadsLeft \in Nat /\ NNames * MaxLoads \in Nat
    BY <1>b, Product DEF LoadsLeft
  <2>2. nmetrics + NNames * LoadsLeft = NNames * MaxLoads
    BY <2>1
  <2>3. store \in [Names -> Seq(1..nmetrics)] /\ lvs \in [Metrics -> Seq(1..nlvs)]
    BY <1>a
  <2>4. /\ label \in [LVs -> Labels \cup {Unlabelled}] /\ datum \in [LVs -> Nat]
        /\ expiry \in [LVs -> BOOLEAN] /\ aged \subseteq 1..nlvs
        /\ \A x \in 1..nlvs : datum[x] \in 1..nlvs
    OBVIOUS
  <2> QED BY <1>b, <2>1, <2>2, <2>3, <2>4 DEF ObjectsOK
<1>2. LoadOK
  BY <1>b DEF LoadOK, Names
<1>3. GcOK
  <2>1. NoView \in ViewsOf(0) /\ NoView.m = 0 /\ NoView.arr = <<>>
    BY <1>a DEF NoView, ViewsOf
  <2> QED BY <2>1 DEF GcOK
<1>4. ListInv
  <2>1. \A n \in Names : store[n] = <<>> /\ Len(store[n]) = 0 /\ Elements(store[n]) = {}
    BY DEF Elements
  <2>2. KindsAgree /\ OncePerSource
    BY <2>1 DEF KindsAgree, OncePerSource
  <2>3. PassedInv /\ OwnerInv /\ FoundInv /\ UntouchedInv /\ LiveExported
    BY DEF PassedInv, OwnerInv, FoundInv, UntouchedInv, LiveExported, Making
  <2> QED BY <2>2, <2>3 DEF ListInv
<1>5. DistinctInv /\ CopyInv
  BY DEF DistinctInv, Distinct, CopyInv
<1> QED BY <1>1, <1>2, <1>3, <1>4, <1>5 DEF IInv, TypesInv

LEMMA NextIInv == IInv /\ [Next]_vars => IInv'
<1> SUFFICES ASSUME IInv, [Next]_vars PROVE IInv'
  OBVIOUS
<1>1. CASE Compile
  BY <1>1, CompileKeeps
<1>2. CASE Add
  BY <1>2, AddKeeps
<1>3. CASE Copy
  BY <1>3, CopyKeeps
<1>4. CASE Copied
  BY <1>4, CopiedKeeps
<1>5. CASE Insert
  BY <1>5, InsertKeeps
<1>6. CASE Run
  BY <1>6, RunKeeps
<1>7. CASE UseMetric
  BY <1>7, UseMetricKeeps
<1>8. CASE Age \/ GcStep
  BY <1>8, GcKeeps
<1>9. CASE UNCHANGED vars
  <2>1. /\ UNCHANGED <<store, objVars, loadVars, nlvs, lvs, label, datum, expiry, aged>>
        /\ UNCHANGED <<gc, gcTodo, gcView, copyView, disturbed>>
    BY <1>9 DEF vars, lvVars, gcVars
  <2>2. ObjectsOK /\ GcOK /\ DistinctInv
    BY DEF IInv, TypesInv
  <2>3. GcOK'
    BY <2>1, <2>2, InStoreSame DEF GcOK, Over
  <2>4. \A m \in Metrics : Distinct(label', lvs'[m])
    BY <2>1, <2>2 DEF DistinctInv
  <2> QED BY <2>1, <2>2, <2>3, <2>4, DataStep DEF ObjectsOK
<1> QED BY <1>1, <1>2, <1>3, <1>4, <1>5, <1>6, <1>7, <1>8, <1>9 DEF Next, LoadStep

(* The inductive invariant holds in every reachable state, for any         *)
(* programs, texts, names, labels and bounds (store.go, metric.go).        *)
THEOREM MetricStoreIInv == Spec => []IInv
BY InitIInv, NextIInv, PTL DEF Spec

(* Every variable of the store has its type: the lists hold metrics that   *)
(* exist, the metrics LabelValues that exist, and Gc and Add are at places *)
(* that exist.                                                             *)
THEOREM MetricStoreTypeOK == Spec => []TypeOK
<1>1. IInv => TypeOK
  <2> SUFFICES ASSUME IInv PROVE TypeOK
    OBVIOUS
  <2>a. ObjectsOK /\ LoadOK /\ GcOK
    BY DEF IInv, TypesInv
  <2>1. /\ NNames \in Nat /\ NNames > 0 /\ nmetrics \in Nat
        /\ \A m \in 1..nmetrics : m \in Metrics
        /\ \A x \in 1..nlvs : x \in LVs
        /\ \A n \in Names : \A v \in Elements(store[n]) : v \in 1..nmetrics
    BY <2>a, MetricsMade
  <2>2. nmetrics \in 0..(NNames * MaxLoads) /\ nlvs \in 0..MaxLVs
    <3>1. NNames * MaxLoads \in Nat /\ NNames * LoadsLeft \in Nat
      BY <2>a, Product, StoreAssumption DEF ObjectsOK
    <3> DEFINE q == NNames * LoadsLeft
               r == NNames * MaxLoads
    <3>2. q \in Nat /\ r \in Nat /\ nmetrics + q = r
      BY <2>a, <3>1 DEF ObjectsOK
    <3> HIDE DEF q, r
    <3>3. nmetrics \in 0..r
      BY <2>1, <3>2
    <3>4. nlvs \in 0..MaxLVs
      BY <2>a, StoreAssumption DEF ObjectsOK
    <3> QED BY <3>3, <3>4 DEF r
  <2>3. \A x \in 1..nlvs : label[x] \in Labels \cup {Unlabelled} /\ datum[x] \in 1..nlvs
    BY <2>a, <2>1 DEF ObjectsOK
  <2>4. cur \in [Progs -> 0..nmetrics]
    <3>1. ASSUME NEW p \in Progs PROVE cur[p] \in 0..nmetrics
      <4>1. CASE cur[p] = 0
        BY <2>1, <4>1
      <4>2. CASE cur[p] # 0
        BY <2>a, <2>1, <4>2 DEF LoadOK
      <4> QED BY <4>1, <4>2
    <3> QED BY <2>a, <3>1 DEF LoadOK
  <2>5. add # "idle" => adding \in Progs /\ base \in Metrics
    BY <2>a, <2>1 DEF LoadOK
  <2>6. gcTodo \subseteq Metrics
    <3>1. \A v \in InStore : v \in Metrics
      BY <2>1 DEF InStore
    <3> QED BY <2>a, <3>1 DEF GcOK
  <2> QED BY <2>a, <2>2, <2>3, <2>4, <2>5, <2>6 DEF TypeOK, ObjectsOK, LoadOK, GcOK
<1> QED BY <1>1, MetricStoreIInv, PTL

(* No metric ever has two LabelValues for one label, whatever a reload,    *)
(* the programs and Gc do at the same time (GetDatum and RemoveDatum,      *)
(* metric.go:127-173).                                                     *)
THEOREM MetricStoreNoDuplicateLabels == Spec => []NoDuplicateLabels
<1>1. IInv => NoDuplicateLabels
  BY MetricsMade DEF IInv, TypesInv, DistinctInv, Distinct, NoDuplicateLabels
<1> QED BY <1>1, MetricStoreIInv, PTL

(* All metrics of a name are of one kind (the check of Kind in Add,        *)
(* store.go:39-44).                                                        *)
THEOREM MetricStoreKindsAgree == Spec => []KindsAgree
<1>1. IInv => KindsAgree
  BY DEF IInv, ListInv
<1> QED BY <1>1, MetricStoreIInv, PTL

(* However often a program is loaded, what it declares at one place is in  *)
(* the store once: Add finds and removes the one that was there.           *)
THEOREM MetricStoreOncePerSource == Spec => []OncePerSource
<1>1. IInv => OncePerSource
  BY DEF IInv, ListInv
<1> QED BY <1>1, MetricStoreIInv, PTL

(* What a running virtual machine updates is exported, except while its    *)
(* program is being loaded and after a load that failed half way.          *)
THEOREM MetricStoreLiveExported == Spec => []LiveExported
<1>1. IInv => LiveExported
  BY DEF IInv, ListInv
<1> QED BY <1>1, MetricStoreIInv, PTL

(* When Add's copy is over, the new metric has every datum that the old    *)
(* one had when it began, unless something was deleted from that meanwhile.*)
THEOREM MetricStoreCopyComplete == Spec => []CopyComplete
<1>1. IInv => CopyComplete
  <2> SUFFICES ASSUME IInv, add = "copy", Over(copyView), ~disturbed, NEW x \in owed
               PROVE  HasCopy(x)
    BY DEF CopyComplete, HasCopy
  <2>a. CopyInv /\ GcOK
    BY DEF IInv, TypesInv
  <2>1. x \in Elements(copyView.arr)
    BY <2>a DEF CopyInv
  <2>2. PICK j \in 1..Len(copyView.arr) : copyView.arr[j] = x
    BY <2>1 DEF Elements
  <2>3. j < copyView.i
    BY <2>a DEF Over, GcOK, ViewsOf
  <2> QED BY <2>a, <2>2, <2>3 DEF CopyInv
<1> QED BY <1>1, MetricStoreIInv, PTL
=============================================================================
