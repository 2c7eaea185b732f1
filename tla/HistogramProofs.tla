-------------------------- MODULE HistogramProofs --------------------------
(***************************************************************************)
(* Proof that what Collect reads of a histogram is consistent, for every   *)
(* declaration of boundaries and any values that are observed while it     *)
(* reads: the counts of the buckets, added up by GetBucketsCumByMax, are   *)
(* the numbers of observations up to each bound.                           *)
(***************************************************************************)
EXTENDS ServerProofs, Induction

NRanges == Len(Edges) - 1

(* The observations above lo and up to hi.                                 *)
Between(s, lo, hi) == {j \in 1..Len(s) : s[j] > lo /\ s[j] <= hi}

(* A datum after the observations in s: each bucket has counted those that *)
(* are in its range.                                                       *)
Histograms ==
  [type : {"Buckets"}, time : Int,
   v : [ranges : {Ranges}, counts : [1..NRanges -> Nat], count : Nat, sum : Int]]
Counted(d, s) ==
  /\ d.v.count = Len(s)
  /\ \A i \in 1..NRanges : d.v.counts[i] = Cardinality(Between(s, Edges[i], Edges[i + 1]))
BucketInv ==
  /\ observed \in [Metrics -> Seq(Values)]
  /\ buckets \in [Metrics -> Histograms]
  /\ \A m \in Metrics : Counted(buckets[m], observed[m])

(* Only a request collects for Prometheus.                                 *)
PromInv ==
  \A x \in Procs :
    /\ proc[x].as = "prom" => x = "request"
    /\ proc[x].at = "count" => proc[x].as = "prom"

(* A histogram that is scraped: its count was read when there were no more *)
(* observations than now, and its buckets when there were upto.            *)
ScrapeInv ==
  /\ scraped = [m |-> scraped.m, count |-> scraped.count, upto |-> scraped.upto, cum |-> scraped.cum]
  /\ proc["request"].at = "count" =>
       /\ scraped.m = proc["request"].m
       /\ scraped.count \in Nat /\ scraped.count <= Len(observed[scraped.m])
  /\ DOMAIN scraped.cum # {} =>
       /\ scraped.m \in Metrics /\ scraped.upto \in 0..Len(observed[scraped.m])
       /\ HistogramScraped

HistInv == BucketInv /\ PromInv /\ ScrapeInv

-----------------------------------------------------------------------------
(* The edges of the buckets go up, and the last one is infinity.           *)
LEMMA EdgesSorted ==
  /\ Edges \in Seq(Int) /\ NRanges \in Nat /\ NRanges >= 2 /\ Len(Edges) = NRanges + 1
  /\ \A i, j \in 1..Len(Edges) : i < j => Edges[i] < Edges[j]
  /\ Edges[NRanges + 1] = Inf
<1> DEFINE n == Len(Bounds)
           first == IF Bounds[1] > 0 THEN <<0>> ELSE <<>>
           k == Len(first)
<1>1. /\ Bounds \in Seq(Int) /\ n \in Nat /\ n >= 2 /\ Inf \in Int /\ Inf > Bounds[n]
      /\ \A i, j \in 1..n : i < j => Bounds[i] < Bounds[j]
      /\ \A i \in 1..n : Bounds[i] \in Int
  BY ExporterAssumption
<1>2. /\ first \in Seq(Int) /\ k \in {0, 1}
      /\ k = 1 => first[1] = 0 /\ Bounds[1] > 0
  BY <1>1
<1>3. Edges = first \o Bounds \o <<Inf>>
  BY DEF Edges
<1> HIDE DEF first
<1>4. /\ Edges \in Seq(Int) /\ Len(Edges) = k + n + 1
      /\ \A i \in 1..Len(Edges) :
           Edges[i] = IF i <= k THEN first[i] ELSE IF i <= k + n THEN Bounds[i - k] ELSE Inf
  <2>1. /\ first \o Bounds \in Seq(Int) /\ Len(first \o Bounds) = k + n
        /\ \A i \in 1..(k + n) :
             (first \o Bounds)[i] = IF i <= k THEN first[i] ELSE Bounds[i - k]
    BY <1>1, <1>2
  <2> DEFINE fb == first \o Bounds
  <2> HIDE DEF fb
  <2>2. fb \in Seq(Int) /\ Len(fb) = k + n
    BY <2>1 DEF fb
  <2>a. k + n \in Nat /\ k \in Nat /\ n \in Nat
    BY <1>1, <1>2
  <2> HIDE DEF k, n
  <2>3. /\ fb \o <<Inf>> \in Seq(Int) /\ Len(fb \o <<Inf>>) = k + n + 1
        /\ \A i \in 1..(k + n + 1) :
             (fb \o <<Inf>>)[i] = IF i <= k + n THEN fb[i] ELSE Inf
    <3>1. <<Inf>> \in Seq(Int) /\ Len(<<Inf>>) = 1
      BY <1>1
    <3>2. /\ fb \o <<Inf>> \in Seq(Int) /\ Len(fb \o <<Inf>>) = Len(fb) + 1
          /\ \A i \in 1..(Len(fb) + 1) :
               (fb \o <<Inf>>)[i] = IF i <= Len(fb) THEN fb[i] ELSE <<Inf>>[i - Len(fb)]
      BY <2>2, <3>1
    <3>3. ASSUME NEW i \in 1..(k + n + 1)
          PROVE  (fb \o <<Inf>>)[i] = IF i <= k + n THEN fb[i] ELSE Inf
      <4>1. CASE i <= k + n
        BY <2>2, <3>2, <4>1
      <4>2. CASE ~(i <= k + n)
        <5>1. i - Len(fb) = 1
          BY <2>2, <2>a, <4>2
        <5> QED BY <2>2, <3>2, <4>2, <5>1
      <4> QED BY <4>1, <4>2
    <3> QED BY <2>2, <3>2, <3>3
  <2>4. Edges = fb \o <<Inf>>
    BY <1>3 DEF fb
  <2>5. \A i \in 1..(k + n) : fb[i] = IF i <= k THEN first[i] ELSE Bounds[i - k]
    BY <2>1 DEF fb
  <2>6. Edges \in Seq(Int) /\ Len(Edges) = k + n + 1
    BY <2>3, <2>4
  <2>7. ASSUME NEW i \in 1..Len(Edges)
        PROVE  Edges[i] = IF i <= k THEN first[i] ELSE IF i <= k + n THEN Bounds[i - k] ELSE Inf
    <3>1. Edges[i] = IF i <= k + n THEN fb[i] ELSE Inf
      BY <2>3, <2>4, <2>6
    <3>2. i <= k => i <= k + n
      BY <2>a
    <3>3. i <= k + n => i \in 1..(k + n)
      BY <2>a, <2>6
    <3> QED BY <2>5, <3>1, <3>2, <3>3
  <2> QED BY <2>6, <2>7
<1> HIDE DEF k, n
<1>5. NRanges \in Nat /\ NRanges >= 2 /\ Len(Edges) = NRanges + 1
  BY <1>1, <1>2, <1>4 DEF NRanges
<1>6. Edges[NRanges + 1] = Inf
  BY <1>1, <1>2, <1>4, <1>5
<1>7. ASSUME NEW i \in 1..Len(Edges), NEW j \in 1..Len(Edges), i < j
      PROVE  Edges[i] < Edges[j]
  <2>1. \A q \in 1..n : Bounds[q] < Inf
    <3>1. \A q \in 1..n : q = n \/ Bounds[q] < Bounds[n]
      BY <1>1
    <3> QED BY <1>1, <3>1
  <2>2. k = 1 => \A q \in 1..n : 0 < Bounds[q]
    <3>1. \A q \in 1..n : q = 1 \/ Bounds[1] < Bounds[q]
      <4>1. 1 \in 1..n
        BY <1>1
      <4> QED BY <1>1, <4>1
    <3>2. 1 \in 1..n /\ Bounds[1] \in Int /\ \A q \in 1..n : Bounds[q] \in Int
      BY <1>1
    <3>3. ASSUME NEW q \in 1..n, Bounds[1] > 0 PROVE 0 < Bounds[q]
      BY <3>1, <3>2, <3>3
    <3> QED BY <1>2, <3>3
  <2>3. CASE j = k + n + 1
    <3>1. CASE i <= k
      <4>1. k = 1 /\ i = 1 /\ Edges[i] = 0 /\ Edges[j] = Inf
        BY <1>1, <1>2, <1>4, <2>3, <3>1
      <4>2. 0 < Bounds[1] /\ Bounds[1] < Inf
        BY <1>1, <2>1, <2>2, <4>1
      <4> QED BY <1>1, <4>1, <4>2
    <3>2. CASE i > k
      <4>1. i - k \in 1..n /\ Edges[i] = Bounds[i - k] /\ Edges[j] = Inf
        BY <1>1, <1>2, <1>4, <1>7, <2>3, <3>2
      <4> QED BY <2>1, <4>1
    <3> QED BY <1>2, <3>1, <3>2
  <2>4. CASE j # k + n + 1
    <3>1. j - k \in 1..n /\ Edges[j] = Bounds[j - k]
      BY <1>1, <1>2, <1>4, <1>7, <2>4
    <3>2. CASE i <= k
      BY <1>1, <1>2, <1>4, <2>2, <3>1, <3>2
    <3>3. CASE i > k
      <4>1. i - k \in 1..n /\ Edges[i] = Bounds[i - k] /\ i - k < j - k
        BY <1>1, <1>2, <1>4, <1>7, <2>4, <3>3
      <4> QED BY <1>1, <3>1, <4>1
    <3> QED BY <1>2, <3>2, <3>3
  <2> QED BY <2>3, <2>4
<1> QED BY <1>4, <1>5, <1>6, <1>7

LEMMA RangesAre ==
  /\ Len(Ranges) = NRanges /\ DOMAIN Ranges = 1..NRanges
  /\ \A i \in 1..NRanges :
       /\ Ranges[i] = [min |-> Edges[i], max |-> Edges[i + 1]]
       /\ Ranges[i].min = Edges[i] /\ Ranges[i].max = Edges[i + 1]
       /\ Edges[i] \in Int /\ Edges[i + 1] \in Int /\ Edges[i] < Edges[i + 1]
<1>1. Ranges = [i \in 1..NRanges |-> [min |-> Edges[i], max |-> Edges[i + 1]]]
  BY DEF Ranges, NRanges, Data!Range
<1>2. NRanges \in Nat
  BY EdgesSorted
<1>3. Len(Ranges) = NRanges /\ DOMAIN Ranges = 1..NRanges
  BY <1>1, <1>2
<1>4. ASSUME NEW i \in 1..NRanges
      PROVE  Edges[i] \in Int /\ Edges[i + 1] \in Int /\ Edges[i] < Edges[i + 1]
  BY <1>2, EdgesSorted
<1> QED BY <1>1, <1>3, <1>4

(* A sequence of observations has a finite number of them in a range, and  *)
(* one observation more is counted where it lies.                          *)
LEMMA BetweenFinite ==
  ASSUME NEW s \in Seq(Int), NEW lo \in Int, NEW hi \in Int
  PROVE  IsFiniteSet(Between(s, lo, hi)) /\ Cardinality(Between(s, lo, hi)) \in Nat
<1>1. Len(s) \in Int /\ Between(s, lo, hi) \in SUBSET (1..Len(s))
  BY DEF Between
<1>2. IsFiniteSet(1..Len(s))
  BY <1>1, FS_Interval
<1>3. IsFiniteSet(Between(s, lo, hi))
  BY <1>1, <1>2, FS_Subset
<1> QED BY <1>3, FS_CardinalityType

LEMMA BetweenAppend ==
  ASSUME NEW s \in Seq(Int), NEW v \in Int, NEW lo \in Int, NEW hi \in Int
  PROVE  Cardinality(Between(Append(s, v), lo, hi))
           = Cardinality(Between(s, lo, hi)) + (IF lo < v /\ v <= hi THEN 1 ELSE 0)
<1> DEFINE n == Len(s)
           B == Between(s, lo, hi)
           C == Between(Append(s, v), lo, hi)
<1>1. /\ n \in Nat /\ Len(Append(s, v)) = n + 1 /\ Append(s, v)[n + 1] = v
      /\ \A j \in 1..n : Append(s, v)[j] = s[j]
  OBVIOUS
<1>2. n + 1 \notin B /\ IsFiniteSet(B) /\ Cardinality(B) \in Nat
  <2>1. B \subseteq 1..n
    BY DEF Between
  <2>2. n + 1 \notin B
    BY <1>1, <2>1
  <2>3. IsFiniteSet(B) /\ Cardinality(B) \in Nat
    BY BetweenFinite
  <2> QED BY <2>2, <2>3
<1>3. C = IF lo < v /\ v <= hi THEN B \cup {n + 1} ELSE B
  <2>1. \A j : j \in C <=> j \in 1..(n + 1) /\ Append(s, v)[j] > lo /\ Append(s, v)[j] <= hi
    BY <1>1 DEF Between
  <2>2. \A j : j \in B <=> j \in 1..n /\ s[j] > lo /\ s[j] <= hi
    BY DEF Between
  <2>3. \A j : j \in 1..(n + 1) <=> j \in 1..n \/ j = n + 1
    BY <1>1
  <2>4. \A j : j \in C <=> j \in B \/ (j = n + 1 /\ lo < v /\ v <= hi)
    BY <1>1, <2>1, <2>2, <2>3
  <2> HIDE DEF B, C, n
  <2> QED BY <2>4
<1>4. Cardinality(B \cup {n + 1}) = Cardinality(B) + 1
  BY <1>2, FS_AddElement
<1> HIDE DEF B, C, n
<1> QED BY <1>2, <1>3, <1>4 DEF B, C

(* A new datum has counted nothing: codegen.go has added the range up to   *)
(* infinity already.                                                       *)
LEMMA NewCounted ==
  /\ Data!NewDatum("Buckets", Ranges) \in Histograms
  /\ Counted(Data!NewDatum("Buckets", Ranges), <<>>)
<1> DEFINE d == Data!NewDatum("Buckets", Ranges)
           b == [ranges |-> Ranges, counts |-> [i \in 1..NRanges |-> 0], count |-> 0, sum |-> 0]
<1>1. Data!MakeBuckets(Ranges) = b
  <2>1. \E i \in DOMAIN Ranges : Ranges[i].max = Inf
    <3>1. NRanges \in 1..NRanges /\ Ranges[NRanges].max = Edges[NRanges + 1]
      BY EdgesSorted, RangesAre
    <3> QED BY <3>1, EdgesSorted, RangesAre
  <2> QED BY <2>1, RangesAre DEF Data!MakeBuckets
<1>2. d = [type |-> "Buckets", time |-> 0, v |-> b]
  BY <1>1 DEF Data!NewDatum
<1> HIDE DEF d
<1>3. b.counts = [i \in 1..NRanges |-> 0] /\ b.count = 0
  OBVIOUS
<1>4. d \in Histograms
  BY <1>2 DEF Histograms
<1>5. ASSUME NEW i \in 1..NRanges
      PROVE  d.v.counts[i] = Cardinality(Between(<<>>, Edges[i], Edges[i + 1]))
  <2>1. Between(<<>>, Edges[i], Edges[i + 1]) = {}
    BY DEF Between
  <2>2. d.v.counts[i] = 0
    <3>1. d.v = b
      BY <1>2
    <3> QED BY <1>3, <3>1
  <2> QED BY <2>1, <2>2, FS_EmptySet
<1>6. d.v.count = 0
  BY <1>2, <1>3
<1>7. Counted(d, <<>>)
  BY <1>5, <1>6 DEF Counted
<1> QED BY <1>4, <1>7 DEF d

LEMMA SeqOfInts ==
  ASSUME NEW s \in Seq(Values)
  PROVE  s \in Seq(Int) /\ \A j \in 1..Len(s) : s[j] \in Int /\ s[j] <= Inf
<1>1. Values \subseteq Int /\ \A v \in Values : v <= Inf
  BY ExporterAssumption
<1>2. Len(s) \in Nat /\ s \in [1..Len(s) -> Values]
  OBVIOUS
<1>3. s \in [1..Len(s) -> Int]
  BY <1>1, <1>2
<1>4. s \in Seq(Int)
  BY <1>2, <1>3
<1> QED BY <1>1, <1>2, <1>4

(* Observe adds a value to the one bucket it lies in, if there is one.     *)
LEMMA ObserveCounts ==
  ASSUME NEW d \in Histograms, NEW s \in Seq(Values), Counted(d, s), NEW v \in Values
  PROVE  /\ Data!Observe(d, v, 0) \in Histograms
         /\ Counted(Data!Observe(d, v, 0), Append(s, v))
<1> DEFINE b == d.v
           In(i) == Edges[i] < v /\ v <= Edges[i + 1]
           hits == {i \in DOMAIN b.ranges : Data!Contains(b.ranges[i], v)}
           Hit(i) == i \in hits /\ \A j \in hits : i <= j
           counts == [i \in DOMAIN b.counts |-> b.counts[i] + (IF Hit(i) THEN 1 ELSE 0)]
           e == Data!Observe(d, v, 0)
<1>1. /\ b \in [ranges : {Ranges}, counts : [1..NRanges -> Nat], count : Nat, sum : Int]
      /\ b.ranges = Ranges /\ b.counts \in [1..NRanges -> Nat] /\ b.count = Len(s)
      /\ v \in Int /\ s \in Seq(Int) /\ NRanges \in Nat
  <2>1. b \in [ranges : {Ranges}, counts : [1..NRanges -> Nat], count : Nat, sum : Int]
    BY DEF Histograms
  <2>2. b.ranges = Ranges /\ b.counts \in [1..NRanges -> Nat]
    BY <2>1
  <2>3. b.count = Len(s)
    BY DEF Counted
  <2>4. Values \subseteq Int
    BY ExporterAssumption
  <2>5. v \in Int /\ s \in Seq(Int)
    BY <2>4, SeqOfInts
  <2> QED BY <2>1, <2>2, <2>3, <2>5, EdgesSorted
<1>2. hits = {i \in 1..NRanges : In(i)}
  BY <1>1, RangesAre DEF Data!Contains
<1>3. ASSUME NEW i \in 1..NRanges, NEW j \in 1..NRanges, In(i), In(j) PROVE i = j
  <2>1. ASSUME NEW p \in 1..NRanges, NEW q \in 1..NRanges, p < q, v <= Edges[p + 1]
        PROVE  ~(Edges[q] < v)
    <3>1. p + 1 \in 1..Len(Edges) /\ q \in 1..Len(Edges)
      BY EdgesSorted
    <3>2. p + 1 = q \/ p + 1 < q
      BY <1>1, <2>1
    <3>3. Edges[p + 1] <= Edges[q] /\ Edges[p + 1] \in Int /\ Edges[q] \in Int
      BY <3>1, <3>2, EdgesSorted
    <3> QED BY <1>1, <2>1, <3>3
  <2>2. i < j \/ j < i \/ i = j
    BY <1>1
  <2> QED BY <1>3, <2>1, <2>2
<1>4. \A i \in 1..NRanges : Hit(i) <=> In(i)
  <2>1. \A i \in 1..NRanges : Hit(i) => In(i)
    BY <1>2
  <2>2. ASSUME NEW i \in 1..NRanges, In(i) PROVE Hit(i)
    <3>1. i \in hits /\ \A j \in hits : j = i
      BY <1>2, <1>3, <2>2
    <3> HIDE DEF hits
    <3> QED BY <1>1, <3>1
  <2> QED BY <2>1, <2>2
<1>5. /\ counts \in [1..NRanges -> Nat]
      /\ \A i \in 1..NRanges : counts[i] = b.counts[i] + (IF In(i) THEN 1 ELSE 0)
  <2>1. DOMAIN b.counts = 1..NRanges /\ \A i \in 1..NRanges : b.counts[i] \in Nat
    BY <1>1
  <2> HIDE DEF Hit, In, b
  <2> QED BY <1>4, <2>1
<1>6. /\ e = [d EXCEPT !.v = [b EXCEPT !.counts = counts, !.count = b.count + 1, !.sum = b.sum + v],
                       !.time = 0]
  <2>1. Data!Stamp(0) = 0
    BY DEF Data!Stamp, Data!ZeroTime
  <2> QED BY <2>1 DEF Data!Observe
<1> HIDE DEF counts, e, In
<1>7. e = [type |-> "Buckets", time |-> 0,
           v |-> [ranges |-> Ranges, counts |-> counts, count |-> b.count + 1, sum |-> b.sum + v]]
  BY <1>1, <1>6 DEF Histograms
<1>8. /\ e \in Histograms /\ e.v.counts = counts /\ e.v.count = b.count + 1
  BY <1>1, <1>5, <1>7 DEF Histograms
<1>9. e.v.count = Len(Append(s, v))
  BY <1>1, <1>8
<1>10. ASSUME NEW i \in 1..NRanges
       PROVE  e.v.counts[i] = Cardinality(Between(Append(s, v), Edges[i], Edges[i + 1]))
  <2>1. Edges[i] \in Int /\ Edges[i + 1] \in Int
    BY RangesAre
  <2>2. Cardinality(Between(Append(s, v), Edges[i], Edges[i + 1]))
          = Cardinality(Between(s, Edges[i], Edges[i + 1])) + (IF In(i) THEN 1 ELSE 0)
    BY <1>1, <2>1, BetweenAppend DEF In
  <2>3. b.counts[i] = Cardinality(Between(s, Edges[i], Edges[i + 1]))
    BY DEF Counted
  <2> QED BY <1>5, <1>8, <2>2, <2>3
<1>11. Counted(e, Append(s, v))
  BY <1>9, <1>10 DEF Counted
<1> QED BY <1>8, <1>11 DEF e

(* GetBucketsCumByMax: up to the bound m of a bucket are counted the       *)
(* observations between the lowest edge and m.  Of the buckets up to the   *)
(* i-th the sum has those that are not above Edges[i + 1] either.          *)
LEMMA CumIs ==
  ASSUME NEW d \in Histograms, NEW s \in Seq(Values), Counted(d, s)
  PROVE  LET cum == Data!CumByMax(d.v)
         IN  \A m \in DOMAIN cum : cum[m] = Cardinality(Between(s, Edges[1], m))
<1> DEFINE b == d.v
           maxes == {b.ranges[i].max : i \in DOMAIN b.ranges}
           n == NRanges
<1>1. /\ b.ranges = Ranges /\ b.counts \in [1..n -> Nat] /\ n \in Nat /\ n > 0
      /\ s \in Seq(Int) /\ Len(Ranges) = n /\ Len(s) \in Nat
  <2>1. b \in [ranges : {Ranges}, counts : [1..n -> Nat], count : Nat, sum : Int]
    BY DEF Histograms
  <2>2. b.ranges = Ranges /\ b.counts \in [1..n -> Nat]
    BY <2>1
  <2>3. n \in Nat /\ n > 0 /\ Len(Ranges) = n
    BY EdgesSorted, RangesAre
  <2>4. s \in Seq(Int)
    BY SeqOfInts
  <2>5. Len(s) \in Nat
    BY <2>4
  <2> QED BY <2>2, <2>3, <2>4, <2>5
<1>2. ASSUME NEW m \in maxes
      PROVE  Data!CumByMax(b)[m] = Cardinality(Between(s, Edges[1], m))
  <2> DEFINE Add(i) == IF b.ranges[i].max <= m THEN b.counts[i] ELSE 0
             Def(g) == [i \in 0..Len(b.ranges) |-> IF i = 0 THEN 0 ELSE g[i - 1] + Add(i)]
             c == CHOOSE g : g = Def(g)
             Seen(i) == {j \in 1..Len(s) : s[j] > Edges[1] /\ s[j] <= m /\ s[j] <= Edges[i + 1]}
             f == [i \in 0..n |-> Cardinality(Seen(i))]
  <2>1. Data!CumByMax(b)[m] = c[Len(b.ranges)]
    BY DEF Data!CumByMax
  <2>2. PICK k \in 1..n : m = Edges[k + 1]
    <3>1. PICK i \in DOMAIN b.ranges : m = b.ranges[i].max
      OBVIOUS
    <3>2. i \in 1..n /\ Ranges[i].max = Edges[i + 1]
      BY <1>1, RangesAre
    <3> QED BY <1>1, <3>1, <3>2
  <2>3. m \in Int /\ Edges[1] \in Int /\ \A i \in 0..n : Edges[i + 1] \in Int
    <3>1. Edges \in [1..(n + 1) -> Int]
      BY EdgesSorted
    <3>2. n \in Nat /\ k \in 1..n
      BY <1>1
    <3> HIDE DEF n
    <3>3. \A i \in 0..n : Edges[i + 1] \in Int
      BY <3>1, <3>2
    <3>4. Edges[1] \in Int /\ Edges[k + 1] \in Int
      BY <3>1, <3>2
    <3> QED BY <2>2, <3>3, <3>4
  <2>4. \A i \in 0..n : IsFiniteSet(Seen(i)) /\ Cardinality(Seen(i)) \in Nat
    <3> SUFFICES ASSUME NEW i \in 0..n PROVE IsFiniteSet(Seen(i)) /\ Cardinality(Seen(i)) \in Nat
      OBVIOUS
    <3>1. Seen(i) \in SUBSET (1..Len(s))
      OBVIOUS
    <3>2. IsFiniteSet(1..Len(s))
      BY <1>1, FS_Interval
    <3>3. IsFiniteSet(Seen(i))
      BY <3>1, <3>2, FS_Subset
    <3> QED BY <3>3, FS_CardinalityType
  <2>5. Seen(0) = {}
    <3>1. ASSUME NEW j \in 1..Len(s) PROVE ~(s[j] > Edges[1] /\ s[j] <= Edges[0 + 1])
      <4>1. s[j] \in Int
        BY SeqOfInts
      <4> QED BY <2>3, <4>1
    <3> QED BY <3>1
  <2>6. ASSUME NEW i \in 1..n
        PROVE  Cardinality(Seen(i)) = Cardinality(Seen(i - 1)) + Add(i)
    <3> DEFINE B == Between(s, Edges[i], Edges[i + 1])
    <3>1. /\ Edges[i] \in Int /\ Edges[i + 1] \in Int /\ Edges[i] < Edges[i + 1]
          /\ b.ranges[i].max = Edges[i + 1] /\ i - 1 \in 0..n /\ i \in 0..n /\ i - 1 + 1 = i
      BY <1>1, RangesAre
    <3>2. \A j \in 1..Len(s) : s[j] \in Int
      BY SeqOfInts
    <3>3. Edges[1] <= Edges[i]
      <4>1. i = 1 \/ 1 < i
        BY <1>1
      <4>2. 1 \in 1..Len(Edges) /\ i \in 1..Len(Edges)
        BY <1>1, EdgesSorted
      <4> QED BY <2>3, <4>1, <4>2, EdgesSorted
    <3>4. CASE Edges[i + 1] <= m
      <4>1. Seen(i) = Seen(i - 1) \cup B
        <5>1. \A j : /\ j \in Seen(i) <=> /\ j \in 1..Len(s) /\ s[j] > Edges[1]
                                           /\ s[j] <= m /\ s[j] <= Edges[i + 1]
                     /\ j \in Seen(i - 1) <=> /\ j \in 1..Len(s) /\ s[j] > Edges[1]
                                               /\ s[j] <= m /\ s[j] <= Edges[i]
                     /\ j \in B <=> j \in 1..Len(s) /\ s[j] > Edges[i] /\ s[j] <= Edges[i + 1]
          BY <3>1 DEF Between
        <5> HIDE DEF Seen, B
        <5>2. ASSUME NEW j \in 1..Len(s) PROVE j \in Seen(i) <=> j \in Seen(i - 1) \cup B
          <6>1. s[j] \in Int
            BY <3>2
          <6> QED BY <2>3, <3>1, <3>3, <3>4, <5>1, <6>1
        <5> QED BY <5>1, <5>2
      <4>2. Seen(i - 1) \cap B = {}
        BY <2>3, <3>1, <3>2 DEF Between
      <4>3. IsFiniteSet(B) /\ Cardinality(B) \in Nat
        BY <1>1, <3>1, BetweenFinite
      <4>4. IsFiniteSet(Seen(i - 1)) /\ Cardinality(Seen(i - 1)) \in Nat
        BY <2>4, <3>1
      <4>5. Add(i) = Cardinality(B)
        BY <3>1, <3>4 DEF Counted
      <4> HIDE DEF B, Seen, Add
      <4>6. Cardinality(Seen(i - 1) \cup B)
              = Cardinality(Seen(i - 1)) + Cardinality(B) - Cardinality({})
        BY <4>2, <4>3, <4>4, FS_Union
      <4>7. Cardinality({}) = 0
        BY FS_EmptySet
      <4> QED BY <4>1, <4>3, <4>4, <4>5, <4>6, <4>7
    <3>5. CASE ~(Edges[i + 1] <= m)
      <4>1. m <= Edges[i]
        <5>1. k + 1 \in 1..Len(Edges) /\ i + 1 \in 1..Len(Edges) /\ i \in 1..Len(Edges)
          <6>1. Len(Edges) = n + 1 /\ n \in Nat /\ k \in 1..n /\ i \in 1..n
            BY <1>1, <2>2, EdgesSorted
          <6> HIDE DEF n
          <6> QED BY <6>1
        <5>3. ~(i < k)
          <6>1. i + 1 < k + 1 => Edges[i + 1] < Edges[k + 1]
            BY <5>1, EdgesSorted
          <6> QED BY <2>2, <2>3, <3>1, <3>5, <6>1
        <5>4. k # i
          BY <2>2, <2>3, <3>1, <3>5
        <5>5. k + 1 = i \/ k + 1 < i
          <6>1. k \in Nat /\ i \in Nat
            BY <1>1
          <6> QED BY <5>3, <5>4, <6>1
        <5>6. k + 1 < i => Edges[k + 1] < Edges[i]
          BY <5>1, EdgesSorted
        <5> QED BY <2>2, <2>3, <3>1, <5>5, <5>6
      <4>2. Seen(i) = Seen(i - 1)
        BY <2>3, <3>1, <3>2, <4>1
      <4>3. Add(i) = 0 /\ Cardinality(Seen(i - 1)) \in Nat
        BY <2>4, <3>1, <3>5
      <4> HIDE DEF Seen, Add
      <4> QED BY <4>2, <4>3
    <3> QED BY <3>4, <3>5
  <2>7. Seen(n) = Between(s, Edges[1], m)
    <3>1. Edges[n + 1] = Inf /\ \A j \in 1..Len(s) : s[j] <= Inf
      BY SeqOfInts, EdgesSorted
    <3> QED BY <3>1 DEF Between
  <2> HIDE DEF Add, Seen
  <2>8. f[0] = 0 /\ \A i \in 1..n : f[i] = f[i - 1] + Add(i)
    <3>1. f[0] = 0
      <4>1. f[0] = Cardinality(Seen(0))
        BY <1>1
      <4>2. Cardinality({}) = 0
        BY FS_EmptySet
      <4> QED BY <2>5, <4>1, <4>2
    <3>2. ASSUME NEW i \in 1..n PROVE f[i] = f[i - 1] + Add(i)
      <4>1. i \in 0..n /\ i - 1 \in 0..n
        BY <1>1
      <4>2. f[i] = Cardinality(Seen(i)) /\ f[i - 1] = Cardinality(Seen(i - 1))
        BY <4>1
      <4> HIDE DEF f
      <4> QED BY <2>6, <4>2
    <3> QED BY <3>1, <3>2
  <2>9. f[n] = Cardinality(Between(s, Edges[1], m)) /\ f = [i \in 0..n |-> f[i]]
    BY <1>1, <2>7
  <2> HIDE DEF f
  <2>10. f = Def(f)
    <3>1. Def(f) = [i \in 0..n |-> IF i = 0 THEN 0 ELSE f[i - 1] + Add(i)]
      BY <1>1
    <3>2. \A i \in 0..n : i = 0 \/ i \in 1..n
      BY <1>1
    <3>3. \A i \in 0..n : f[i] = IF i = 0 THEN 0 ELSE f[i - 1] + Add(i)
      BY <2>8, <3>2
    <3> QED BY <2>9, <3>1, <3>3
  <2>11. c = Def(c)
    BY <2>10, Zenon
  <2> HIDE DEF c
  <2>12. c[0] = 0 /\ \A i \in 1..n : c[i] = c[i - 1] + Add(i)
    <3>1. \A i \in 0..n : c[i] = IF i = 0 THEN 0 ELSE c[i - 1] + Add(i)
      BY <1>1, <2>11
    <3>2. 0 \in 0..n /\ \A i \in 1..n : i \in 0..n /\ i # 0
      BY <1>1
    <3> QED BY <3>1, <3>2
  <2>13. \A i \in 1..n : c[i - 1] = f[i - 1] => c[i] = f[i]
    BY <2>8, <2>12
  <2>14. \A i \in 0..n : c[i] = f[i]
    <3>1. n \in Nat /\ c[0] = f[0]
      BY <1>1, <2>8, <2>12
    <3> QED BY <2>13, <3>1, Agree, Zenon
  <2>15. Len(b.ranges) = n /\ n \in 0..n
    BY <1>1
  <2> QED BY <2>1, <2>9, <2>14, <2>15
<1>3. DOMAIN Data!CumByMax(b) = maxes
  BY DEF Data!CumByMax
<1> QED BY <1>2, <1>3

-----------------------------------------------------------------------------
(* A goroutine's step that does not collect a histogram leaves it at       *)
(* another place than "count", and makes it no request for Prometheus.     *)
Elsewhere(x) ==
  \E p : Go(x, p) /\ p.at # "count" /\ p.as \in {proc[x].as, "none", "push"}

LEMMA Moving ==
  ASSUME ExportOK, NEW x \in Procs,
         \/ Dial(x) \/ Search(x) \/ RangeNext(x) \/ RLock(x) \/ Push(x) \/ Varz(x)
         \/ Collect(x) \/ RUnlock(x)
  PROVE  Elsewhere(x)
<1> DEFINE q == proc[x]
<1>1. q \in Places
  BY DEF ExportOK
<1>2. Over(q).at # "count" /\ Over(q).as = "none"
  BY DEF Over, Idle
<1> HIDE DEF q
<1>3. ASSUME Go(x, Over(q)) PROVE Elsewhere(x)
  BY <1>2, <1>3 DEF Elsewhere
<1>4. ASSUME NEW p, Go(x, p), p.at # "count", p.as = q.as PROVE Elsewhere(x)
  BY <1>4 DEF Elsewhere, q
<1>5. CASE Dial(x)
  <2>1. CASE Go(x, [q EXCEPT !.at = "search", !.as = "push"])
    <3>1. /\ [q EXCEPT !.at = "search", !.as = "push"].at # "count"
          /\ [q EXCEPT !.at = "search", !.as = "push"].as = "push"
      BY <1>1 DEF Places
    <3> QED BY <2>1, <3>1 DEF Elsewhere
  <2> QED BY <1>3, <1>5, <2>1 DEF Dial, q
<1>6. CASE Search(x)
  <2> DEFINE p == [q EXCEPT !.at = "next", !.todo = IF q.as = "json" THEN {} ELSE store]
  <2>1. p.at # "count" /\ p.as = q.as
    BY <1>1 DEF Places
  <2>2. Go(x, p)
    BY <1>6 DEF Search, q
  <2> HIDE DEF p
  <2> QED BY <1>4, <2>1, <2>2
<1>7. CASE RangeNext(x)
  <2>1. ASSUME NEW m \in q.todo, Go(x, [q EXCEPT !.at = "lock", !.todo = @ \ {m}, !.m = m])
        PROVE  Elsewhere(x)
    <3> DEFINE p == [q EXCEPT !.at = "lock", !.todo = @ \ {m}, !.m = m]
    <3>1. p.at # "count" /\ p.as = q.as
      BY <1>1 DEF Places
    <3> QED BY <1>4, <2>1, <3>1
  <2> QED BY <1>3, <1>7, <2>1 DEF RangeNext, q
<1>8. CASE RLock(x)
  <2> DEFINE p == [q EXCEPT !.at = "emit", !.left = IF Skipped(x) THEN <<>> ELSE lvs[q.m]]
  <2>1. p.at # "count" /\ p.as = q.as
    BY <1>1 DEF Places
  <2>2. Go(x, p)
    BY <1>8 DEF RLock, q
  <2> HIDE DEF p
  <2> QED BY <1>4, <2>1, <2>2
<1>9. ASSUME Written(x) PROVE Elsewhere(x)
  <2> DEFINE p == [q EXCEPT !.at = "emit", !.left = Tail(@)]
  <2>1. p.at # "count" /\ p.as = q.as
    BY <1>1 DEF Places
  <2>2. Go(x, p)
    BY <1>9 DEF Written, q
  <2> HIDE DEF p
  <2> QED BY <1>4, <2>1, <2>2
<1>10. CASE Push(x)
  BY <1>3, <1>9, <1>10 DEF Push, Abandon, q
<1>11. CASE Varz(x)
  BY <1>9, <1>11 DEF Varz
<1>12. CASE Collect(x)
  <2>1. CASE Abandon(x, [q EXCEPT !.at = "next", !.left = <<>>, !.m = "none"])
    <3> DEFINE p == [q EXCEPT !.at = "next", !.left = <<>>, !.m = "none"]
    <3>1. p.at # "count" /\ p.as = q.as
      BY <1>1 DEF Places
    <3>2. Go(x, p)
      BY <2>1 DEF Abandon
    <3> HIDE DEF p
    <3> QED BY <1>4, <3>1, <3>2
  <2> QED BY <1>9, <1>12, <2>1 DEF Collect, q
<1>13. CASE RUnlock(x)
  <2> DEFINE p == [q EXCEPT !.at = "next", !.m = "none"]
  <2>1. p.at # "count" /\ p.as = q.as
    BY <1>1 DEF Places
  <2>2. Go(x, p)
    BY <1>13 DEF RUnlock, q
  <2> HIDE DEF p
  <2> QED BY <1>4, <2>1, <2>2
<1> QED BY <1>5, <1>6, <1>7, <1>8, <1>10, <1>11, <1>12, <1>13

(* What goes on while a histogram is not read: observations are added at   *)
(* the end, and what was read stays read.                                  *)
LEMMA ScrapeSame ==
  ASSUME ExportOK, AtMetric, BucketInv, ScrapeInv, UNCHANGED scraped,
         \A m \in Metrics :
           /\ Len(observed'[m]) \in Nat /\ Len(observed'[m]) >= Len(observed[m])
           /\ \A i \in 1..Len(observed[m]) : observed'[m][i] = observed[m][i],
         proc'["request"].at = "count" =>
           proc["request"].at = "count" /\ proc'["request"].m = proc["request"].m
  PROVE  ScrapeInv'
<1>1. \A m \in Metrics : Len(observed[m]) \in Nat
  BY DEF BucketInv
<1>2. proc["request"].at = "count" => proc["request"].m \in Metrics
  BY DEF AtMetric, Procs
<1>3. proc'["request"].at = "count" =>
        /\ scraped'.m = proc'["request"].m
        /\ scraped'.count \in Nat /\ scraped'.count <= Len(observed'[scraped'.m])
  BY <1>1, <1>2 DEF ScrapeInv
<1>4. ASSUME DOMAIN scraped.cum # {}
      PROVE  scraped.upto \in 0..Len(observed'[scraped.m]) /\ HistogramScraped'
  <2> DEFINE m == scraped.m
  <2>1. m \in Metrics /\ scraped.upto \in 0..Len(observed[m]) /\ HistogramScraped
    BY <1>4 DEF ScrapeInv
  <2>2. \A i \in 1..scraped.upto : observed'[m][i] = observed[m][i]
    BY <1>1, <2>1
  <2>3. scraped.upto \in 0..Len(observed'[m])
    BY <1>1, <2>1
  <2>4. {i \in 1..scraped.upto : observed'[m][i] > Edges[1]}
          = {i \in 1..scraped.upto : observed[m][i] > Edges[1]}
    BY <2>2
  <2>5. \A b : {i \in {j \in 1..scraped.upto : observed'[m][j] > Edges[1]} : observed'[m][i] <= b}
               = {i \in {j \in 1..scraped.upto : observed[m][j] > Edges[1]} : observed[m][i] <= b}
    BY <2>2
  <2>6. HistogramScraped'
    BY <2>1, <2>5 DEF HistogramScraped
  <2> QED BY <2>3, <2>6
<1>5. DOMAIN scraped'.cum # {} =>
        /\ scraped'.m \in Metrics /\ scraped'.upto \in 0..Len(observed'[scraped'.m])
        /\ HistogramScraped'
  BY <1>4 DEF ScrapeInv
<1> QED BY <1>3, <1>5 DEF ScrapeInv

(* The steps of an export.                                                 *)
LEMMA ExportHist ==
  ASSUME ExportInv, HistInv, NEW x \in Procs,
         \/ Export(x)
         \/ x = "push" /\ Tick
         \/ x = "request" /\ \E as \in {"prom", "varz", "json"} : Request(as)
  PROVE  HistInv'
<1> USE DEF lockVars, metricVars, countVars
<1>1. ExportOK /\ AtMetric /\ BucketInv /\ PromInv /\ ScrapeInv /\ proc \in [Procs -> Places]
  BY DEF ExportInv, ExportOK, HistInv
<1>2. UNCHANGED <<buckets, observed>>
  BY DEF Export, Dial, Search, RangeNext, RLock, Push, Varz, Collect, CollectCount,
     CollectBuckets, RUnlock, Tick, Request
<1>3. BucketInv'
  BY <1>1, <1>2 DEF BucketInv, Counted
<1>4. \A m \in Metrics :
        /\ Len(observed'[m]) \in Nat /\ Len(observed'[m]) >= Len(observed[m])
        /\ \A i \in 1..Len(observed[m]) : observed'[m][i] = observed[m][i]
  BY <1>1, <1>2 DEF BucketInv
<1>5. ASSUME NEW p, Go(x, p), p.at # "count",
             p.as = "prom" => x = "request"
      PROVE  /\ PromInv'
             /\ proc'["request"].at = "count" => UNCHANGED proc["request"]
  <2>1. proc'[x] = p /\ \A y \in Procs : y # x => proc'[y] = proc[y]
    BY <1>1, <1>5 DEF Go
  <2> QED BY <1>1, <1>5, <2>1 DEF PromInv, Procs
<1>6. ASSUME Elsewhere(x)
      PROVE  /\ PromInv'
             /\ proc'["request"].at = "count" => UNCHANGED proc["request"]
  <2>1. PICK p : Go(x, p) /\ p.at # "count" /\ p.as \in {proc[x].as, "none", "push"}
    BY <1>6 DEF Elsewhere
  <2>2. p.as = "prom" => x = "request"
    BY <1>1, <2>1 DEF PromInv
  <2> QED BY <1>5, <2>1, <2>2
<1>7. CASE Dial(x) \/ Search(x) \/ RangeNext(x) \/ RLock(x) \/ Push(x) \/ Varz(x) \/ Collect(x)
  <2>1. UNCHANGED scraped
    BY <1>7 DEF Dial, Search, RangeNext, RLock, Push, Varz, Collect
  <2>2. Elsewhere(x)
    BY <1>1, <1>7, Moving
  <2>3. /\ PromInv'
        /\ proc'["request"].at = "count" => UNCHANGED proc["request"]
    BY <1>6, <2>2
  <2>4. ScrapeInv'
    BY <1>1, <1>4, <2>1, <2>3, ScrapeSame
  <2> QED BY <1>3, <2>3, <2>4 DEF HistInv
<1>8. CASE x = "push" /\ Tick
  <2> DEFINE p == [Idle EXCEPT !.at = "dial", !.target = 1]
  <2>1. Go(x, p) /\ p.at # "count" /\ p.as = "none" /\ UNCHANGED scraped
    BY <1>8 DEF Tick, Idle
  <2>2. /\ PromInv'
        /\ proc'["request"].at = "count" => UNCHANGED proc["request"]
    BY <1>5, <2>1
  <2>3. ScrapeInv'
    BY <1>1, <1>4, <2>1, <2>2, ScrapeSame
  <2> QED BY <1>3, <2>2, <2>3 DEF HistInv
<1>9. ASSUME x = "request", NEW as \in {"prom", "varz", "json"}, Request(as) PROVE HistInv'
  <2> DEFINE p == [Idle EXCEPT !.at = "search", !.as = as]
  <2>1. Go(x, p) /\ p.at # "count" /\ UNCHANGED scraped
    BY <1>9 DEF Request, Idle
  <2>2. /\ PromInv'
        /\ proc'["request"].at = "count" => UNCHANGED proc["request"]
    BY <1>5, <1>9, <2>1
  <2>3. ScrapeInv'
    BY <1>1, <1>4, <2>1, <2>2, ScrapeSame
  <2> QED BY <1>3, <2>2, <2>3 DEF HistInv
<1>10. DOMAIN NoScrape.cum = {}
       /\ NoScrape = [m |-> NoScrape.m, count |-> NoScrape.count, upto |-> NoScrape.upto,
                      cum |-> NoScrape.cum]
  BY DEF NoScrape
<1>11. CASE RUnlock(x)
  <2>1. Elsewhere(x)
    BY <1>1, <1>11, Moving
  <2>2. /\ PromInv'
        /\ proc'["request"].at = "count" => UNCHANGED proc["request"]
    BY <1>6, <2>1
  <2>3. CASE UNCHANGED scraped
    <3>1. ScrapeInv'
      BY <1>1, <1>4, <2>2, <2>3, ScrapeSame
    <3> QED BY <1>3, <2>2, <3>1 DEF HistInv
  <2>4. CASE scraped' = NoScrape /\ proc[x].as = "prom"
    <3>1. x = "request"
      BY <1>1, <2>4 DEF PromInv
    <3>2. proc'[x].at # "count"
      <4>1. proc'[x] = [proc[x] EXCEPT !.at = "next", !.m = "none"]
        BY <1>1, <1>11 DEF RUnlock, Go
      <4> QED BY <1>1, <4>1 DEF Places
    <3>3. ScrapeInv'
      BY <1>10, <2>4, <3>1, <3>2 DEF ScrapeInv
    <3> QED BY <1>3, <2>2, <3>3 DEF HistInv
  <2> QED BY <1>11, <2>3, <2>4 DEF RUnlock
<1>12. CASE CollectCount(x)
  <2> DEFINE m == proc[x].m
  <2>1. /\ proc[x].at = "emit" /\ proc[x].as = "prom" /\ x = "request" /\ m \in Metrics
        /\ proc' = [proc EXCEPT ![x] = [proc[x] EXCEPT !.at = "count"]]
        /\ scraped' = [NoScrape EXCEPT !.m = m, !.count = buckets[m].v.count]
    BY <1>1, <1>12 DEF CollectCount, At, Go, PromInv, AtMetric
  <2>2. /\ proc'[x] = [proc[x] EXCEPT !.at = "count"]
        /\ \A y \in Procs : y # x => proc'[y] = proc[y]
    BY <1>1, <2>1
  <2>3. proc'[x].at = "count" /\ proc'[x].as = "prom" /\ proc'[x].m = m
    BY <1>1, <2>1, <2>2 DEF Places
  <2>4. PromInv'
    BY <1>1, <2>1, <2>2, <2>3 DEF PromInv
  <2>5. /\ scraped' = [m |-> m, count |-> buckets[m].v.count, upto |-> 0, cum |-> [b \in {} |-> 0]]
        /\ scraped'.m = m /\ scraped'.count = buckets[m].v.count /\ DOMAIN scraped'.cum = {}
    BY <2>1 DEF NoScrape
  <2>6. buckets[m].v.count = Len(observed'[m]) /\ Len(observed'[m]) \in Nat
    BY <1>1, <1>2, <2>1 DEF BucketInv, Counted
  <2>7. scraped' = [m |-> scraped'.m, count |-> scraped'.count, upto |-> scraped'.upto,
                    cum |-> scraped'.cum]
    BY <2>5
  <2> HIDE DEF m
  <2>8. ScrapeInv'
    BY <2>1, <2>3, <2>5, <2>6, <2>7 DEF ScrapeInv
  <2> QED BY <1>3, <2>4, <2>8 DEF HistInv
<1>13. CASE CollectBuckets(x)
  <2> DEFINE m == proc[x].m
             s == observed[m]
             n == Len(s)
             cum == Data!CumByMax(buckets[m].v)
  <2>1. /\ proc[x].at = "count" /\ x = "request" /\ m \in Metrics
        /\ scraped.m = m /\ scraped.count \in Nat /\ scraped.count <= n
    BY <1>1, <1>13 DEF CollectBuckets, At, PromInv, AtMetric, ScrapeInv
  <2>2. /\ s \in Seq(Values) /\ n \in Nat
        /\ buckets[m] \in Histograms /\ Counted(buckets[m], s)
    BY <1>1, <2>1 DEF BucketInv
  <2>3. /\ Go(x, [proc[x] EXCEPT !.at = "emit", !.left = Tail(@)])
        /\ scraped' = [scraped EXCEPT !.upto = n, !.cum = cum]
    BY <1>13 DEF CollectBuckets, Written
  <2>4. /\ [proc[x] EXCEPT !.at = "emit", !.left = Tail(@)].at # "count"
        /\ proc'[x] = [proc[x] EXCEPT !.at = "emit", !.left = Tail(@)]
        /\ proc'[x].at # "count"
    BY <1>1, <2>3 DEF Places, Go
  <2>5. PromInv'
    BY <1>5, <2>1, <2>3, <2>4
  <2>6. /\ scraped' = [m |-> m, count |-> scraped.count, upto |-> n, cum |-> cum]
    BY <1>1, <2>1, <2>3 DEF ScrapeInv
  <2>7. \A b \in DOMAIN cum : cum[b] = Cardinality(Between(s, Edges[1], b))
    BY <2>2, CumIs
  <2> HIDE DEF cum
  <2>8. /\ scraped'.m = m /\ scraped'.count = scraped.count /\ scraped'.upto = n
        /\ scraped'.cum = cum /\ observed'[m] = s
    BY <1>2, <2>6
  <2> HIDE DEF m, n, s
  <2>9. HistogramScraped'
    <3>1. \A b : Between(s, Edges[1], b) = {i \in {j \in 1..n : s[j] > Edges[1]} : s[i] <= b}
      BY DEF Between, n
    <3> QED BY <2>1, <2>7, <2>8, <3>1 DEF HistogramScraped
  <2>10. n \in 0..Len(observed'[m])
    BY <2>2, <2>8 DEF n
  <2>11. ScrapeInv'
    BY <2>1, <2>4, <2>6, <2>8, <2>9, <2>10 DEF ScrapeInv
  <2> QED BY <1>3, <2>5, <2>11 DEF HistInv
<1> QED BY <1>7, <1>8, <1>9, <1>11, <1>12, <1>13 DEF Export

LEMMA InitHist == Init => HistInv
<1> SUFFICES ASSUME Init PROVE HistInv
  OBVIOUS
<1> USE DEF Init, ExporterInit
<1>1. BucketInv
  <2>1. observed \in [Metrics -> Seq(Values)]
    OBVIOUS
  <2>2. \A m \in Metrics : buckets[m] = Data!NewDatum("Buckets", Ranges) /\ observed[m] = <<>>
    OBVIOUS
  <2>3. buckets \in [Metrics -> Histograms]
    BY NewCounted
  <2>4. \A m \in Metrics : Counted(buckets[m], observed[m])
    BY <2>2, NewCounted
  <2> QED BY <2>1, <2>3, <2>4 DEF BucketInv
<1>2. PromInv
  BY DEF PromInv, Idle
<1>3. ScrapeInv
  <2>1. scraped = NoScrape /\ proc["request"].at = "idle"
    BY DEF Idle, Procs
  <2> QED BY <2>1 DEF ScrapeInv, NoScrape
<1> QED BY <1>1, <1>2, <1>3 DEF HistInv

(* An observation.                                                         *)
LEMMA ObserveHist ==
  ASSUME ExportInv, HistInv, NEW m \in Metrics, Observe(m)
  PROVE  HistInv'
<1>1. PICK v \in Values : /\ buckets' = [buckets EXCEPT ![m] = Data!Observe(@, v, 0)]
                          /\ observed' = [observed EXCEPT ![m] = Append(@, v)]
                          /\ UNCHANGED <<proc, scraped>>
  BY DEF Observe
<1>2. ExportOK /\ AtMetric /\ BucketInv /\ PromInv /\ ScrapeInv
  BY DEF ExportInv, HistInv
<1>3. /\ buckets[m] \in Histograms /\ observed[m] \in Seq(Values)
      /\ Counted(buckets[m], observed[m])
  BY <1>2 DEF BucketInv
<1>4. /\ Data!Observe(buckets[m], v, 0) \in Histograms
      /\ Counted(Data!Observe(buckets[m], v, 0), Append(observed[m], v))
  BY <1>3, ObserveCounts
<1>5. /\ buckets'[m] = Data!Observe(buckets[m], v, 0)
      /\ observed'[m] = Append(observed[m], v)
      /\ \A k \in Metrics : k # m => buckets'[k] = buckets[k] /\ observed'[k] = observed[k]
  BY <1>1, <1>2 DEF BucketInv
<1>6. BucketInv'
  <2>1. observed' \in [Metrics -> Seq(Values)]
    <3>1. Append(observed[m], v) \in Seq(Values)
      BY <1>3
    <3> QED BY <1>1, <1>2, <3>1 DEF BucketInv
  <2>2. buckets' \in [Metrics -> Histograms]
    BY <1>1, <1>2, <1>4 DEF BucketInv
  <2>3. \A k \in Metrics : Counted(buckets'[k], observed'[k])
    BY <1>2, <1>4, <1>5 DEF BucketInv
  <2> QED BY <2>1, <2>2, <2>3 DEF BucketInv
<1>7. ASSUME NEW k \in Metrics
      PROVE  /\ Len(observed'[k]) \in Nat /\ Len(observed'[k]) >= Len(observed[k])
             /\ \A i \in 1..Len(observed[k]) : observed'[k][i] = observed[k][i]
  <2>1. CASE k = m
    BY <1>3, <1>5, <2>1
  <2>2. CASE k # m
    BY <1>2, <1>5, <2>2 DEF BucketInv
  <2> QED BY <2>1, <2>2
<1>8. ScrapeInv'
  BY <1>1, <1>2, <1>7, ScrapeSame
<1>9. PromInv'
  BY <1>1, <1>2 DEF PromInv
<1> QED BY <1>6, <1>8, <1>9 DEF HistInv

(* Every step preserves what is said of the histograms.                    *)
LEMMA NextHist == IInv /\ HistInv /\ [Next]_vars => HistInv'
<1> SUFFICES ASSUME IInv, HistInv, [Next]_vars PROVE HistInv'
  OBVIOUS
<1> USE DEF exportVars, lockVars, metricVars, countVars
<1>a. ExportInv
  BY DEF IInv
<1>1. ASSUME UNCHANGED <<proc, scraped, buckets, observed>> PROVE HistInv'
  BY <1>1 DEF HistInv, BucketInv, Counted, PromInv, ScrapeInv, HistogramScraped
<1>2. CASE SetOption \/ InitExporter \/ InitTailer \/ InitHttpServer \/ Run
  BY <1>1, <1>2 DEF SetOption, InitExporter, InitTailer, InitHttpServer, Run
<1>3. CASE LoadProgram \/ StartVM
  BY <1>1, <1>3 DEF LoadProgram, StartVM, Insert
<1>4. CASE LoaderStep \/ TailerStep \/ ServeHTTP \/ Cancel \/ Write
  BY <1>1, <1>4 DEF LoaderStep, TailerStep, Take, Consume, Waiter,
     Fetch, Sleep, Closer, ServeHTTP, Cancel, Write
<1>5. ASSUME NEW p \in Progs, VMStep(p) PROVE HistInv'
  <2>1. CASE Observe(p)
    BY <1>a, <2>1, ObserveHist DEF Progs
  <2>2. CASE ~Observe(p)
    <3>1. UNCHANGED <<proc, scraped, buckets, observed>>
      BY <1>5, <2>2 DEF VMStep, GetDatum
    <3> QED BY <1>1, <3>1
  <2> QED BY <2>1, <2>2
<1>6. CASE PushLoop \/ Serve \/ \E x \in Procs : ExportStep(x)
  <2>1. \E x \in Procs :
          \/ Export(x)
          \/ x = "push" /\ Tick
          \/ x = "request" /\ \E as \in {"prom", "varz", "json"} : Request(as)
    BY <1>6 DEF PushLoop, Serve, ExportStep, Procs
  <2> QED BY <1>a, <2>1, ExportHist
<1>7. CASE UNCHANGED vars
  BY <1>1, <1>7 DEF vars
<1> QED BY <1>2, <1>3, <1>4, <1>5, <1>6, <1>7 DEF Next, MainStep

-----------------------------------------------------------------------------
(* What Prometheus is given of a histogram, while programs observe values  *)
(* in it, is that of one moment for all buckets, each the number of the    *)
(* observations up to its bound (prometheus.go:61-71, datum.go:240-259);   *)
(* the count is that of an earlier moment.  This holds for any boundaries  *)
(* that codegen.go:128-151 accepts, and any values.                        *)
THEOREM ServerHistogramScraped == Spec => []HistogramScraped
<1>1. Init => HistInv
  BY InitHist
<1>2. IInv /\ HistInv /\ [Next]_vars => HistInv'
  BY NextHist
<1>3. HistInv => HistogramScraped
  BY DEF HistInv, ScrapeInv, HistogramScraped
<1> QED BY <1>1, <1>2, <1>3, ServerIInv, PTL DEF Spec
=============================================================================
