------------------------------- MODULE Datum -------------------------------
(***************************************************************************)
(* Data and their values (internal/metrics/datum).  A datum has a type, a  *)
(* value and a time; a histogram's value is its buckets, its count and its *)
(* sum.  Now stands for the clock's time.                                  *)
(*                                                                         *)
(* A Go value is [k, v] with its dynamic type k.  A float64 is a number of *)
(* halves.  A string is <<"num", h>>, the shortest decimal text of h/2, or *)
(* <<"word", w>>, a sequence of words that is no number.                   *)
(***************************************************************************)
EXTENDS Integers, Sequences

CONSTANT Inf   (* +Inf, above every value *)

Val(k, v) == [k |-> k, v |-> v]
Word(w)   == <<"word", IF w = "" THEN <<>> ELSE <<w>>>>
Num(h)    == <<"num", h>>
Halves(n) == 2 * n

\* The zero time.Time and the time of the clock.
ZeroTime == -1
Now      == -2

Range(min, max) == [min |-> min, max |-> max]
Contains(r, v)  == r.min < v /\ v <= r.max

Stamp(ts) == IF ts = ZeroTime THEN Now ELSE ts

-----------------------------------------------------------------------------
(* Construction: NewInt, NewFloat, NewString, NewBuckets. *)

\* A bucket up to infinity is added if there is none.
MakeBuckets(ranges) ==
  LET finite  == {ranges[i].max : i \in DOMAIN ranges} \ {Inf}
      highest == CHOOSE h \in finite \cup {0} : \A x \in finite \cup {0} : x <= h
      all     == IF \E i \in DOMAIN ranges : ranges[i].max = Inf THEN ranges
                 ELSE Append(ranges, Range(highest, Inf))
  IN  [ranges |-> all, counts |-> [i \in DOMAIN all |-> 0], count |-> 0, sum |-> 0]

NewDatum(type, ranges) ==
  [ type |-> type,
    time |-> IF type = "Buckets" THEN 0 ELSE Now,
    v    |-> CASE type \in {"Int", "Float"} -> 0
               [] type = "String"  -> Word("")
               [] type = "Buckets" -> MakeBuckets(ranges) ]

-----------------------------------------------------------------------------
(* Updates.  An operation on a datum of another type panics: Fits says     *)
(* which do not.                                                           *)

Set(d, v, ts)   == [d EXCEPT !.v = v, !.time = Stamp(ts)]
IncBy(d, n, ts) == [d EXCEPT !.v = @ + n, !.time = Stamp(ts)]
DecBy(d, n, ts) == [d EXCEPT !.v = @ - n, !.time = Stamp(ts)]

\* The first bucket that contains the value counts it, if there is one.
Observe(d, v, ts) ==
  LET b      == d.v
      hits   == {i \in DOMAIN b.ranges : Contains(b.ranges[i], v)}
      Hit(i) == i \in hits /\ \A j \in hits : i <= j
      counts == [i \in DOMAIN b.counts |-> b.counts[i] + (IF Hit(i) THEN 1 ELSE 0)]
  IN  [d EXCEPT !.v = [b EXCEPT !.counts = counts, !.count = @ + 1, !.sum = @ + v],
                !.time = Stamp(ts)]

FitsSet(d, type) == d.type = type \/ (d.type = "Buckets" /\ type \in {"Int", "Float"})
SetInt(d, n, ts)   == IF d.type = "Buckets" THEN Observe(d, Halves(n), ts) ELSE Set(d, n, ts)
SetFloat(d, h, ts) == IF d.type = "Buckets" THEN Observe(d, h, ts) ELSE Set(d, h, ts)
SetString(d, s, ts) == Set(d, s, ts)

-----------------------------------------------------------------------------
(* What the exporters read. *)

\* The counts are not added up.
BadCumByMax(b) == [m \in {b.ranges[i].max : i \in DOMAIN b.ranges} |->
                     b.counts[CHOOSE i \in DOMAIN b.ranges : b.ranges[i].max = m]]

\* GetBucketsCumByMax: the counts added up in the order of the bounds, which
\* are different ones in the ranges of a declaration.
CumByMax(b) ==
  LET Upto(m) ==
        LET sum[i \in 0 .. Len(b.ranges)] ==
              IF i = 0 THEN 0 ELSE sum[i - 1] + (IF b.ranges[i].max <= m THEN b.counts[i] ELSE 0)
        IN  sum[Len(b.ranges)]
  IN  [m \in {b.ranges[i].max : i \in DOMAIN b.ranges} |-> Upto(m)]
=============================================================================
