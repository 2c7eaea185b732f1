---------------------------- MODULE ServerProofs ----------------------------
(***************************************************************************)
(* Proofs that the exports of a Server hold the locks they need and no     *)
(* others, and that nothing is left to process when Run returns, for every *)
(* set of metrics and labels, every directory of programs, every number of *)
(* push targets and any bounds.                                            *)
(***************************************************************************)
EXTENDS Server, FiniteSetTheorems, TLAPS

LabelSets == Labels \cup {Unlabelled}

Places ==
  [at : {"idle", "dial", "search", "next", "lock", "emit", "count"},
   as : {"none", "push", "prom", "varz", "json"}, todo : SUBSET Metrics,
   m : Metrics \cup {"none"}, left : Seq(LabelSets), target : Nat]

(* The types of what the exporter keeps. *)
ExportOK ==
  /\ proc \in [Procs -> Places]
  /\ out \in [Procs -> SUBSET LabelSets]
  /\ store \in SUBSET Metrics
  /\ lvs \in [Metrics -> Seq(LabelSets)]
  /\ searching \in Nat /\ failures \in Nat
  /\ readers \in [Metrics -> Nat] /\ leaked \in [Metrics -> Nat]

(* A goroutine that is at a metric has one, one that is between its count  *)
(* and its buckets has a label set to write, and one that holds no         *)
(* metric's lock has written nothing.                                      *)
AtMetric ==
  \A x \in Procs :
    /\ proc[x].at \in {"lock", "emit", "count"} => proc[x].m \in Metrics
    /\ proc[x].at = "count" => proc[x].left # <<>>
    /\ proc[x].at \notin {"emit", "count"} => out[x] = {}

(* The types of the rest. *)
ServerOK ==
  /\ todo \in Seq(Metrics) /\ (main = "insert" => todo # <<>>)
  /\ handles \subseteq Progs /\ sending \subseteq Progs
  /\ vm \in [Progs -> {"none", "recv", "busy", "lock", "observe", "gone"}]
  /\ written \in Nat /\ fetched \in Nat /\ read \in Nat /\ due \in Nat /\ wg \in Int
  /\ done \in [Progs -> Nat]

(* Before NewLoader has returned nothing but the load has begun, and       *)
(* before initTailer there is no log.                                      *)
StartInv ==
  /\ main \in {"options", "exporter", "load", "insert"} =>
       /\ consumer = "init" /\ waiter = "none" /\ sending = {}
       /\ \A p \in Progs : vm[p] \in {"none", "recv"} /\ done[p] = 0
  /\ main \in {"options", "exporter", "load", "insert", "tailer"} =>
       stream = "none" /\ closer = "none" /\ ~linesClosed

(* wg counts the Loader's waiter and the Tailer's closer.                  *)
WgInv ==
  /\ main \in {"options", "exporter"} => wg = 0
  /\ main \in {"load", "insert", "tailer", "http", "wait", "write"} =>
       wg = (IF waiter = "gone" THEN 0 ELSE 1) + (IF closer = "wait" THEN 1 ELSE 0)

(* Who ends after whom: the stream, the closer with the channel of lines,  *)
(* the consumer with the handles, the machines, the waiter, and then Run.  *)
EndInv ==
  /\ linesClosed => stream \in {"none", "gone"} /\ closer \in {"none", "gone"}
  /\ consumer \in {"end", "gone"} => linesClosed
  /\ \A p \in Progs : vm[p] = "gone" => consumer = "gone"
  /\ waiter = "gone" => consumer = "gone" /\ \A p \in Progs : vm[p] \in {"none", "gone"}
  /\ main = "write" \/ (main = "exit" /\ status = 0) => waiter = "gone"
  /\ main = "exit" /\ status = 2 => consumer = "end"

(* Where the log is read to.  What is due is in the log; when the context  *)
(* is done it goes no further than the buffer, or the next read.  A stream *)
(* that has ended has sent its buffer and read what was due, and nothing   *)
(* becomes due after that.                                                 *)
ReadInv ==
  /\ stream \in {"none", "read", "send", "eof", "gone"}
  /\ read <= fetched
  /\ stream = "none" => due = 0 /\ fetched = 0
  /\ stream \in {"read", "send", "eof"} => due <= written /\ fetched <= written
  /\ stream # "send" => read = fetched
  /\ stream = "read" /\ cancelled => due <= fetched + 1
  /\ (stream = "send" /\ cancelled) \/ stream = "eof" => due <= fetched
  /\ stream = "gone" => due <= read /\ (opt.oneShot \/ cancelled)

(* Each line that was read is, for each program that runs, processed, with *)
(* its machine, or still to be sent to it.                                 *)
LineInv ==
  /\ consumer # "send" => sending = {}
  /\ sending \subseteq handles
  /\ consumer # "gone" => handles = {p \in Progs : vm[p] # "none"}
  /\ \A p \in Progs : vm[p] # "none" =>
       read = done[p] + (IF p \in sending THEN 1 ELSE 0)
                + (IF vm[p] \in {"busy", "lock", "observe"} THEN 1 ELSE 0)

(* The inductive invariant: what the exporter keeps, and the rest. *)
ExportInv == ExportOK /\ AtMetric /\ LocksReturned /\ Snapshot
RunInv == ServerOK /\ StartInv /\ WgInv /\ EndInv /\ ReadInv /\ LineInv
IInv == ExportInv /\ RunInv

-----------------------------------------------------------------------------
(* The goroutines that hold searchMu, and those that hold a metric's lock. *)
Searches(p) == p.at \in {"next", "lock", "emit", "count"}
Holds(p, m) == p.at \in {"emit", "count"} /\ p.m = m
Searchers == {x \in Procs : Searches(proc[x])}
Holders(m) == {x \in Procs : Holds(proc[x], m)}

(* LocksReturned in these words. *)
Locks ==
  /\ searching = Cardinality(Searchers)
  /\ \A m \in Metrics :
       /\ readers[m] = leaked[m] + Cardinality(Holders(m))
       /\ leaked[m] > 0 => failures > 0 \/ m \notin Valid

LEMMA LocksAre == (LocksReturned <=> Locks) /\ (LocksReturned' <=> Locks')
BY DEF LocksReturned, Locks, Searchers, Holders, Searches, Holds

(* What becomes of the size of a set of goroutines when one is added or    *)
(* removed.                                                                *)
LEMMA Sizes ==
  ASSUME NEW S \in SUBSET Procs, NEW x \in Procs
  PROVE  /\ Cardinality(S) \in Nat
         /\ x \in S => Cardinality(S) > 0
         /\ Cardinality(S \cup {x}) = Cardinality(S) + (IF x \in S THEN 0 ELSE 1)
         /\ Cardinality(S \ {x}) = Cardinality(S) - (IF x \in S THEN 1 ELSE 0)
<1>1. IsFiniteSet(S)
  <2>1. IsFiniteSet(Procs)
    <3>1. IsFiniteSet({"push"})
      BY FS_Singleton
    <3>2. IsFiniteSet({"push"} \cup {"request"})
      BY <3>1, FS_AddElement
    <3>3. Procs = {"push"} \cup {"request"}
      BY DEF Procs
    <3> QED BY <3>2, <3>3
  <2> QED BY <2>1, FS_Subset
<1>2. Cardinality(S) \in Nat
  BY <1>1, FS_CardinalityType
<1>3. Cardinality(S \cup {x}) = Cardinality(S) + (IF x \in S THEN 0 ELSE 1)
  BY <1>1, <1>2, FS_AddElement
<1>4. Cardinality(S \ {x}) = Cardinality(S) - (IF x \in S THEN 1 ELSE 0)
  <2>1. CASE x \in S
    BY <1>1, <1>2, <2>1, FS_RemoveElement
  <2>2. CASE x \notin S
    <3>1. S \ {x} = S
      BY <2>2
    <3> QED BY <1>2, <2>2, <3>1
  <2> QED BY <2>1, <2>2
<1>5. IsFiniteSet(S \ {x})
  BY <1>1, FS_RemoveElement
<1>6. Cardinality(S \ {x}) \in Nat
  BY <1>5, FS_CardinalityType
<1>7. x \in S => Cardinality(S) > 0
  BY <1>2, <1>4, <1>6
<1> QED BY <1>2, <1>3, <1>4, <1>7

(* One goroutine goes from where it is to p.                               *)
LEMMA Moves ==
  ASSUME ExportOK, NEW x \in Procs, NEW p \in Places, Go(x, p)
  PROVE  /\ proc' \in [Procs -> Places] /\ proc'[x] = p
         /\ \A y \in Procs : y # x => proc'[y] = proc[y]
         /\ Cardinality(Searchers') = Cardinality(Searchers)
              + (IF Searches(p) THEN 1 ELSE 0) - (IF Searches(proc[x]) THEN 1 ELSE 0)
         /\ Cardinality(Searchers) \in Nat
         /\ Searches(proc[x]) => Cardinality(Searchers) > 0
         /\ \A m \in Metrics :
              /\ Cardinality(Holders(m)') = Cardinality(Holders(m))
                   + (IF Holds(p, m) THEN 1 ELSE 0) - (IF Holds(proc[x], m) THEN 1 ELSE 0)
              /\ Cardinality(Holders(m)) \in Nat
              /\ Holds(proc[x], m) => Cardinality(Holders(m)) > 0
<1>1. /\ proc' \in [Procs -> Places] /\ proc'[x] = p
      /\ \A y \in Procs : y # x => proc'[y] = proc[y]
  BY DEF ExportOK, Go
<1>2. Searchers \in SUBSET Procs
  BY DEF Searchers
<1>3. Searchers' = IF Searches(p) THEN Searchers \cup {x} ELSE Searchers \ {x}
  BY <1>1 DEF Searchers
<1>4. x \in Searchers <=> Searches(proc[x])
  BY DEF Searchers
<1>5. /\ Cardinality(Searchers') = Cardinality(Searchers)
           + (IF Searches(p) THEN 1 ELSE 0) - (IF Searches(proc[x]) THEN 1 ELSE 0)
      /\ Cardinality(Searchers) \in Nat
      /\ Searches(proc[x]) => Cardinality(Searchers) > 0
  BY <1>2, <1>3, <1>4, Sizes
<1>6. ASSUME NEW m \in Metrics
      PROVE  /\ Cardinality(Holders(m)') = Cardinality(Holders(m))
                  + (IF Holds(p, m) THEN 1 ELSE 0) - (IF Holds(proc[x], m) THEN 1 ELSE 0)
             /\ Cardinality(Holders(m)) \in Nat
             /\ Holds(proc[x], m) => Cardinality(Holders(m)) > 0
  <2>2. Holders(m) \in SUBSET Procs
    BY DEF Holders
  <2>3. Holders(m)' = IF Holds(p, m) THEN Holders(m) \cup {x} ELSE Holders(m) \ {x}
    BY <1>1 DEF Holders
  <2>4. x \in Holders(m) <=> Holds(proc[x], m)
    BY DEF Holders
  <2> DEFINE S == Holders(m)
             T == Holders(m)'
  <2>5. /\ Cardinality(S) \in Nat
        /\ x \in S => Cardinality(S) > 0
        /\ Cardinality(S \cup {x}) = Cardinality(S) + (IF x \in S THEN 0 ELSE 1)
        /\ Cardinality(S \ {x}) = Cardinality(S) - (IF x \in S THEN 1 ELSE 0)
    BY <2>2, Sizes
  <2>6. T = (IF Holds(p, m) THEN S \cup {x} ELSE S \ {x}) /\ (x \in S <=> Holds(proc[x], m))
    BY <2>3, <2>4
  <2> HIDE DEF S, T
  <2>7. /\ Cardinality(T) = Cardinality(S)
             + (IF Holds(p, m) THEN 1 ELSE 0) - (IF Holds(proc[x], m) THEN 1 ELSE 0)
        /\ Cardinality(S) \in Nat
        /\ Holds(proc[x], m) => Cardinality(S) > 0
    BY <2>5, <2>6
  <2> QED BY <2>7 DEF S, T
<1> QED BY <1>1, <1>5, <1>6

(* What is left of a list and its head are what the list held.             *)
LEMMA HeadAndRest ==
  ASSUME NEW s \in Seq(LabelSets), s # <<>>
  PROVE  /\ Head(s) \in LabelSets /\ Tail(s) \in Seq(LabelSets)
         /\ ToSet(s) = {Head(s)} \cup ToSet(Tail(s))
<1>1. Head(s) \in LabelSets /\ Tail(s) \in Seq(LabelSets)
  OBVIOUS
<1>2. ASSUME NEW e PROVE e \in ToSet(s) <=> e = Head(s) \/ e \in ToSet(Tail(s))
  <2>1. ASSUME e \in ToSet(s) PROVE e = Head(s) \/ e \in ToSet(Tail(s))
    <3>1. PICK i \in 1..Len(s) : s[i] = e
      BY <2>1 DEF ToSet
    <3>2. CASE i = 1
      BY <3>1, <3>2
    <3>3. CASE i # 1
      <4>1. i - 1 \in DOMAIN Tail(s) /\ Tail(s)[i - 1] = e
        BY <3>1, <3>3
      <4> QED BY <4>1 DEF ToSet
    <3> QED BY <3>2, <3>3
  <2>2. ASSUME e \in ToSet(Tail(s)) PROVE e \in ToSet(s)
    <3>1. PICK i \in DOMAIN Tail(s) : Tail(s)[i] = e
      BY <2>2 DEF ToSet
    <3>2. i + 1 \in DOMAIN s /\ s[i + 1] = e
      BY <3>1
    <3> QED BY <3>2 DEF ToSet
  <2>3. Head(s) \in ToSet(s)
    <3>1. 1 \in DOMAIN s /\ s[1] = Head(s)
      OBVIOUS
    <3> QED BY <3>1 DEF ToSet
  <2> QED BY <2>1, <2>2, <2>3
<1> QED BY <1>1, <1>2

(* What a step of one goroutine must do to keep the exporter's part of the *)
(* invariant: stand at a metric only with one, write what it had, and      *)
(* change the locks by what it takes, gives back or leaves behind.         *)
Skips(p) == Kind[p.m] = "Text" /\ p.as \in {"push", "prom"}
StandsAt(p, outs) ==
  /\ p.at \in {"lock", "emit", "count"} => p.m \in Metrics
  /\ p.at = "count" => p.left # <<>>
  /\ p.at \notin {"emit", "count"} => outs = {}
  /\ p.at \in {"emit", "count"} /\ ~Skips(p) => outs \cup ToSet(p.left) = ToSet(lvs[p.m])
Searching(p) == IF Searches(p) THEN 1 ELSE 0
Holding(p, m) == IF Holds(p, m) THEN 1 ELSE 0

LEMMA ExporterStep ==
  ASSUME ExportOK, AtMetric, Locks, Snapshot,
         NEW x \in Procs, NEW p \in Places, Go(x, p),
         NEW w \in SUBSET LabelSets, out' = [out EXCEPT ![x] = w], StandsAt(p, w),
         UNCHANGED <<store, lvs>>, failures' \in Nat, failures' >= failures,
         searching' = searching + Searching(p) - Searching(proc[x]),
         leaked' \in [Metrics -> Nat],
         readers' \in [Metrics -> Int],
         \A m \in Metrics :
           /\ leaked'[m] >= leaked[m]
           /\ leaked'[m] > leaked[m] => failures' > 0 \/ m \notin Valid
           /\ readers'[m] = readers[m] + (leaked'[m] - leaked[m])
                             + Holding(p, m) - Holding(proc[x], m)
  PROVE  ExportInv'
<1>1. /\ proc' \in [Procs -> Places] /\ proc'[x] = p
      /\ \A y \in Procs : y # x => proc'[y] = proc[y]
  BY Moves
<1>2. /\ out' \in [Procs -> SUBSET LabelSets] /\ out'[x] = w
      /\ \A y \in Procs : y # x => out'[y] = out[y]
  BY DEF ExportOK
<1>3. AtMetric'
  BY <1>1, <1>2 DEF AtMetric, StandsAt
<1>4. Snapshot'
  <2> SUFFICES ASSUME NEW y \in Procs, proc'[y].at \in {"emit", "count"}, ~Skips(proc'[y])
               PROVE  out'[y] \cup ToSet(proc'[y].left) = ToSet(lvs[proc'[y].m])
    BY DEF Snapshot, Skipped, Skips
  <2>1. CASE y = x
    BY <1>1, <1>2, <2>1 DEF StandsAt
  <2>2. CASE y # x
    BY <1>1, <1>2, <2>2 DEF Snapshot, Skipped, Skips
  <2> QED BY <2>1, <2>2
<1>5. searching' = Cardinality(Searchers') /\ searching' \in Nat
  <2>1. /\ Cardinality(Searchers') = Cardinality(Searchers) + Searching(p) - Searching(proc[x])
        /\ Cardinality(Searchers) \in Nat
        /\ Searching(proc[x]) = 1 => Cardinality(Searchers) > 0
    BY Moves DEF Searching
  <2>2. Searching(p) \in {0, 1} /\ Searching(proc[x]) \in {0, 1}
    BY DEF Searching
  <2>3. searching = Cardinality(Searchers)
    BY DEF Locks
  <2> QED BY <2>1, <2>2, <2>3
<1>6. ASSUME NEW m \in Metrics
      PROVE  /\ readers'[m] = leaked'[m] + Cardinality(Holders(m)')
             /\ readers'[m] \in Nat
             /\ leaked'[m] > 0 => failures' > 0 \/ m \notin Valid
  <2> DEFINE S == Cardinality(Holders(m))
             T == Cardinality(Holders(m)')
  <2>1. /\ T = S + Holding(p, m) - Holding(proc[x], m)
        /\ S \in Nat
        /\ Holding(proc[x], m) = 1 => S > 0
    BY Moves DEF Holding
  <2>2. Holding(p, m) \in {0, 1} /\ Holding(proc[x], m) \in {0, 1}
    BY DEF Holding
  <2>3. readers[m] = leaked[m] + S /\ (leaked[m] > 0 => failures > 0 \/ m \notin Valid)
    BY DEF Locks
  <2>4. leaked[m] \in Nat /\ leaked'[m] \in Nat /\ failures \in Nat
    BY DEF ExportOK
  <2> HIDE DEF S, T
  <2>5. readers'[m] = leaked'[m] + T /\ readers'[m] \in Nat
    BY <2>1, <2>2, <2>3, <2>4
  <2>6. leaked'[m] > 0 => failures' > 0 \/ m \notin Valid
    BY <2>3, <2>4
  <2> QED BY <2>5, <2>6 DEF S, T
<1>7. ExportOK'
  BY <1>1, <1>2, <1>5, <1>6 DEF ExportOK
<1>8. LocksReturned'
  BY <1>5, <1>6, LocksAre DEF Locks
<1> QED BY <1>3, <1>4, <1>7, <1>8 DEF ExportInv

(* A step of a goroutine that holds no metric's lock before or after it.   *)
LEMMA Passes ==
  ASSUME ExportOK, AtMetric, Locks, Snapshot,
         NEW x \in Procs, NEW p \in Places, Go(x, p),
         proc[x].at \notin {"emit", "count"}, p.at \notin {"emit", "count"},
         p.at = "lock" => p.m \in Metrics,
         UNCHANGED <<readers, leaked, store, lvs, out>>, failures' \in Nat, failures' >= failures,
         searching' = searching + Searching(p) - Searching(proc[x])
  PROVE  ExportInv'
<1>1. out[x] = {} /\ out' = [out EXCEPT ![x] = {}]
  BY DEF ExportOK, AtMetric
<1>2. StandsAt(p, {})
  BY DEF StandsAt
<1>3. leaked' \in [Metrics -> Nat] /\ readers' \in [Metrics -> Int]
  BY DEF ExportOK
<1>4. ASSUME NEW m \in Metrics
      PROVE  /\ leaked'[m] >= leaked[m]
             /\ leaked'[m] > leaked[m] => failures' > 0 \/ m \notin Valid
             /\ readers'[m] = readers[m] + (leaked'[m] - leaked[m])
                              + Holding(p, m) - Holding(proc[x], m)
  <2>1. Holding(p, m) = 0 /\ Holding(proc[x], m) = 0
    BY DEF Holding, Holds
  <2>2. leaked[m] \in Nat /\ readers[m] \in Nat
    BY DEF ExportOK
  <2> QED BY <2>1, <2>2
<1> QED BY <1>1, <1>2, <1>3, <1>4, ExporterStep

(* A step of a goroutine that has a metric's lock and keeps it: it writes  *)
(* the label sets in w.                                                    *)
LEMMA Emits ==
  ASSUME ExportOK, AtMetric, Locks, Snapshot,
         NEW x \in Procs, NEW p \in Places, Go(x, p),
         proc[x].at \in {"emit", "count"}, p.at \in {"emit", "count"},
         p.m = proc[x].m, p.as = proc[x].as, p.at = "count" => p.left # <<>>,
         NEW w \in SUBSET LabelSets, out' = [out EXCEPT ![x] = w],
         w \cup ToSet(p.left) = out[x] \cup ToSet(proc[x].left),
         UNCHANGED <<searching, readers, leaked, store, lvs>>, failures' = failures
  PROVE  ExportInv'
<1>1. StandsAt(p, w)
  <2>1. p.m \in Metrics
    BY DEF AtMetric
  <2>2. ASSUME ~Skips(p) PROVE w \cup ToSet(p.left) = ToSet(lvs[p.m])
    <3>1. ~Skipped(x)
      BY <2>2 DEF Skips, Skipped
    <3> QED BY <3>1 DEF Snapshot
  <2> QED BY <2>1, <2>2 DEF StandsAt
<1>2. searching' = searching + Searching(p) - Searching(proc[x])
  <2>1. Searching(p) = 1 /\ Searching(proc[x]) = 1
    BY DEF Searching, Searches
  <2> QED BY <2>1 DEF ExportOK
<1>3. /\ leaked' \in [Metrics -> Nat] /\ readers' \in [Metrics -> Int] /\ failures' \in Nat
      /\ failures' >= failures
  BY DEF ExportOK
<1>4. ASSUME NEW m \in Metrics
      PROVE  /\ leaked'[m] >= leaked[m]
             /\ leaked'[m] > leaked[m] => failures' > 0 \/ m \notin Valid
             /\ readers'[m] = readers[m] + (leaked'[m] - leaked[m])
                              + Holding(p, m) - Holding(proc[x], m)
  <2>1. Holding(p, m) = Holding(proc[x], m) /\ Holding(p, m) \in {0, 1}
    BY DEF Holding, Holds
  <2>2. leaked[m] \in Nat /\ readers[m] \in Nat
    BY DEF ExportOK
  <2> QED BY <2>1, <2>2
<1> QED BY <1>1, <1>2, <1>3, <1>4, ExporterStep

(* A step of a goroutine that goes on from a metric, and gives its lock    *)
(* back or leaves it behind.                                               *)
LEMMA LeavesMetric ==
  ASSUME ExportOK, AtMetric, Locks, Snapshot,
         NEW x \in Procs, NEW p \in Places, Go(x, p),
         proc[x].at = "emit", p.at \notin {"lock", "emit", "count"},
         out' = [out EXCEPT ![x] = {}],
         UNCHANGED <<store, lvs>>, failures' \in Nat, failures' >= failures,
         searching' = searching + Searching(p) - 1,
         \/ leaked' = leaked /\ readers' = [readers EXCEPT ![proc[x].m] = @ - 1]
         \/ /\ leaked' = [leaked EXCEPT ![proc[x].m] = @ + 1] /\ readers' = readers
            /\ failures' > 0 \/ proc[x].m \notin Valid
  PROVE  ExportInv'
<1>1. StandsAt(p, {}) /\ Searching(proc[x]) = 1 /\ proc[x].m \in Metrics
  BY DEF StandsAt, Searching, Searches, AtMetric
<1>2. leaked \in [Metrics -> Nat] /\ readers \in [Metrics -> Nat]
  BY DEF ExportOK
<1>3. leaked' \in [Metrics -> Nat] /\ readers' \in [Metrics -> Int]
  BY <1>1, <1>2
<1>4. ASSUME NEW m \in Metrics
      PROVE  /\ leaked'[m] >= leaked[m]
             /\ leaked'[m] > leaked[m] => failures' > 0 \/ m \notin Valid
             /\ readers'[m] = readers[m] + (leaked'[m] - leaked[m])
                              + Holding(p, m) - Holding(proc[x], m)
  <2>1. Holding(p, m) = 0 /\ Holding(proc[x], m) = IF m = proc[x].m THEN 1 ELSE 0
    BY DEF Holding, Holds
  <2>2. leaked[m] \in Nat /\ readers[m] \in Nat
    BY <1>2
  <2>3. CASE m = proc[x].m
    BY <1>1, <1>2, <2>1, <2>2, <2>3
  <2>4. CASE m # proc[x].m
    <3>1. leaked'[m] = leaked[m] /\ readers'[m] = readers[m]
      BY <1>2, <2>4
    <3> QED BY <2>1, <2>2, <2>4, <3>1
  <2> QED BY <2>3, <2>4
<1>5. searching' = searching + Searching(p) - Searching(proc[x])
  BY <1>1
<1>6. {} \in SUBSET LabelSets
  OBVIOUS
<1>7. StandsAt(p, {})
  BY <1>1
<1> QED BY <1>3, <1>4, <1>5, <1>6, <1>7, ExporterStep

(* A step of a goroutine that exports keeps the exporter's part of the     *)
(* invariant.                                                              *)
LEMMA ExportKeeps ==
  ASSUME ExportInv, NEW x \in Procs,
         \/ Export(x)
         \/ x = "push" /\ Tick
         \/ x = "request" /\ \E as \in {"prom", "varz", "json"} : Request(as)
  PROVE  ExportInv'
<1>a. ExportOK /\ AtMetric /\ Locks /\ Snapshot
  BY LocksAre DEF ExportInv
<1>b. proc[x] \in Places /\ failures \in Nat /\ searching \in Nat
  BY <1>a DEF ExportOK
<1>c. Over(proc[x]) \in Places /\ Over(proc[x]).at \in {"idle", "dial"}
  <2>1. <<>> \in Seq(LabelSets)
    OBVIOUS
  <2>2. CASE proc[x].target > 0 /\ proc[x].target < NTargets
    <3>1. proc[x].target + 1 \in Nat
      BY <1>b DEF Places
    <3>2. Over(proc[x]) = [Idle EXCEPT !.at = "dial", !.target = proc[x].target + 1]
      BY <2>2 DEF Over
    <3> QED BY <2>1, <3>1, <3>2 DEF Idle, Places
  <2>3. CASE ~(proc[x].target > 0 /\ proc[x].target < NTargets)
    <3>1. Over(proc[x]) = Idle
      BY <2>3 DEF Over
    <3> QED BY <2>1, <3>1 DEF Idle, Places
  <2> QED BY <2>2, <2>3
<1>d. \A p : Searching(p) = IF p.at \in {"next", "lock", "emit", "count"} THEN 1 ELSE 0
  BY DEF Searching, Searches
<1> USE DEF lockVars, metricVars, countVars
<1>1. CASE Dial(x)
  <2>1. /\ proc[x].at = "dial" /\ UNCHANGED <<lockVars, store, lvs, out>>
        /\ failures' \in Nat /\ failures' >= failures
    BY <1>1, <1>b DEF Dial, At
  <2>2. CASE Go(x, Over(proc[x]))
    BY <1>a, <1>b, <1>c, <1>d, <2>1, <2>2, Passes
  <2>3. CASE Go(x, [proc[x] EXCEPT !.at = "search", !.as = "push"])
    <3> DEFINE p == [proc[x] EXCEPT !.at = "search", !.as = "push"]
    <3>1. p \in Places /\ p.at = "search"
      BY <1>b DEF Places
    <3> HIDE DEF p
    <3>2. Go(x, p)
      BY <2>3 DEF p
    <3> QED BY <1>a, <1>b, <1>d, <2>1, <3>1, <3>2, Passes
  <2> QED BY <1>1, <2>2, <2>3 DEF Dial
<1>2. CASE Search(x)
  <2> DEFINE p == [proc[x] EXCEPT !.at = "next", !.todo = IF proc[x].as = "json" THEN {} ELSE store]
  <2>1. /\ proc[x].at = "search" /\ UNCHANGED <<readers, leaked, store, lvs, out, failures>>
        /\ searching' = searching + 1 /\ Go(x, p)
    BY <1>2 DEF Search, At
  <2>2. p \in Places /\ p.at = "next"
    BY <1>a, <1>b DEF Places, ExportOK
  <2> HIDE DEF p
  <2> QED BY <1>a, <1>b, <1>d, <2>1, <2>2, Passes
<1>3. CASE RangeNext(x)
  <2>1. proc[x].at = "next" /\ UNCHANGED <<readers, leaked, store, lvs, out, failures>>
    BY <1>3 DEF RangeNext, At
  <2>2. CASE searching' = searching - 1 /\ Go(x, Over(proc[x]))
    BY <1>a, <1>b, <1>c, <1>d, <2>1, <2>2, Passes
  <2>3. ASSUME NEW m \in proc[x].todo, UNCHANGED searching,
               Go(x, [proc[x] EXCEPT !.at = "lock", !.todo = @ \ {m}, !.m = m])
        PROVE  ExportInv'
    <3> DEFINE p == [proc[x] EXCEPT !.at = "lock", !.todo = @ \ {m}, !.m = m]
    <3>1. p \in Places /\ p.at = "lock" /\ p.m \in Metrics
      BY <1>b DEF Places
    <3> HIDE DEF p
    <3>2. Go(x, p)
      BY <2>3 DEF p
    <3> QED BY <1>a, <1>b, <1>d, <2>1, <2>3, <3>1, <3>2, Passes
  <2> QED BY <1>3, <2>2, <2>3 DEF RangeNext
<1>4. CASE RLock(x)
  <2> DEFINE k == proc[x].m
             p == [proc[x] EXCEPT !.at = "emit", !.left = IF Skipped(x) THEN <<>> ELSE lvs[k]]
  <2>1. /\ proc[x].at = "lock" /\ UNCHANGED <<searching, leaked, store, lvs, out, failures>>
        /\ readers' = [readers EXCEPT ![k] = @ + 1] /\ Go(x, p)
    BY <1>4 DEF RLock, At
  <2>2. k \in Metrics
    BY <1>a, <2>1 DEF AtMetric
  <2>3. /\ p.at = "emit" /\ p.m = k /\ p.as = proc[x].as
        /\ p.left = IF Skipped(x) THEN <<>> ELSE lvs[k]
    BY <1>b DEF Places
  <2>4. p \in Places
    <3>1. lvs[k] \in Seq(LabelSets) /\ <<>> \in Seq(LabelSets)
      BY <1>a, <2>2 DEF ExportOK
    <3> QED BY <1>b, <3>1 DEF Places
  <2> HIDE DEF p
  <2>5. out' = [out EXCEPT ![x] = {}]
    BY <1>a, <2>1 DEF AtMetric, ExportOK
  <2>6. StandsAt(p, {})
    <3>1. Skips(p) <=> Skipped(x)
      BY <2>3 DEF Skips, Skipped
    <3> QED BY <2>2, <2>3, <3>1 DEF StandsAt
  <2>7. leaked \in [Metrics -> Nat] /\ readers \in [Metrics -> Nat]
    BY <1>a DEF ExportOK
  <2>8. leaked' \in [Metrics -> Nat] /\ readers' \in [Metrics -> Int]
    BY <2>1, <2>2, <2>7
  <2>9. ASSUME NEW m \in Metrics
        PROVE  /\ leaked'[m] >= leaked[m]
               /\ leaked'[m] > leaked[m] => failures' > 0 \/ m \notin Valid
               /\ readers'[m] = readers[m] + (leaked'[m] - leaked[m])
                                + Holding(p, m) - Holding(proc[x], m)
    <3>1. Holding(p, m) = (IF m = k THEN 1 ELSE 0) /\ Holding(proc[x], m) = 0
      BY <2>1, <2>3 DEF Holding, Holds
    <3> QED BY <2>1, <2>2, <2>7, <3>1
  <2>10. /\ searching' = searching + Searching(p) - Searching(proc[x])
         /\ failures' \in Nat /\ failures' >= failures
    BY <1>b, <1>d, <2>1, <2>3
  <2>11. {} \in SUBSET LabelSets /\ UNCHANGED <<store, lvs>> /\ Go(x, p)
    BY <2>1
  <2> QED BY <1>a, <2>4, <2>5, <2>6, <2>8, <2>9, <2>10, <2>11, ExporterStep
<1>5. ASSUME proc[x].at \in {"emit", "count"}, proc[x].left # <<>>, Written(x),
             UNCHANGED <<lockVars, store, lvs, failures>>
      PROVE  ExportInv'
  <2> DEFINE p == [proc[x] EXCEPT !.at = "emit", !.left = Tail(@)]
             l == proc[x].left
  <2>1. l \in Seq(LabelSets)
    BY <1>b DEF Places
  <2>2. /\ Head(l) \in LabelSets /\ Tail(l) \in Seq(LabelSets)
        /\ ToSet(l) = {Head(l)} \cup ToSet(Tail(l))
    BY <1>5, <2>1, HeadAndRest
  <2>3. p \in Places /\ p.at = "emit" /\ p.m = proc[x].m /\ p.as = proc[x].as /\ p.left = Tail(l)
    BY <1>b, <2>2 DEF Places
  <2>4. Go(x, p) /\ out' = [out EXCEPT ![x] = out[x] \cup {Head(l)}]
    BY <1>5, <1>a DEF Written, ExportOK
  <2>5. out[x] \cup {Head(l)} \in SUBSET LabelSets
    BY <1>a, <2>2 DEF ExportOK
  <2> HIDE DEF p, l
  <2>6. (out[x] \cup {Head(l)}) \cup ToSet(p.left) = out[x] \cup ToSet(proc[x].left)
    BY <2>2, <2>3 DEF l
  <2> QED BY <1>5, <1>a, <2>3, <2>4, <2>5, <2>6, Emits
<1>6. CASE Push(x)
  <2>1. /\ proc[x].at = "emit" /\ proc[x].left # <<>> /\ UNCHANGED <<store, lvs>>
    BY <1>6 DEF Push, At
  <2>2. CASE Written(x) /\ UNCHANGED <<lockVars, failures>>
    BY <1>5, <2>1, <2>2
  <2>3. CASE failures' = failures + 1 /\ Abandon(x, Over(proc[x])) /\ searching' = searching - 1
    <3>1. /\ Go(x, Over(proc[x])) /\ out' = [out EXCEPT ![x] = {}]
          /\ leaked' = [leaked EXCEPT ![proc[x].m] = @ + 1] /\ readers' = readers
      BY <2>3 DEF Abandon
    <3>2. /\ searching' = searching + Searching(Over(proc[x])) - 1
          /\ failures' \in Nat /\ failures' >= failures /\ failures' > 0
      BY <1>b, <1>c, <1>d, <2>3
    <3> QED BY <1>a, <1>c, <2>1, <3>1, <3>2, LeavesMetric
  <2> QED BY <1>6, <2>2, <2>3 DEF Push
<1>7. CASE Varz(x)
  BY <1>5, <1>7 DEF Varz, At
<1>8. CASE Collect(x)
  <2>1. /\ proc[x].at = "emit" /\ proc[x].left # <<>> /\ UNCHANGED <<store, lvs, failures>>
    BY <1>8 DEF Collect, At
  <2>2. CASE Written(x) /\ UNCHANGED lockVars
    BY <1>5, <2>1, <2>2
  <2>3. CASE /\ proc[x].m \notin Valid /\ UNCHANGED searching
             /\ Abandon(x, [proc[x] EXCEPT !.at = "next", !.left = <<>>, !.m = "none"])
    <3> DEFINE p == [proc[x] EXCEPT !.at = "next", !.left = <<>>, !.m = "none"]
    <3>1. /\ Go(x, p) /\ out' = [out EXCEPT ![x] = {}]
          /\ leaked' = [leaked EXCEPT ![proc[x].m] = @ + 1] /\ readers' = readers
      BY <2>3 DEF Abandon
    <3>2. p \in Places /\ p.at = "next"
      <4>1. <<>> \in Seq(LabelSets)
        OBVIOUS
      <4> QED BY <1>b, <4>1 DEF Places
    <3> HIDE DEF p
    <3>3. searching' = searching + Searching(p) - 1 /\ failures' \in Nat /\ failures' >= failures
      BY <1>b, <1>d, <2>1, <2>3, <3>2
    <3> QED BY <1>a, <2>1, <2>3, <3>1, <3>2, <3>3, LeavesMetric
  <2> QED BY <1>8, <2>2, <2>3 DEF Collect
<1>9. CASE CollectCount(x)
  <2> DEFINE p == [proc[x] EXCEPT !.at = "count"]
  <2>1. /\ proc[x].at = "emit" /\ proc[x].left # <<>>
        /\ UNCHANGED <<lockVars, store, lvs, out, failures>> /\ Go(x, p)
    BY <1>9 DEF CollectCount, At
  <2>2. /\ p \in Places /\ p.at = "count" /\ p.m = proc[x].m /\ p.as = proc[x].as
        /\ p.left = proc[x].left
    BY <1>b DEF Places
  <2>3. out[x] \in SUBSET LabelSets /\ out' = [out EXCEPT ![x] = out[x]]
    BY <1>a, <2>1 DEF ExportOK
  <2> HIDE DEF p
  <2> QED BY <1>a, <2>1, <2>2, <2>3, Emits
<1>10. CASE CollectBuckets(x)
  <2>1. proc[x].at = "count" /\ Written(x) /\ UNCHANGED <<lockVars, store, lvs, failures>>
    BY <1>10 DEF CollectBuckets, At
  <2>2. proc[x].left # <<>>
    BY <1>a, <2>1 DEF AtMetric
  <2> QED BY <1>5, <2>1, <2>2
<1>11. CASE RUnlock(x)
  <2> DEFINE p == [proc[x] EXCEPT !.at = "next", !.m = "none"]
  <2>1. /\ proc[x].at = "emit" /\ UNCHANGED <<searching, leaked, store, lvs, failures>>
        /\ readers' = [readers EXCEPT ![proc[x].m] = @ - 1]
        /\ Go(x, p) /\ out' = [out EXCEPT ![x] = {}]
    BY <1>11 DEF RUnlock, At
  <2>2. p \in Places /\ p.at = "next"
    BY <1>b DEF Places
  <2> HIDE DEF p
  <2>3. searching' = searching + Searching(p) - 1 /\ failures' \in Nat /\ failures' >= failures
    BY <1>b, <1>d, <2>1, <2>2
  <2> QED BY <1>a, <2>1, <2>2, <2>3, LeavesMetric
<1>12. CASE x = "push" /\ Tick
  <2> DEFINE p == [Idle EXCEPT !.at = "dial", !.target = 1]
  <2>1. /\ proc[x].at = "idle" /\ UNCHANGED <<lockVars, store, lvs, out, failures>> /\ Go(x, p)
    BY <1>12 DEF Tick, At
  <2>2. p \in Places /\ p.at = "dial"
    <3>1. <<>> \in Seq(LabelSets)
      OBVIOUS
    <3> QED BY <3>1 DEF Places, Idle
  <2> HIDE DEF p
  <2> QED BY <1>a, <1>b, <1>d, <2>1, <2>2, Passes
<1>13. ASSUME NEW as \in {"prom", "varz", "json"}, x = "request", Request(as) PROVE ExportInv'
  <2> DEFINE p == [Idle EXCEPT !.at = "search", !.as = as]
  <2>1. /\ proc[x].at = "idle" /\ UNCHANGED <<lockVars, store, lvs, out, failures>> /\ Go(x, p)
    BY <1>13 DEF Request, At
  <2>2. p \in Places /\ p.at = "search"
    <3>1. <<>> \in Seq(LabelSets)
      OBVIOUS
    <3> QED BY <3>1 DEF Places, Idle
  <2> HIDE DEF p
  <2> QED BY <1>a, <1>b, <1>d, <2>1, <2>2, Passes
<1> QED BY <1>1, <1>2, <1>3, <1>4, <1>6, <1>7, <1>8, <1>9, <1>10, <1>11, <1>12, <1>13 DEF Export

(* What is no step of the exporter changes nothing that its part of the    *)
(* invariant is about but the store, which gains a metric.                 *)
LEMMA ExportSame ==
  ASSUME ExportInv, store' \in SUBSET Metrics,
         UNCHANGED <<proc, out, lvs, searching, failures, readers, leaked>>
  PROVE  ExportInv'
<1>1. ExportOK' /\ AtMetric'
  BY DEF ExportInv, ExportOK, AtMetric
<1>2. LocksReturned' /\ Snapshot'
  BY DEF ExportInv, LocksReturned, Snapshot, Skipped
<1> QED BY <1>1, <1>2 DEF ExportInv

(* GetDatum adds a label only while nobody reads the metric.               *)
LEMMA GetDatumKeeps ==
  ASSUME ExportInv, NEW m \in Metrics, GetDatum(m)
  PROVE  ExportInv'
<1>a. ExportOK /\ AtMetric /\ Locks /\ Snapshot
  BY LocksAre DEF ExportInv
<1>1. /\ readers[m] = 0
      /\ UNCHANGED <<proc, out, store, searching, failures, readers, leaked>>
  BY DEF GetDatum, lockVars, countVars
<1>2. lvs' \in [Metrics -> Seq(LabelSets)] /\ \A k \in Metrics : k # m => lvs'[k] = lvs[k]
  <2>1. CASE UNCHANGED lvs
    BY <1>a, <2>1 DEF ExportOK
  <2>2. ASSUME NEW l \in Labels,
               lvs' = [lvs EXCEPT ![m] = IF Contains(@,
               l) THEN @ ELSE Append(@, l)]
        PROVE  lvs' \in [Metrics -> Seq(LabelSets)] /\ \A k \in Metrics : k # m => lvs'[k] = lvs[k]
    <3>1. lvs \in [Metrics -> Seq(LabelSets)] /\ l \in LabelSets
      BY <1>a DEF ExportOK, LabelSets
    <3>2. lvs[m] \in Seq(LabelSets) /\ Append(lvs[m], l) \in Seq(LabelSets)
      BY <3>1
    <3> QED BY <2>2, <3>1, <3>2
  <2> QED BY <2>1, <2>2 DEF GetDatum
<1>3. \A x \in Procs : proc[x].at \in {"emit", "count"} => proc[x].m # m
  <2> SUFFICES ASSUME NEW x \in Procs, Holds(proc[x], m) PROVE FALSE
    BY DEF Holds
  <2>1. Holders(m) \in SUBSET Procs /\ x \in Holders(m)
    BY DEF Holders
  <2>2. Cardinality(Holders(m)) \in Nat /\ Cardinality(Holders(m)) > 0
    BY <2>1, Sizes
  <2>3. leaked[m] \in Nat /\ readers[m] = leaked[m] + Cardinality(Holders(m))
    BY <1>a DEF ExportOK, Locks
  <2> QED BY <1>1, <2>2, <2>3
<1>4. ExportOK' /\ AtMetric'
  BY <1>a, <1>1, <1>2 DEF ExportOK, AtMetric
<1>5. LocksReturned'
  BY <1>1 DEF ExportInv, LocksReturned
<1>6. Snapshot'
  BY <1>a, <1>1, <1>2, <1>3 DEF Snapshot, Skipped, AtMetric
<1> QED BY <1>4, <1>5, <1>6 DEF ExportInv

(* Every step of main, the Loader, the Tailer and the machines keeps their *)
(* part of the invariant.                                                  *)
LEMMA RunKeeps ==
  ASSUME RunInv, main # "exit",
         \/ MainStep \/ LoaderStep \/ TailerStep \/ ServeHTTP \/ Cancel \/ Write
         \/ \E p \in Progs : VMStep(p)
         \/ UNCHANGED <<mainVars, cancelled, lineVars, logVars>>
  PROVE  RunInv'
<1> USE DEF RunInv, mainVars, lineVars, logVars
<1>1. CASE SetOption
  <2>1. ServerOK'
    BY <1>1 DEF ServerOK, SetOption, Exit
  <2>2. StartInv'
    BY <1>1 DEF StartInv, ServerOK, SetOption, Exit
  <2>3. WgInv'
    BY <1>1 DEF WgInv, StartInv, ServerOK, SetOption, Exit
  <2>4. EndInv'
    BY <1>1 DEF EndInv, StartInv, WgInv, ServerOK, SetOption, Exit
  <2>5. ReadInv'
    BY <1>1 DEF ReadInv, EndInv, StartInv, ServerOK, SetOption, Exit
  <2>6. LineInv'
    BY <1>1 DEF LineInv, EndInv, StartInv, ReadInv, ServerOK, SetOption, Exit
  <2> QED BY <2>1, <2>2, <2>3, <2>4, <2>5, <2>6 DEF RunInv
<1>2. CASE InitExporter
  <2>1. ServerOK'
    BY <1>2 DEF ServerOK, InitExporter, Exit
  <2>2. StartInv'
    BY <1>2 DEF StartInv, ServerOK, InitExporter, Exit
  <2>3. WgInv'
    BY <1>2 DEF WgInv, StartInv, ServerOK, InitExporter, Exit
  <2>4. EndInv'
    BY <1>2 DEF EndInv, StartInv, WgInv, ServerOK, InitExporter, Exit
  <2>5. ReadInv'
    BY <1>2 DEF ReadInv, EndInv, StartInv, ServerOK, InitExporter, Exit
  <2>6. LineInv'
    BY <1>2 DEF LineInv, EndInv, StartInv, ReadInv, ServerOK, InitExporter,
       Exit
  <2> QED BY <2>1, <2>2, <2>3, <2>4, <2>5, <2>6 DEF RunInv
<1>3. CASE LoadProgram
  <2>1. ServerOK'
    <3>1. todo' \in Seq(Metrics)
      <4>1. todo \in Seq(Metrics)
        BY DEF ServerOK
      <4>2. todo' = todo \/ (todo # <<>> /\ todo' = Tail(todo))
        BY <1>3 DEF LoadProgram
      <4> QED BY <4>1, <4>2
    <3>2. main' = "insert" => todo' # <<>>
      BY <1>3 DEF LoadProgram, Exit
    <3>3. UNCHANGED <<handles, sending, vm, written, fetched, read, due, wg, done>>
      BY <1>3 DEF LoadProgram
    <3> QED BY <3>1, <3>2, <3>3 DEF ServerOK
  <2>2. StartInv'
    BY <1>3 DEF StartInv, ServerOK, LoadProgram, Exit
  <2>3. WgInv'
    BY <1>3 DEF WgInv, StartInv, ServerOK, LoadProgram, Exit
  <2>4. EndInv'
    BY <1>3 DEF EndInv, StartInv, WgInv, ServerOK, LoadProgram, Exit
  <2>5. ReadInv'
    BY <1>3 DEF ReadInv, EndInv, StartInv, ServerOK, LoadProgram, Exit
  <2>6. LineInv'
    BY <1>3 DEF LineInv, EndInv, StartInv, ReadInv, ServerOK, LoadProgram, Exit
  <2> QED BY <2>1, <2>2, <2>3, <2>4, <2>5, <2>6 DEF RunInv
<1>4. CASE StartVM
  <2>a. /\ todo # <<>> /\ todo \in Seq(Metrics) /\ main = "insert" /\ main' = "load"
        /\ UNCHANGED <<sending, written, fetched, read, due, wg, done>>
        /\ UNCHANGED <<consumer, waiter, stream, closer, linesClosed>>
        /\ todo' = Tail(todo)
    BY <1>4 DEF StartVM, ServerOK
  <2>b. Head(todo) \in Progs /\ Tail(todo) \in Seq(Metrics)
    BY <2>a DEF Progs
  <2>c. \/ UNCHANGED <<handles, vm>>
        \/ handles' = handles \cup {Head(todo)} /\ vm' = [vm EXCEPT ![Head(todo)] = "recv"]
    BY <1>4 DEF StartVM
  <2>1. ServerOK'
    BY <2>a, <2>b, <2>c DEF ServerOK
  <2>2. StartInv'
    BY <1>4 DEF StartInv, ServerOK, StartVM
  <2>3. WgInv'
    BY <1>4 DEF WgInv, StartInv, ServerOK, StartVM
  <2>4. EndInv'
    BY <1>4 DEF EndInv, StartInv, WgInv, ServerOK, StartVM
  <2>5. ReadInv'
    BY <1>4 DEF ReadInv, EndInv, StartInv, ServerOK, StartVM
  <2>6. LineInv'
    <3>1. CASE UNCHANGED <<handles, vm>>
      BY <2>a, <3>1 DEF LineInv
    <3>2. CASE handles' = handles \cup {Head(todo)} /\ vm' = [vm EXCEPT ![Head(todo)] = "recv"]
      <4>1. consumer = "init" /\ sending = {} /\ read = 0 /\ \A p \in Progs : done[p] = 0
        BY <2>a DEF StartInv, ReadInv
      <4>2. handles' = {p \in Progs : vm'[p] # "none"}
        BY <2>b, <3>2, <4>1 DEF LineInv, ServerOK
      <4>3. \A p \in Progs : vm'[p] \in {"none", "recv"}
        BY <2>a, <2>b, <3>2 DEF StartInv, ServerOK
      <4> QED BY <2>a, <4>1, <4>2, <4>3 DEF LineInv
    <3> QED BY <2>c, <3>1, <3>2
  <2> QED BY <2>1, <2>2, <2>3, <2>4, <2>5, <2>6 DEF RunInv
<1>5. CASE InitTailer
  <2>1. ServerOK'
    BY <1>5 DEF ServerOK, InitTailer, StillRead, Exit
  <2>2. StartInv'
    BY <1>5 DEF StartInv, ServerOK, InitTailer, StillRead, Exit
  <2>3. WgInv'
    BY <1>5 DEF WgInv, StartInv, ServerOK, InitTailer, StillRead, Exit
  <2>4. EndInv'
    BY <1>5 DEF EndInv, StartInv, WgInv, ServerOK, InitTailer, StillRead, Exit
  <2>5. ReadInv'
    BY <1>5 DEF ReadInv, EndInv, StartInv, ServerOK, InitTailer, StillRead, Exit
  <2>6. LineInv'
    BY <1>5 DEF LineInv, EndInv, StartInv, ReadInv, ServerOK, InitTailer, StillRead, Exit
  <2> QED BY <2>1, <2>2, <2>3, <2>4, <2>5, <2>6 DEF RunInv
<1>6. CASE InitHttpServer
  <2>1. ServerOK'
    BY <1>6 DEF ServerOK, InitHttpServer
  <2>2. StartInv'
    BY <1>6 DEF StartInv, ServerOK, InitHttpServer
  <2>3. WgInv'
    BY <1>6 DEF WgInv, StartInv, ServerOK, InitHttpServer
  <2>4. EndInv'
    BY <1>6 DEF EndInv, StartInv, WgInv, ServerOK, InitHttpServer
  <2>5. ReadInv'
    BY <1>6 DEF ReadInv, EndInv, StartInv, ServerOK, InitHttpServer
  <2>6. LineInv'
    BY <1>6 DEF LineInv, EndInv, StartInv, ReadInv, ServerOK, InitHttpServer
  <2> QED BY <2>1, <2>2, <2>3, <2>4, <2>5, <2>6 DEF RunInv
<1>7. CASE Run
  <2>1. ServerOK'
    BY <1>7 DEF ServerOK, Run, Exit
  <2>2. StartInv'
    BY <1>7 DEF StartInv, ServerOK, Run, Exit
  <2>3. WgInv'
    BY <1>7 DEF WgInv, StartInv, ServerOK, Run, Exit
  <2>4. EndInv'
    BY <1>7 DEF EndInv, StartInv, WgInv, ServerOK, Run, Exit
  <2>5. ReadInv'
    BY <1>7 DEF ReadInv, EndInv, StartInv, ServerOK, Run, Exit
  <2>6. LineInv'
    BY <1>7 DEF LineInv, EndInv, StartInv, ReadInv, ServerOK, Run, Exit
  <2> QED BY <2>1, <2>2, <2>3, <2>4, <2>5, <2>6 DEF RunInv
<1>8. CASE Cancel
  <2>1. ServerOK'
    BY <1>8 DEF ServerOK, Cancel, StillRead
  <2>2. StartInv'
    BY <1>8 DEF StartInv, ServerOK, Cancel, StillRead
  <2>3. WgInv'
    BY <1>8 DEF WgInv, StartInv, ServerOK, Cancel, StillRead
  <2>4. EndInv'
    BY <1>8 DEF EndInv, StartInv, WgInv, ServerOK, Cancel, StillRead
  <2>5. ReadInv'
    BY <1>8 DEF ReadInv, EndInv, StartInv, ServerOK, Cancel, StillRead
  <2>6. LineInv'
    BY <1>8 DEF LineInv, EndInv, StartInv, ReadInv, ServerOK, Cancel, StillRead
  <2> QED BY <2>1, <2>2, <2>3, <2>4, <2>5, <2>6 DEF RunInv
<1>9. CASE Take
  <2>1. ServerOK'
    BY <1>9 DEF ServerOK, Take
  <2>2. StartInv'
    BY <1>9 DEF StartInv, ServerOK, Take
  <2>3. WgInv'
    BY <1>9 DEF WgInv, StartInv, ServerOK, Take
  <2>4. EndInv'
    BY <1>9 DEF EndInv, StartInv, WgInv, ServerOK, Take
  <2>5. ReadInv'
    BY <1>9 DEF ReadInv, EndInv, StartInv, ServerOK, Take
  <2>6. LineInv'
    BY <1>9 DEF LineInv, EndInv, StartInv, ReadInv, ServerOK, Take
  <2> QED BY <2>1, <2>2, <2>3, <2>4, <2>5, <2>6 DEF RunInv
<1>10. CASE Consume
  <2>1. ServerOK'
    BY <1>10 DEF ServerOK, Consume
  <2>2. StartInv'
    BY <1>10 DEF StartInv, ServerOK, Consume
  <2>3. WgInv'
    BY <1>10 DEF WgInv, StartInv, ServerOK, Consume
  <2>4. EndInv'
    BY <1>10 DEF EndInv, StartInv, WgInv, ServerOK, Consume
  <2>5. ReadInv'
    BY <1>10 DEF ReadInv, EndInv, StartInv, ServerOK, Consume
  <2>6. LineInv'
    BY <1>10 DEF LineInv, EndInv, StartInv, ReadInv, ServerOK, Consume
  <2> QED BY <2>1, <2>2, <2>3, <2>4, <2>5, <2>6 DEF RunInv
<1>11. CASE Waiter
  <2>1. ServerOK'
    BY <1>11 DEF ServerOK, Waiter
  <2>2. StartInv'
    BY <1>11 DEF StartInv, ServerOK, Waiter
  <2>3. WgInv'
    BY <1>11 DEF WgInv, StartInv, ServerOK, Waiter
  <2>4. EndInv'
    BY <1>11 DEF EndInv, StartInv, WgInv, ServerOK, Waiter
  <2>5. ReadInv'
    BY <1>11 DEF ReadInv, EndInv, StartInv, ServerOK, Waiter
  <2>6. LineInv'
    BY <1>11 DEF LineInv, EndInv, StartInv, ReadInv, ServerOK, Waiter
  <2> QED BY <2>1, <2>2, <2>3, <2>4, <2>5, <2>6 DEF RunInv
<1>12. CASE Write
  <2>1. ServerOK'
    BY <1>12 DEF ServerOK, Write
  <2>2. StartInv'
    BY <1>12 DEF StartInv, ServerOK, Write
  <2>3. WgInv'
    BY <1>12 DEF WgInv, StartInv, ServerOK, Write
  <2>4. EndInv'
    BY <1>12 DEF EndInv, StartInv, WgInv, ServerOK, Write
  <2>5. ReadInv'
    BY <1>12 DEF ReadInv, EndInv, StartInv, ServerOK, Write
  <2>6. LineInv'
    BY <1>12 DEF LineInv, EndInv, StartInv, ReadInv, ServerOK, Write
  <2> QED BY <2>1, <2>2, <2>3, <2>4, <2>5, <2>6 DEF RunInv
<1>13. CASE Sleep
  <2>1. ServerOK'
    BY <1>13 DEF ServerOK, Sleep
  <2>2. StartInv'
    BY <1>13 DEF StartInv, ServerOK, Sleep
  <2>3. WgInv'
    BY <1>13 DEF WgInv, StartInv, ServerOK, Sleep
  <2>4. EndInv'
    BY <1>13 DEF EndInv, StartInv, WgInv, ServerOK, Sleep
  <2>5. ReadInv'
    BY <1>13 DEF ReadInv, EndInv, StartInv, ServerOK, Sleep
  <2>6. LineInv'
    BY <1>13 DEF LineInv, EndInv, StartInv, ReadInv, ServerOK, Sleep
  <2> QED BY <2>1, <2>2, <2>3, <2>4, <2>5, <2>6 DEF RunInv
<1>14. CASE Closer
  <2>1. ServerOK'
    BY <1>14 DEF ServerOK, Closer
  <2>2. StartInv'
    BY <1>14 DEF StartInv, ServerOK, Closer
  <2>3. WgInv'
    BY <1>14 DEF WgInv, StartInv, ServerOK, Closer
  <2>4. EndInv'
    BY <1>14 DEF EndInv, StartInv, WgInv, ServerOK, Closer
  <2>5. ReadInv'
    BY <1>14 DEF ReadInv, EndInv, StartInv, ServerOK, Closer
  <2>6. LineInv'
    BY <1>14 DEF LineInv, EndInv, StartInv, ReadInv, ServerOK, Closer
  <2> QED BY <2>1, <2>2, <2>3, <2>4, <2>5, <2>6 DEF RunInv
<1>15. CASE ServeHTTP
  <2>1. ServerOK'
    BY <1>15 DEF ServerOK, ServeHTTP, Exit
  <2>2. StartInv'
    BY <1>15 DEF StartInv, ServerOK, ServeHTTP, Exit
  <2>3. WgInv'
    BY <1>15 DEF WgInv, StartInv, ServerOK, ServeHTTP, Exit
  <2>4. EndInv'
    BY <1>15 DEF EndInv, StartInv, WgInv, ServerOK, ServeHTTP, Exit
  <2>5. ReadInv'
    BY <1>15 DEF ReadInv, EndInv, StartInv, ServerOK, ServeHTTP, Exit
  <2>6. LineInv'
    BY <1>15 DEF LineInv, EndInv, StartInv, ReadInv, ServerOK, ServeHTTP, Exit
  <2> QED BY <2>1, <2>2, <2>3, <2>4, <2>5, <2>6 DEF RunInv
<1>16. ASSUME NEW p \in Progs, VMStep(p) PROVE RunInv'
  <2>1. ServerOK'
    BY <1>16 DEF ServerOK, VMStep, Processed
  <2>2. StartInv'
    BY <1>16 DEF StartInv, ServerOK, VMStep, Processed
  <2>3. WgInv'
    BY <1>16 DEF WgInv, StartInv, ServerOK, VMStep, Processed
  <2>4. EndInv'
    BY <1>16 DEF EndInv, StartInv, WgInv, ServerOK, VMStep, Processed
  <2>5. ReadInv'
    BY <1>16 DEF ReadInv, EndInv, StartInv, ServerOK, VMStep, Processed
  <2>6. LineInv'
    <3>1. UNCHANGED <<consumer, sending, handles, read>>
      BY <1>16 DEF VMStep
    <3>2. /\ vm \in [Progs -> {"none", "recv", "busy", "lock", "observe", "gone"}]
          /\ done \in [Progs -> Nat] /\ read \in Nat
      BY DEF ServerOK
    <3>3. /\ vm[p] # "none" /\ vm'[p] # "none"
          /\ \A q \in Progs : q # p => vm'[q] = vm[q] /\ done'[q] = done[q]
      BY <1>16, <3>2 DEF VMStep, Processed
    <3>4. done'[p] + (IF vm'[p] \in {"busy", "lock", "observe"} THEN 1 ELSE 0)
            = done[p] + (IF vm[p] \in {"busy", "lock", "observe"} THEN 1 ELSE 0)
      BY <1>16, <3>2 DEF VMStep, Processed
    <3>5. done'[p] \in Nat
      BY <1>16, <3>2 DEF VMStep, Processed
    <3>6. {q \in Progs : vm'[q] # "none"} = {q \in Progs : vm[q] # "none"}
      BY <3>3
    <3>7. ASSUME NEW q \in Progs, vm'[q] # "none"
          PROVE  read = done'[q] + (IF q \in sending THEN 1 ELSE 0)
                   + (IF vm'[q] \in {"busy", "lock", "observe"} THEN 1 ELSE 0)
      <4>1. read = done[q] + (IF q \in sending THEN 1 ELSE 0)
                   + (IF vm[q] \in {"busy", "lock", "observe"} THEN 1 ELSE 0)
        BY <3>3, <3>7 DEF LineInv
      <4>2. CASE q = p
        BY <3>2, <3>4, <3>5, <4>1, <4>2
      <4>3. CASE q # p
        BY <3>3, <4>1, <4>3
      <4> QED BY <4>2, <4>3
    <3> QED BY <3>1, <3>6, <3>7 DEF LineInv
  <2> QED BY <2>1, <2>2, <2>3, <2>4, <2>5, <2>6 DEF RunInv
<1>17. CASE UNCHANGED <<mainVars, cancelled, lineVars, logVars>>
  <2>1. ServerOK'
    BY <1>17 DEF ServerOK, mainVars, lineVars, logVars
  <2>2. StartInv'
    BY <1>17 DEF StartInv, ServerOK, mainVars, lineVars, logVars
  <2>3. WgInv'
    BY <1>17 DEF WgInv, StartInv, ServerOK, mainVars, lineVars, logVars
  <2>4. EndInv'
    BY <1>17 DEF EndInv, StartInv, WgInv, ServerOK, mainVars, lineVars, logVars
  <2>5. ReadInv'
    BY <1>17 DEF ReadInv, EndInv, StartInv, ServerOK, mainVars, lineVars,
       logVars
  <2>6. LineInv'
    BY <1>17 DEF LineInv, EndInv, StartInv, ReadInv, ServerOK, mainVars,
       lineVars, logVars
  <2> QED BY <2>1, <2>2, <2>3, <2>4, <2>5, <2>6 DEF RunInv
<1>18. CASE Fetch
  <2>1. ServerOK'
    BY <1>18 DEF ServerOK, Fetch
  <2>2. StartInv'
    BY <1>18 DEF StartInv, ServerOK, Fetch
  <2>3. WgInv'
    BY <1>18 DEF WgInv, StartInv, ServerOK, Fetch
  <2>4. EndInv'
    BY <1>18 DEF EndInv, StartInv, WgInv, ServerOK, Fetch
  <2>5. ReadInv'
    BY <1>18 DEF ReadInv, EndInv, StartInv, ServerOK, Fetch
  <2>6. LineInv'
    BY <1>18 DEF LineInv, EndInv, StartInv, ReadInv, ServerOK, Fetch
  <2> QED BY <2>1, <2>2, <2>3, <2>4, <2>5, <2>6 DEF RunInv
<1> QED BY <1>1, <1>2, <1>3, <1>4, <1>5, <1>6, <1>7, <1>8, <1>9, <1>10,
       <1>11, <1>12, <1>13, <1>14, <1>15, <1>16, <1>17, <1>18
        DEF MainStep, LoaderStep, TailerStep

(* The initial states satisfy the inductive invariant.                     *)
LEMMA InitIInv == Init => IInv
<1> SUFFICES ASSUME Init PROVE IInv
  OBVIOUS
<1>1. \A x \in Procs : proc[x] = Idle
  BY DEF Init, ExporterInit
<1>2. <<>> \in Seq(LabelSets) /\ <<Unlabelled>> \in Seq(LabelSets)
  BY DEF LabelSets
<1>3. ExportOK
  <2>1. Idle \in Places
    BY <1>2 DEF Idle, Places
  <2>2. lvs \in [Metrics -> Seq(LabelSets)]
    BY <1>2 DEF Init, ExporterInit
  <2> QED BY <2>1, <2>2 DEF ExportOK, Init, ExporterInit
<1>4. AtMetric /\ Snapshot
  BY <1>1 DEF AtMetric, Snapshot, Idle, Init, ExporterInit
<1>5. LocksReturned
  <2>1. Searchers = {} /\ \A m \in Metrics : Holders(m) = {}
    BY <1>1 DEF Searchers, Holders, Searches, Holds, Idle
  <2>2. Cardinality({}) = 0
    BY FS_EmptySet
  <2>3. /\ searching = 0
        /\ \A m \in Metrics : readers[m] = 0 /\ leaked[m] = 0
    BY DEF Init, ExporterInit
  <2>4. Locks
    BY <2>1, <2>2, <2>3 DEF Locks
  <2> QED BY <2>4, LocksAre
<1>6. ServerOK /\ StartInv /\ WgInv
  <2>1. todo \in Seq(Metrics) /\ written \in Nat
    BY ServerAssumption DEF Init
  <2> QED BY <2>1 DEF Init, ServerOK, StartInv, WgInv, Progs
<1>7. EndInv /\ ReadInv /\ LineInv
  BY DEF Init, EndInv, ReadInv, LineInv, Progs
<1> QED BY <1>3, <1>4, <1>5, <1>6, <1>7 DEF IInv, ExportInv, RunInv

(* Every step preserves it: the exporter's part by the lemmas on its steps,*)
(* the rest by RunKeeps.                                                   *)
LEMMA NextIInv == IInv /\ [Next]_vars => IInv'
<1> SUFFICES ASSUME IInv, [Next]_vars PROVE IInv'
  OBVIOUS
<1> USE DEF exportVars, lockVars, metricVars, countVars
<1>a. ExportInv /\ RunInv /\ store \in SUBSET Metrics
  BY DEF IInv, ExportInv, ExportOK
<1>1. ASSUME main # "exit", UNCHANGED <<proc, out, lvs, searching, failures, readers, leaked>>,
             UNCHANGED store,
             \/ MainStep \/ LoaderStep \/ TailerStep \/ ServeHTTP \/ Cancel \/ Write
             \/ \E p \in Progs : VMStep(p)
      PROVE  IInv'
  BY <1>1, <1>a, ExportSame, RunKeeps DEF IInv
<1>2. CASE main # "exit" /\ (SetOption \/ InitExporter \/ InitTailer \/ InitHttpServer \/ Run)
  BY <1>1, <1>2 DEF SetOption, InitExporter, InitTailer, InitHttpServer, Run,
     MainStep
<1>3. CASE main # "exit" /\ LoadProgram
  BY <1>1, <1>3 DEF LoadProgram, MainStep
<1>4. CASE main # "exit" /\ StartVM
  <2>1. Head(todo) \in Metrics
    BY <1>4, <1>a DEF StartVM, RunInv, ServerOK
  <2>2. /\ store' = store \cup {Head(todo)}
        /\ UNCHANGED <<proc, out, lvs, searching, failures, readers, leaked>>
    BY <1>4 DEF StartVM, Insert
  <2>3. ExportInv'
    BY <1>a, <2>1, <2>2, ExportSame
  <2>4. RunInv'
    BY <1>4, <1>a, RunKeeps DEF MainStep
  <2> QED BY <2>3, <2>4 DEF IInv
<1>5. CASE main # "exit" /\ (LoaderStep \/ TailerStep \/ ServeHTTP \/ Cancel \/ Write)
  BY <1>1, <1>5 DEF LoaderStep, TailerStep, Take, Consume, Waiter,
     Fetch, Sleep, Closer,
     ServeHTTP, Cancel, Write
<1>6. ASSUME main # "exit", NEW p \in Progs, VMStep(p) PROVE IInv'
  <2>1. CASE GetDatum(p)
    <3>1. ExportInv'
      BY <1>a, <2>1, GetDatumKeeps DEF Progs
    <3>2. RunInv'
      BY <1>6, <1>a, RunKeeps
    <3> QED BY <3>1, <3>2 DEF IInv
  <2>2. CASE ~GetDatum(p)
    <3>1. UNCHANGED <<proc, out, lvs, searching, failures, readers, leaked, store>>
      BY <1>6, <2>2 DEF VMStep, Observe
    <3> QED BY <1>1, <1>6, <3>1
  <2> QED BY <2>1, <2>2
<1>7. ASSUME main # "exit", NEW x \in Procs,
             \/ Export(x)
             \/ x = "push" /\ Tick
             \/ x = "request" /\ \E as \in {"prom", "varz", "json"} : Request(as),
             UNCHANGED <<mainVars, cancelled, lineVars, logVars>>
      PROVE  IInv'
  BY <1>7, <1>a, ExportKeeps, RunKeeps DEF IInv
<1>8. CASE main # "exit" /\ (PushLoop \/ Serve \/ \E x \in Procs : ExportStep(x))
  BY <1>7, <1>8 DEF PushLoop, Serve, ExportStep, Procs
<1>9. CASE UNCHANGED vars
  <2>1. /\ UNCHANGED <<proc, out, lvs, searching, failures, readers, leaked, store>>
        /\ UNCHANGED <<mainVars, cancelled, lineVars, logVars>>
    BY <1>9 DEF vars
  <2>2. ExportInv'
    BY <1>a, <2>1, ExportSame
  <2>3. RunInv'
    BY <1>a, <2>1 DEF RunInv, ServerOK, StartInv, WgInv, EndInv, ReadInv,
       LineInv, mainVars, lineVars, logVars
  <2> QED BY <2>2, <2>3 DEF IInv
<1> QED BY <1>2, <1>3, <1>4, <1>5, <1>6, <1>8, <1>9 DEF Next, MainStep

-----------------------------------------------------------------------------
(* The inductive invariant holds of every behaviour. *)
THEOREM ServerIInv == Spec => []IInv
<1>1. Init => IInv
  BY InitIInv
<1>2. IInv /\ [Next]_vars => IInv'
  BY NextIInv
<1> QED BY <1>1, <1>2, PTL DEF Spec

(* An export holds the locks it needs while it needs them: a read lock     *)
(* that is not given back was left behind by a failed push                 *)
(* (export.go:176) or by a metric that Prometheus refuses                  *)
(* (prometheus.go:82), searchMu is always given back, and the label sets   *)
(* written for a metric are those it had when its lock was taken.          *)
THEOREM ServerExportLocks == Spec => []ExportLocks
<1>1. IInv => ExportLocks
  BY DEF IInv, ExportInv, ExportLocks
<1> QED BY <1>1, ServerIInv, PTL

(* When Run has returned, every line that was read from the log is sent    *)
(* and processed by every program (mtail.go:281-284): in one-shot mode all *)
(* that the log had when it was opened, at a signal those in the buffer    *)
(* and, if the stream was to read or waiting, those of one more read       *)
(* (filestream.go:183-229).  A crash of the status page (httpstatus.go:46) *)
(* leaves each program at most the last line.                              *)
THEOREM ServerAllProcessed == Spec => []AllProcessed
<1>1. IInv => AllProcessed
  <2> SUFFICES ASSUME RunInv, main = "write" \/ (main = "exit" /\ status \in {0, 2})
               PROVE  /\ read = fetched /\ read >= due
                      /\ \A p \in Progs : vm[p] # "none" =>
                           done[p] = read \/ (status = 2 /\ done[p] = read - 1)
    BY DEF IInv, AllProcessed
  <2>1. stream \in {"none", "gone"} /\ consumer \in {"end", "gone"}
    BY DEF RunInv, EndInv
  <2>2. read = fetched /\ read >= due
    BY <2>1 DEF RunInv, ReadInv, ServerOK
  <2>3. ASSUME NEW p \in Progs, vm[p] # "none"
        PROVE  done[p] = read \/ (status = 2 /\ done[p] = read - 1)
    <3>1. p \notin sending
      BY <2>1 DEF RunInv, LineInv
    <3>2. status # 2 \/ main = "write" => vm[p] = "gone"
      BY <2>3 DEF RunInv, EndInv
    <3>3. done[p] \in Nat /\ read \in Nat
      BY DEF RunInv, ServerOK
    <3>4. read = done[p] + (IF vm[p] \in {"busy", "lock", "observe"} THEN 1 ELSE 0)
      BY <2>3, <3>1, <3>3 DEF RunInv, LineInv
    <3> QED BY <3>2, <3>3, <3>4
  <2> QED BY <2>2, <2>3
<1> QED BY <1>1, ServerIInv, PTL
=============================================================================
