------------------------------ MODULE Exporter ------------------------------
(***************************************************************************)
(* internal/exporter: the goroutines that read the metrics of the store    *)
(* while virtual machines change them.  One goroutine pushes to the        *)
(* configured services at each tick (export.go); one serves a request, as  *)
(* Collect (prometheus.go), HandleVarz or HandleJSON.                      *)
(*                                                                         *)
(* searchMu and the metrics' locks are sync.RWMutexes: a writer that waits *)
(* keeps new readers out.  readers counts the read locks that are held.    *)
(* One metric stands for the metrics of a program, and a label for the     *)
(* values of its keys; a histogram has no keys.                            *)
(*                                                                         *)
(* at says where a goroutine is:                                           *)
(*   idle    waits for the tick or for a request                           *)
(*   dial    in PushMetrics, before it dials the next target               *)
(*   search  before searchMu.RLock in Range or in MarshalJSON              *)
(*   next    in Range, before the next metric                              *)
(*   lock    before RLock of the metric m                                  *)
(*   emit    has the read lock of m, the labels left to write              *)
(*   count   has read the count of a histogram and not its buckets         *)
(***************************************************************************)
EXTENDS Integers, Sequences, FiniteSets, SequencesExt

CONSTANTS
  Metrics,
  Kind,        (* [Metrics -> {"Counter", "Histogram", "Text"}]            *)
  Valid,       (* the metrics that Prometheus accepts: NewDesc refuses a   *)
               (* name that is none of its own and a label named prog      *)
  Labels,      (* label values                                             *)
  Unlabelled,  (* stands for the values of no keys                         *)
  Bounds,      (* the boundaries that a histogram declares                 *)
  Values,      (* values that are observed                                 *)
  Inf,         (* +Inf                                                     *)
  NTargets,    (* len(e.pushTargets)                                       *)
  MaxExports,  (* bound on ticks and requests, for what is in the store   *)
  MaxFailures  (* bound on dials and writes that fail                      *)

ASSUME ExporterAssumption ==
  /\ Kind \in [Metrics -> {"Counter", "Histogram", "Text"}]
  /\ Valid \subseteq Metrics
  /\ Bounds \in Seq(Int) /\ Len(Bounds) >= 2
  /\ \A i, j \in 1 .. Len(Bounds) : i < j => Bounds[i] < Bounds[j]
  /\ Inf \in Int /\ Inf > Bounds[Len(Bounds)]
  /\ Values \subseteq Int /\ \A v \in Values : v <= Inf
  /\ MaxExports \in [SUBSET Metrics -> Nat] /\ NTargets \in Nat /\ MaxFailures \in Nat

Data == INSTANCE Datum
Procs == {"push", "request"}

\* The buckets of a histogram lie between these; the first is added if it is
\* below the lowest boundary.
Edges == (IF Bounds[1] > 0 THEN <<0>> ELSE <<>>) \o Bounds \o <<Inf>>
Ranges == [i \in 1 .. Len(Edges) - 1 |-> Data!Range(Edges[i], Edges[i + 1])]

Idle == [at |-> "idle", as |-> "none", todo |-> {}, m |-> "none", left |-> <<>>, target |-> 0]

VARIABLES
  store,       (* the metrics in the store                                 *)
  lvs,         (* m.LabelValues: their labels, in order                    *)
  buckets,     (* the datum of each histogram                              *)
  searching,   (* read locks of searchMu                                   *)
  readers,     (* metric -> its read locks                                 *)
  inserting,   (* a loader waits for searchMu, or "none" if none does      *)
  locking,     (* the metrics whose program waits for their lock           *)
  proc,        (* Procs -> where it is                                     *)
  scraped,     (* the count and the cumulative buckets that Collect read   *)
  exports, failures    (* count against the bounds                         *)

(* History variables: no action is guarded by them.                        *)
VARIABLES
  leaked,      (* metric -> read locks that nobody will give back          *)
  out,         (* Procs -> the labels of m it has written                  *)
  observed     (* histogram -> the values observed, in order               *)

lockVars == <<searching, readers, leaked>>
metricVars == <<store, lvs, buckets, inserting, locking, observed>>
countVars == <<exports, failures>>
exportVars == <<lockVars, metricVars, countVars, proc, scraped, out>>

NoScrape == [m |-> "none", count |-> 0, upto |-> 0, cum |-> [b \in {} |-> 0]]

ExporterInit ==
  /\ store = {} /\ lvs = [m \in Metrics |-> IF Kind[m] = "Histogram" THEN <<Unlabelled>> ELSE <<>>]
  /\ buckets = [m \in Metrics |-> Data!NewDatum("Buckets", Ranges)]
  /\ searching = 0 /\ readers = [m \in Metrics |-> 0]
  /\ inserting = "none" /\ locking = {}
  /\ proc = [x \in Procs |-> Idle] /\ scraped = NoScrape
  /\ exports = 0 /\ failures = 0
  /\ leaked = [m \in Metrics |-> 0] /\ out = [x \in Procs |-> {}]
  /\ observed = [m \in Metrics |-> <<>>]

-----------------------------------------------------------------------------
(* The users of the locks for writing. *)

\* GetDatum: the metric's lock is held while the label is looked up or added.
GetDatum(m) ==
  /\ m \in locking /\ readers[m] = 0
  /\ locking' = locking \ {m}
  /\ \/ Kind[m] = "Histogram" /\ UNCHANGED lvs
     \/ /\ Kind[m] # "Histogram"
        /\ \E l \in Labels : lvs' = [lvs EXCEPT ![m] = IF Contains(@, l) THEN @ ELSE Append(@, l)]
  /\ UNCHANGED <<lockVars, countVars, store, inserting, buckets, observed, proc, scraped, out>>

\* Observe of the datum that GetDatum gave, when the metric's lock has been
\* given back.
Observe(m) ==
  /\ \E v \in Values : /\ buckets' = [buckets EXCEPT ![m] = Data!Observe(@, v, 0)]
                       /\ observed' = [observed EXCEPT ![m] = Append(@, v)]
  /\ UNCHANGED <<lockVars, countVars, store, lvs, inserting, locking, proc, scraped, out>>

\* Store.Add of a metric, once its loader has searchMu.
Insert(m) ==
  /\ inserting = m /\ searching = 0
  /\ store' = store \cup {m}
  /\ inserting' = "none"
  /\ UNCHANGED <<lockVars, countVars, lvs, buckets, locking, observed, proc, scraped, out>>

-----------------------------------------------------------------------------
(* Range and what is done with each metric. *)

Go(x, p) == proc' = [proc EXCEPT ![x] = p]
At(x, where) == proc[x].at = where

\* The same target again.
BadOver(p) == IF p.target > 0 THEN [Idle EXCEPT !.at = "dial", !.target = p.target] ELSE Idle

\* The next target, or the end of the tick or the request.
Over(p) == IF p.target > 0 /\ p.target < NTargets THEN [Idle EXCEPT !.at = "dial", !.target = p.target + 1]
           ELSE Idle

\* searchMu.RLock.  MarshalJSON copies the list and takes no metric's lock.
Search(x) ==
  /\ At(x, "search") /\ inserting = "none"
  /\ searching' = searching + 1
  /\ Go(x, [proc[x] EXCEPT !.at = "next", !.todo = IF proc[x].as = "json" THEN {} ELSE store])
  /\ UNCHANGED <<readers, leaked, metricVars, countVars, scraped, out>>

\* The next metric, in the order of a map.  HandleVarz ends before one when
\* its client has gone.
RangeNext(x) ==
  LET p == proc[x]
  IN  /\ At(x, "next")
      /\ \/ /\ p.todo = {} \/ p.as = "varz"
            /\ searching' = searching - 1
            /\ Go(x, Over(p))
         \/ \E m \in p.todo :
              /\ Go(x, [p EXCEPT !.at = "lock", !.todo = @ \ {m}, !.m = m])
              /\ UNCHANGED searching
      /\ UNCHANGED <<readers, leaked, metricVars, countVars, scraped, out>>

\* Text goes neither to Prometheus nor to a push service.
Skipped(x) == Kind[proc[x].m] = "Text" /\ proc[x].as \in {"push", "prom"}

\* EmitLabelSets goes through the label values as they are now.
RLock(x) ==
  LET m == proc[x].m
  IN  /\ At(x, "lock") /\ m \notin locking
      /\ readers' = [readers EXCEPT ![m] = @ + 1]
      /\ Go(x, [proc[x] EXCEPT !.at = "emit", !.left = IF Skipped(x) THEN <<>> ELSE lvs[m]])
      /\ UNCHANGED <<searching, leaked, metricVars, countVars, scraped, out>>

\* One label set has been written.
Written(x) ==
  /\ out' = [out EXCEPT ![x] = @ \cup {Head(proc[x].left)}]
  /\ Go(x, [proc[x] EXCEPT !.at = "emit", !.left = Tail(@)])

\* The loop over the label sets is left by a return: the lock stays, and the
\* goroutine of EmitLabelSets waits for ever.
Abandon(x, then) ==
  /\ leaked' = [leaked EXCEPT ![proc[x].m] = @ + 1]
  /\ Go(x, then)
  /\ out' = [out EXCEPT ![x] = {}]
  /\ UNCHANGED readers

\* writeSocketMetrics: one label set; a write error ends the Range.
Push(x) ==
  /\ At(x, "emit") /\ proc[x].as = "push" /\ proc[x].left # <<>>
  /\ \/ Written(x) /\ UNCHANGED <<lockVars, failures>>
     \/ /\ failures < MaxFailures /\ failures' = failures + 1
        /\ Abandon(x, Over(proc[x]))
        /\ searching' = searching - 1
  /\ UNCHANGED <<metricVars, exports, scraped>>

\* HandleVarz: a failing write is not noticed.
Varz(x) ==
  /\ At(x, "emit") /\ proc[x].as = "varz" /\ proc[x].left # <<>>
  /\ Written(x)
  /\ UNCHANGED <<lockVars, metricVars, countVars, scraped>>

\* Collect: a metric that NewConstMetric refuses is given up, not the Range.
Collect(x) ==
  LET m == proc[x].m
  IN  /\ At(x, "emit") /\ proc[x].as = "prom" /\ proc[x].left # <<>>
      /\ \/ m \in Valid /\ Kind[m] # "Histogram" /\ Written(x) /\ UNCHANGED lockVars
         \/ /\ m \notin Valid
            /\ Abandon(x, [proc[x] EXCEPT !.at = "next", !.left = <<>>, !.m = "none"])
            /\ UNCHANGED searching
      /\ UNCHANGED <<metricVars, countVars, scraped>>

\* A histogram's count, and then its buckets, are read under separate locks.
CollectCount(x) ==
  LET m == proc[x].m
  IN  /\ At(x, "emit") /\ proc[x].as = "prom" /\ proc[x].left # <<>>
      /\ m \in Valid /\ Kind[m] = "Histogram"
      /\ scraped' = [NoScrape EXCEPT !.m = m, !.count = buckets[m].v.count]
      /\ Go(x, [proc[x] EXCEPT !.at = "count"])
      /\ UNCHANGED <<lockVars, metricVars, countVars, out>>
CollectBuckets(x) ==
  /\ At(x, "count")
  /\ scraped' = [scraped EXCEPT !.upto = Len(observed[proc[x].m]), !.cum = Data!CumByMax(buckets[proc[x].m].v)]
  /\ Written(x)
  /\ UNCHANGED <<lockVars, metricVars, countVars>>

\* The lock is given back only if something was written.
BadRUnlock(x) ==
  /\ At(x, "emit") /\ proc[x].left = <<>>
  /\ readers' = [readers EXCEPT ![proc[x].m] = IF out[x] = {} THEN @ ELSE @ - 1]
  /\ Go(x, [proc[x] EXCEPT !.at = "next", !.m = "none"])
  /\ out' = [out EXCEPT ![x] = {}]
  /\ scraped' = IF proc[x].as = "prom" THEN NoScrape ELSE scraped
  /\ UNCHANGED <<searching, leaked, metricVars, countVars>>

RUnlock(x) ==
  /\ At(x, "emit") /\ proc[x].left = <<>>
  /\ readers' = [readers EXCEPT ![proc[x].m] = @ - 1]
  /\ Go(x, [proc[x] EXCEPT !.at = "next", !.m = "none"])
  /\ out' = [out EXCEPT ![x] = {}]
  /\ scraped' = IF proc[x].as = "prom" THEN NoScrape ELSE scraped
  /\ UNCHANGED <<searching, leaked, metricVars, countVars>>

-----------------------------------------------------------------------------
(* The push loop and the requests. *)

\* PushMetrics: a target that cannot be dialled is passed over.
Dial(x) ==
  /\ At(x, "dial")
  /\ \/ Go(x, [proc[x] EXCEPT !.at = "search", !.as = "push"]) /\ UNCHANGED failures
     \/ /\ failures < MaxFailures /\ failures' = failures + 1
        /\ Go(x, Over(proc[x]))
  /\ UNCHANGED <<lockVars, metricVars, exports, scraped, out>>

Tick ==
  /\ At("push", "idle") /\ NTargets > 0
  /\ exports < MaxExports[store] /\ exports' = exports + 1
  /\ Go("push", [Idle EXCEPT !.at = "dial", !.target = 1])
  /\ UNCHANGED <<lockVars, metricVars, failures, scraped, out>>

Request(as) ==
  /\ At("request", "idle")
  /\ exports < MaxExports[store] /\ exports' = exports + 1
  /\ Go("request", [Idle EXCEPT !.at = "search", !.as = as])
  /\ UNCHANGED <<lockVars, metricVars, failures, scraped, out>>

Export(x) ==
  \/ Dial(x) \/ Search(x) \/ RangeNext(x) \/ RLock(x) \/ Push(x) \/ Varz(x)
  \/ Collect(x) \/ CollectCount(x) \/ CollectBuckets(x) \/ RUnlock(x)
=============================================================================
