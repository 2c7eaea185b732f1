---------------------------- MODULE MetricStore ----------------------------
(***************************************************************************)
(* internal/metrics/store.go and metric.go: the store of exported metrics  *)
(* under its users: the loader, which Adds the metrics of a program each   *)
(* time it is loaded; the virtual machines, which create, delete and mark  *)
(* for expiry the label values of their metrics; and Gc.                   *)
(*                                                                         *)
(* Metric and LabelValue are Go pointers, so both have identities here.  A *)
(* datum has the identity of the LabelValue it was created with, and a     *)
(* reload may put it into another one.  insertMu belongs to the one loader.*)
(* searchMu is held for reading while Add copies and while Gc runs, and    *)
(* for writing in Insert.                                                  *)
(*                                                                         *)
(* `range` over a slice looks at the slice's array as it was when the loop *)
(* began, through changes others make in place: see View.                  *)
(***************************************************************************)
EXTENDS Integers, Sequences, FiniteSets, SequencesExt

CONSTANTS
  Progs,       (* programs                                                 *)
  NNames,      (* a text declares one metric under each of the names       *)
               (* 1..NNames, in this order                                 *)
  Texts,       (* [name -> [kind, type, source, keys]], what a program may *)
               (* declare; keys is a sequence, empty for a scalar metric   *)
  Labels,      (* label values of a metric that has keys                   *)
  Unlabelled,  (* the empty tuple of label values of a scalar metric       *)
  MaxLoads,    (* bound on loads                                           *)
  MaxLVs,      (* bound on LabelValues                                     *)
  GcLoop,      (* whether StartGcLoop was given a positive duration        *)
  MaxDels      (* bound on deletions by programs                           *)

Names == 1..NNames
Metrics == 1..(NNames * MaxLoads)
LVs == 1..MaxLVs

ASSUME StoreAssumption ==
  /\ NNames \in Nat \ {0}
  /\ \A t \in Texts : DOMAIN t = Names
  /\ Unlabelled \notin Labels
  /\ GcLoop \in BOOLEAN
  /\ MaxLoads \in Nat /\ MaxLVs \in Nat /\ MaxDels \in Nat

VARIABLES
  store,       (* s.Metrics: name -> sequence of metrics                   *)
  nmetrics, nlvs,        (* metrics and LabelValues made so far            *)
  decl, owner, (* of a metric: its declaration and its program             *)
  lvs,         (* m.LabelValues                                            *)
  label, datum, expiry,  (* of a LabelValue                                *)
  aged,        (* data not updated for longer than the expiry              *)
  cur,         (* program -> the first of its VM's metrics, 0 if no VM     *)
  add,         (* the loader: "idle", "add", "copy", "insert", "run"       *)
  adding,      (* the program being loaded                                 *)
  base, at,    (* the first metric of its VM, and the name it has got to   *)
  dupe,        (* dupeIndex, 0 if there is none                            *)
  copyView,    (* the range over the old metric's LabelValues              *)
  gc,          (* Gc: "idle", "scan", "remove"                             *)
  gcTodo,      (* metrics it has not got to                                *)
  gcView,      (* the range over a metric's LabelValues                    *)
  loads, dels  (* count against the bounds                                 *)

(* History variables: no action is guarded by them.                        *)
VARIABLES
  halfLoaded,  (* programs of which a load failed after its first metric   *)
  owed,        (* what the old metric held when the copy began             *)
  disturbed    (* something was deleted from it since                      *)

objVars == <<nmetrics, decl, owner, loads>>
lvVars == <<nlvs, label, datum>>
loadVars == <<cur, add, adding, base, at, dupe, halfLoaded, owed>>
gcVars == <<gc, gcTodo>>
vars == <<store, objVars, lvVars, lvs, expiry, aged, loadVars, copyView,
          gcVars, gcView, dels, disturbed>>

(* A `range` over the LabelValues of metric m: arr is the array that the   *)
(* slice had when the loop began, i the index the loop is at, alias says   *)
(* whether the slice still uses that array.                                *)
BadView(m) ==                               \* off by one
  [m |-> m, arr |-> lvs[m], i |-> 2, alias |-> TRUE]

NoView == [m |-> 0, arr |-> <<>>, i |-> 1, alias |-> FALSE]
View(m) == [m |-> m, arr |-> lvs[m], i |-> 1, alias |-> TRUE]
Over(view) == view.i > Len(view.arr)

(* The view after the slice of m has become s, a change made in place:     *)
(* what is beyond the slice's new end stays in the array.                  *)
Seen(view, m, s) ==
  IF view.m = m /\ view.alias
  THEN [view EXCEPT !.arr = [j \in 1..Len(view.arr) |->
                               IF j <= Len(s) THEN s[j] ELSE view.arr[j]]]
  ELSE view

(* The views after an append that has made the slice of m be s.  An append *)
(* beyond the array's capacity moves the slice to another one.             *)
SeenAppend(view, m, s) ==
  IF view.m = m /\ Len(s) > Len(view.arr)
  THEN {view, [view EXCEPT !.alias = FALSE]}
  ELSE {Seen(view, m, s)}

Elements(s) == {s[j] : j \in 1..Len(s)}
LabelsOf(s) == {label[x] : x \in Elements(s)}
Find(s, l) == CHOOSE x \in Elements(s) : label[x] = l

(* RemoveDatum: the slice without the LabelValue for l.  There is at most  *)
(* one (NoDuplicateLabels).                                                *)
Removed(s, l) ==
  LET hits == {i \in 1..Len(s) : label[s[i]] = l}
  IN  IF hits = {} THEN s ELSE RemoveAt(s, CHOOSE i \in hits : TRUE)

Init ==
  /\ store = [n \in Names |-> <<>>]
  /\ nmetrics = 0 /\ nlvs = 0
  /\ decl = [m \in Metrics |-> <<>>] /\ owner = [m \in Metrics |-> <<>>]
  /\ lvs = [m \in Metrics |-> <<>>]
  /\ label = [x \in LVs |-> Unlabelled] /\ datum = [x \in LVs |-> 0]
  /\ expiry = [x \in LVs |-> FALSE]
  /\ aged = {}
  /\ cur = [p \in Progs |-> 0]
  /\ add = "idle" /\ adding = <<>> /\ base = 0 /\ at = 1 /\ dupe = 0
  /\ copyView = NoView
  /\ gc = "idle" /\ gcTodo = {} /\ gcView = NoView
  /\ loads = 0 /\ dels = 0
  /\ halfLoaded = {} /\ owed = {} /\ disturbed = FALSE

-----------------------------------------------------------------------------
(* The code generator makes the datum of a scalar counter (and histogram)  *)
(* at once, all others when they are first used.                           *)
BornWithDatum(d) == d.keys = <<>> /\ d.kind = "counter"

(* The loader compiles a text of p: new metrics.                           *)
Compile ==
  /\ add = "idle"
  /\ loads < MaxLoads
  /\ \E p \in Progs, t \in Texts :
       LET born == {n \in Names : BornWithDatum(t[n])}
           Upto(n) == nlvs + Cardinality({i \in born : i <= n})
           Made(m) == m > nmetrics /\ m <= nmetrics + NNames
           Fresh(x) == x > nlvs /\ x <= Upto(NNames)
       IN /\ nlvs' = Upto(NNames)
          /\ nlvs' <= MaxLVs
          /\ decl' = [m \in Metrics |->
                        IF Made(m) THEN t[m - nmetrics] ELSE decl[m]]
          /\ owner' = [m \in Metrics |-> IF Made(m) THEN p ELSE owner[m]]
          /\ lvs' = [m \in Metrics |->
                       IF Made(m) /\ m - nmetrics \in born
                       THEN <<Upto(m - nmetrics)>> ELSE lvs[m]]
          /\ label' = [x \in LVs |-> IF Fresh(x) THEN Unlabelled ELSE label[x]]
          /\ datum' = [x \in LVs |-> IF Fresh(x) THEN x ELSE datum[x]]
          /\ adding' = p
  /\ nmetrics' = nmetrics + NNames
  /\ loads' = loads + 1
  /\ add' = "add" /\ base' = nmetrics + 1 /\ at' = 1
  /\ UNCHANGED <<store, expiry, aged, cur, dupe, halfLoaded, owed, copyView,
                 gcVars, gcView, dels, disturbed>>

New == base + at - 1
Old == store[at][dupe]

(* The metric v of the store is the one m would duplicate.                 *)
Duplicate(v, m) ==
  /\ owner[v] = owner[m]
  /\ decl[v].type = decl[m].type
  /\ decl[v].source = decl[m].source

BadAddFails == FALSE                        \* Kind not compared

(* A metric of another kind has the name.                                  *)
AddFails ==
  /\ store[at] # <<>>
  /\ decl[store[at][1]].kind # decl[New].kind

(* Add, as far as the look for a duplicate.  An error leaves the metrics   *)
(* added before where they are, and ends the load.                         *)
Add ==
  /\ add = "add"
  /\ LET dupes == {i \in 1..Len(store[at]) : Duplicate(store[at][i], New)}
     IN \/ /\ AddFails
           /\ add' = "idle"
           /\ halfLoaded' = IF at > 1 THEN halfLoaded \cup {adding}
                                      ELSE halfLoaded
           /\ UNCHANGED <<dupe, copyView, owed, disturbed>>
        \/ /\ ~AddFails /\ dupes = {}
           /\ dupe' = 0
           /\ add' = "insert"
           /\ UNCHANGED <<copyView, halfLoaded, owed, disturbed>>
        \/ /\ ~AddFails
           /\ \E i \in dupes :
                LET v == store[at][i]
                IN /\ dupe' = i
                   /\ IF decl[v].keys # decl[New].keys
                      THEN /\ add' = "insert"
                           /\ UNCHANGED <<copyView, owed, disturbed>>
                      ELSE /\ add' = "copy"
                           /\ copyView' = View(v)
                           /\ owed' = Elements(lvs[v])
                           /\ disturbed' = FALSE
           /\ UNCHANGED halfLoaded
  /\ UNCHANGED <<store, objVars, lvVars, lvs, expiry, aged, cur, adding, base,
                 at, gcVars, gcView, dels>>

BadCopy ==                                  \* no RemoveDatum on the new one
  /\ add = "copy" /\ ~Over(copyView)
  /\ nlvs < MaxLVs
  /\ label[copyView.arr[copyView.i]] \in LabelsOf(lvs[Old])
  /\ LET l == label[copyView.arr[copyView.i]]
     IN /\ lvs' = [lvs EXCEPT ![New] = Append(@, nlvs + 1)]
        /\ label' = [label EXCEPT ![nlvs + 1] = l]
        /\ datum' = [datum EXCEPT ![nlvs + 1] = datum[Find(lvs[Old], l)]]
  /\ nlvs' = nlvs + 1
  /\ copyView' = [copyView EXCEPT !.i = @ + 1]
  /\ UNCHANGED <<store, objVars, expiry, aged, loadVars, gcVars, gcView, dels,
                 disturbed>>

(* Add, the copy of one LabelValue that the loop comes to.  GetDatum on    *)
(* the old metric makes the label anew if it was deleted since; the new    *)
(* metric gets a LabelValue of its own, without expiry, for the old datum. *)
Copy ==
  /\ add = "copy"
  /\ ~Over(copyView)
  /\ LET l == label[copyView.arr[copyView.i]]
         gone == l \notin LabelsOf(lvs[Old])
         x == nlvs + 1                      \* the new metric's
         y == nlvs + 2                      \* the old metric's, if made anew
         mine == Append(Removed(lvs[New], l), x)
         theirs == IF gone THEN Append(lvs[Old], y) ELSE lvs[Old]
     IN /\ nlvs' = IF gone THEN y ELSE x
        /\ nlvs' <= MaxLVs
        /\ lvs' = [lvs EXCEPT ![New] = mine, ![Old] = theirs]
        /\ label' = [z \in LVs |-> IF z > nlvs /\ z <= nlvs' THEN l ELSE label[z]]
        /\ datum' = [z \in LVs |-> IF z <= nlvs \/ z > nlvs' THEN datum[z]
                                   ELSE IF gone THEN y
                                   ELSE datum[Find(lvs[Old], l)]]
        /\ \E view \in IF gone THEN SeenAppend(copyView, Old, theirs)
                               ELSE {copyView} :
             copyView' = [view EXCEPT !.i = @ + 1]
        /\ gcView' \in IF gone THEN SeenAppend(gcView, Old, theirs)
                               ELSE {gcView}
  /\ UNCHANGED <<store, objVars, expiry, aged, loadVars, gcVars, dels,
                 disturbed>>

Copied ==
  /\ add = "copy"
  /\ Over(copyView)
  /\ add' = "insert"
  /\ copyView' = NoView
  /\ UNCHANGED <<store, objVars, lvVars, lvs, expiry, aged, cur, adding, base,
                 at, dupe, halfLoaded, owed, gcVars, gcView, dels, disturbed>>

BadInsert ==                                \* removes at dupeIndex+1
  /\ add = "insert" /\ gc = "idle"
  /\ store' = [store EXCEPT ![at] =
       LET list == Append(@, New)
       IN IF dupe = 0 THEN list ELSE RemoveAt(list, dupe + 1)]
  /\ IF at < NNames THEN add' = "add" /\ at' = at + 1
                    ELSE add' = "run" /\ at' = at
  /\ UNCHANGED <<objVars, lvVars, lvs, expiry, aged, cur, adding, base, dupe,
                 halfLoaded, owed, copyView, gcVars, gcView, dels, disturbed>>

(* Add, the change of the list under searchMu.Lock: the new metric at its  *)
(* end, without the duplicate.  Then the next name, or the VM.             *)
Insert ==
  /\ add = "insert"
  /\ gc = "idle"
  /\ store' = [store EXCEPT ![at] =
       LET list == Append(@, New)
       IN IF dupe = 0 THEN list ELSE RemoveAt(list, dupe)]
  /\ IF at < NNames THEN add' = "add" /\ at' = at + 1
                    ELSE add' = "run" /\ at' = at
  /\ UNCHANGED <<objVars, lvVars, lvs, expiry, aged, cur, adding, base, dupe,
                 halfLoaded, owed, copyView, gcVars, gcView, dels, disturbed>>

(* CompileAndRun replaces the VM.                                          *)
Run ==
  /\ add = "run"
  /\ cur' = [cur EXCEPT ![adding] = base]
  /\ halfLoaded' = halfLoaded \ {adding}
  /\ add' = "idle"
  /\ UNCHANGED <<store, objVars, lvVars, lvs, expiry, aged, adding, base, at,
                 dupe, owed, copyView, gcVars, gcView, dels, disturbed>>

-----------------------------------------------------------------------------
(* A running VM uses its metric under some name.                           *)
Used == {cur[p] + n - 1 : p \in {q \in Progs : cur[q] # 0}, n \in Names}

(* GetDatum, and the update of the datum.                                  *)
Update(m, l) ==
  \/ /\ l \in LabelsOf(lvs[m])
     /\ aged' = aged \ {datum[Find(lvs[m], l)]}
     /\ UNCHANGED <<lvVars, lvs, copyView, gcView>>
  \/ /\ l \notin LabelsOf(lvs[m])
     /\ nlvs < MaxLVs
     /\ nlvs' = nlvs + 1
     /\ label' = [label EXCEPT ![nlvs'] = l]
     /\ datum' = [datum EXCEPT ![nlvs'] = nlvs']
     /\ LET s == Append(lvs[m], nlvs + 1)
        IN /\ lvs' = [lvs EXCEPT ![m] = s]
           /\ copyView' \in SeenAppend(copyView, m, s)
           /\ gcView' \in SeenAppend(gcView, m, s)
     /\ UNCHANGED aged

(* RemoveDatum on m, by a VM or by Gc.                                     *)
RemoveDatum(m, l) ==
  LET s == Removed(lvs[m], l)
  IN /\ lvs' = [lvs EXCEPT ![m] = s]
     /\ copyView' = Seen(copyView, m, s)
     /\ disturbed' = (disturbed \/ copyView.m = m)

(* The program deletes a label ("del"), or marks it ("del ... after"; an   *)
(* error if it is not there).                                              *)
Delete(m, l) ==
  /\ dels < MaxDels
  /\ dels' = dels + 1
  /\ RemoveDatum(m, l)
  /\ gcView' = Seen(gcView, m, Removed(lvs[m], l))

ExpireDatum(m, l) ==
  /\ l \in LabelsOf(lvs[m])
  /\ expiry' = [expiry EXCEPT ![Find(lvs[m], l)] = TRUE]

(* The compiler lets a program delete from a metric with keys only.        *)
UseMetric ==
  /\ \E m \in Used :
       \/ /\ \E l \in IF decl[m].keys = <<>> THEN {Unlabelled} ELSE Labels :
               Update(m, l)
          /\ UNCHANGED <<expiry, dels, disturbed>>
       \/ /\ decl[m].keys # <<>>
          /\ \E l \in Labels : Delete(m, l)
          /\ UNCHANGED <<lvVars, expiry, aged>>
       \/ /\ decl[m].keys # <<>>
          /\ \E l \in Labels : ExpireDatum(m, l)
          /\ UNCHANGED <<lvVars, lvs, aged, copyView, gcView, dels, disturbed>>
  /\ UNCHANGED <<store, objVars, loadVars, gcVars>>

(* Time passes without an update of a datum, which matters to Gc once it   *)
(* has been marked.                                                        *)
Age ==
  /\ GcLoop
  /\ \E d \in {datum[x] : x \in {y \in 1..nlvs : expiry[y]}} \ aged :
       aged' = aged \cup {d}
  /\ UNCHANGED <<store, objVars, lvVars, lvs, expiry, loadVars, copyView,
                 gcVars, gcView, dels, disturbed>>

-----------------------------------------------------------------------------
Expired(x) == expiry[x] /\ datum[x] \in aged

(* Gc: Range takes searchMu for reading, which a waiting Insert prevents.  *)
Gc ==
  /\ gc = "idle"
  /\ GcLoop
  /\ add # "insert"
  /\ gcTodo' = UNION {Elements(store[n]) : n \in Names}
  /\ gc' = "scan"
  /\ UNCHANGED <<store, objVars, lvVars, lvs, expiry, aged, loadVars,
                 copyView, gcView, dels, disturbed>>

(* The next metric, or the end.                                            *)
GcMetric ==
  /\ gc = "scan"
  /\ Over(gcView)
  /\ \/ \E m \in gcTodo :
          /\ gcTodo' = gcTodo \ {m}
          /\ gcView' = View(m)
          /\ UNCHANGED gc
     \/ /\ gcTodo = {}
        /\ gc' = "idle"
        /\ gcView' = NoView
        /\ UNCHANGED gcTodo
  /\ UNCHANGED <<store, objVars, lvVars, lvs, expiry, aged, loadVars,
                 copyView, dels, disturbed>>

BadGcCheck ==                               \* moves on before the removal
  /\ gc = "scan" /\ ~Over(gcView)
  /\ gc' = IF Expired(gcView.arr[gcView.i]) THEN "remove" ELSE "scan"
  /\ gcView' = [gcView EXCEPT !.i = @ + 1]
  /\ UNCHANGED <<store, objVars, lvVars, lvs, expiry, aged, loadVars,
                 copyView, gcTodo, dels, disturbed>>

BadGcSkip ==                                \* no mark ends the loop
  /\ gc = "scan" /\ ~Over(gcView)
  /\ IF Expired(gcView.arr[gcView.i])
     THEN gc' = "remove" /\ UNCHANGED gcView
     ELSE gcView' = [gcView EXCEPT !.i =
                       IF expiry[gcView.arr[@]] THEN @ + 1
                       ELSE Len(gcView.arr) + 1] /\ UNCHANGED gc
  /\ UNCHANGED <<store, objVars, lvVars, lvs, expiry, aged, loadVars,
                 copyView, gcTodo, dels, disturbed>>

(* The next LabelValue in the array: is it expired?                        *)
GcCheck ==
  /\ gc = "scan"
  /\ ~Over(gcView)
  /\ IF Expired(gcView.arr[gcView.i])
     THEN gc' = "remove" /\ UNCHANGED gcView
     ELSE gcView' = [gcView EXCEPT !.i = @ + 1] /\ UNCHANGED gc
  /\ UNCHANGED <<store, objVars, lvVars, lvs, expiry, aged, loadVars,
                 copyView, gcTodo, dels, disturbed>>

(* Remove it, by its label.                                                *)
GcRemove ==
  /\ gc = "remove"
  /\ LET m == gcView.m
         l == label[gcView.arr[gcView.i]]
     IN /\ RemoveDatum(m, l)
        /\ gcView' = [Seen(gcView, m, Removed(lvs[m], l)) EXCEPT !.i = @ + 1]
  /\ gc' = "scan"
  /\ UNCHANGED <<store, objVars, lvVars, expiry, aged, loadVars, gcTodo,
                 dels>>

LoadStep == Add \/ Copy \/ Copied \/ Insert \/ Run
GcStep == Gc \/ GcMetric \/ GcCheck \/ GcRemove

Next == Compile \/ LoadStep \/ UseMetric \/ Age \/ GcStep

Spec == Init /\ [][Next]_vars

(* The ticker of StartGcLoop never stops, and a load that has begun goes   *)
(* on.  Nothing is assumed of what programs do.                            *)
FairSpec == Spec /\ WF_vars(LoadStep) /\ WF_vars(GcStep)

-----------------------------------------------------------------------------
TypeOK ==
  /\ store \in [Names -> Seq(1..nmetrics)]
  /\ nmetrics \in 0..(NNames * MaxLoads) /\ nlvs \in 0..MaxLVs
  /\ lvs \in [Metrics -> Seq(1..nlvs)]
  /\ \A x \in 1..nlvs : label[x] \in Labels \cup {Unlabelled} /\ datum[x] \in 1..nlvs
  /\ expiry \in [LVs -> BOOLEAN]
  /\ aged \subseteq 1..nlvs
  /\ cur \in [Progs -> 0..nmetrics]
  /\ add \in {"idle", "add", "copy", "insert", "run"}
  /\ add # "idle" => adding \in Progs /\ base \in Metrics
  /\ at \in Names
  /\ dupe \in Nat
  /\ add = "copy" => dupe \in 1..Len(store[at]) /\ copyView.m = Old
  /\ gc \in {"idle", "scan", "remove"}
  /\ gc = "remove" => ~Over(gcView)
  /\ gcTodo \subseteq Metrics
  /\ gc = "idle" => gcTodo = {}

(* No metric has two values for one label, with a reload copying, programs *)
(* creating and deleting, and Gc removing at the same time.  RemoveDatum   *)
(* counts on it: it goes on with its loop after a removal, and with a      *)
(* second match would slice out of range (metric.go:163-171).              *)
NoDuplicateLabels ==
  \A m \in 1..nmetrics :
    \A i, j \in 1..Len(lvs[m]) :
      i # j => label[lvs[m][i]] # label[lvs[m][j]]

(* All metrics of a name are of one kind, which the exporters rely on.     *)
KindsAgree ==
  \A n \in Names : \A v, w \in Elements(store[n]) : decl[v].kind = decl[w].kind

(* A metric that is declared by the same program, of the same type, at the *)
(* same place, is in the store once, however often it was loaded.          *)
OncePerSource ==
  \A n \in Names : \A i, j \in 1..Len(store[n]) :
    LET v == store[n][i]  w == store[n][j]
    IN owner[v] = owner[w] /\ decl[v].type = decl[w].type
         /\ decl[v].source = decl[w].source => i = j

(* What a running VM updates is what is exported: its metrics are in the   *)
(* store, except while its program is being loaded, and after a load that  *)
(* failed when some of its metrics had been added (loader.go:232-243).     *)
LiveExported ==
  \A p \in Progs \ halfLoaded :
    cur[p] # 0 /\ ~(add # "idle" /\ adding = p) =>
      \A n \in Names : cur[p] + n - 1 \in Elements(store[n])

(* The copy is complete: what the old metric held when it began is in the  *)
(* new metric with the same datum, so that the counts go on, unless        *)
(* something was deleted from the old one meanwhile.                       *)
CopyComplete ==
  add = "copy" /\ Over(copyView) =>
    \/ disturbed
    \/ \A x \in owed : \E y \in Elements(lvs[New]) :
         label[y] = label[x] /\ datum[y] = datum[x]

(* What has expired goes: one run of Gc may skip a label, since RemoveDatum *)
(* shifts the array it ranges over, and may meet a program that updates or *)
(* deletes, but an exported datum that stays expired is removed in the end *)
(* (store.go:149-191).                                                     *)
GcRemoves ==
  \A x \in LVs :
    LET Due == /\ x <= nlvs
               /\ Expired(x)
               /\ \E n \in Names : \E m \in Elements(store[n]) :
                    x \in Elements(lvs[m])
    IN GcLoop /\ Due ~> ~Due
=============================================================================
