------------------------------- MODULE Tailer -------------------------------
(***************************************************************************)
(* internal/tailer/tail.go: the Tailer finds the pathnames that match its  *)
(* glob patterns, keeps one LogStream for each, stops the stale ones,      *)
(* forgets the complete ones and, at the end, closes the channel of lines. *)
(*                                                                         *)
(* The goroutines are: the caller of New, which polls the patterns once;   *)
(* the pattern poll loop; the gc loop; the closer, which waits for all     *)
(* others and closes the channel; and the goroutines of the streams, here  *)
(* reduced to the contract of module LogStream (they start, hand over,     *)
(* complete, and are done).  A WaitGroup is the set of the goroutines      *)
(* added to it and not done.                                               *)
(***************************************************************************)
EXTENDS Integers, FiniteSets

CONSTANTS
  NPaths,      (* pathnames are 1..NPaths in the order Glob returns them   *)
  Kind,        (* pathname -> "log", "pipe", "dir", "ignored", "dangling"  *)
  Patterns,    (* the glob patterns                                        *)
  Matches,     (* pattern -> the pathnames it matches                      *)
  Wakers,      (* which loops have a waker: a subset of {"poll", "gc"}     *)
  Streams,     (* identities of LogStream objects, reused when free        *)
  NoStream,    (* no entry in the map logstreams                           *)
  MaxChanges,  (* bound on pathnames appearing and disappearing            *)
  MaxStale,    (* bound on streams found stale by Gc                       *)
  MaxOpenFails,(* bound on failures to open an existing pathname           *)
  MaxLost      (* bound on streams lost in a rotation                      *)

Paths == 1..NPaths
Loops == {"poll", "gc"}

ASSUME TailerAssumption ==
  /\ NPaths \in Nat
  /\ Kind \in [Paths -> {"log", "pipe", "dir", "ignored", "dangling"}]
  /\ Matches \in [Patterns -> SUBSET Paths]
  /\ Wakers \subseteq Loops
  /\ NoStream \notin Streams
  /\ Streams \cap Loops = {}
  /\ MaxChanges \in Nat /\ MaxStale \in Nat
  /\ MaxOpenFails \in Nat /\ MaxLost \in Nat

VARIABLES
  oneShot,     (* t.oneShot, an option given to New                        *)
  exists,      (* the pathnames that exist                                 *)
  cancelled,   (* ctx is done                                              *)
  main,        (* New: "options", "polling", "returned", "error", and      *)
               (* "nothing" when it returned for want of patterns          *)
  initDone,    (* the channel initDone is closed                           *)
  loop,        (* each loop: "off", "init", "select", "busy", "gone"       *)
  closer,      (* the shutdown goroutine: "off", "init", "ctx", "wait",    *)
               (* "gone"                                                   *)
  wg,          (* t.wg                                                     *)
  linesClosed, (* the channel of lines is closed                           *)
  poll,        (* where a poll is: "idle", "glob", "match", "tail",        *)
               (* "streams"                                                *)
  pats,        (* the patterns the poll has not looked at yet              *)
  matches,     (* the matches of the current pattern not looked at yet     *)
  cur,         (* the pathname TailPath is called on, 0 if none            *)
  logstreams,  (* the map from pathname to stream, NoStream if no entry    *)
  state,       (* stream: "free", "running", "complete", or "lost" when    *)
               (* its goroutine ended in a rotation and did not complete   *)
  of,          (* the pathname of a stream                                 *)
  stopped,     (* the streams that were told to Stop                       *)
  gen,         (* 0 or 1, which goroutine of the stream is the reader      *)
  logCount,    (* the exported variable log_count                          *)
  changes, stale, openFails, lost,   (* count against the bounds           *)
  drift        (* history: re-tails of a complete stream that failed       *)

envVars == <<oneShot, exists, changes>>
pollVars == <<poll, pats, matches, cur>>
streamVars == <<logstreams, state, of, stopped, gen>>
lifeVars == <<cancelled, main, initDone, loop, closer, linesClosed>>
budgetVars == <<stale, openFails, lost, drift>>
vars == <<envVars, pollVars, streamVars, lifeVars, budgetVars, wg, logCount>>

Routine(s, g) == <<s, g>>
LoopRoutine(l) == <<l, 0>>

Entries == {p \in Paths : logstreams[p] # NoStream}

(* A stream object nobody refers to any more.                              *)
Free(s) ==
  /\ state[s] # "running"
  /\ \A p \in Paths : logstreams[p] # s
  /\ \A g \in {0, 1} : Routine(s, g) \notin wg

Init ==
  /\ oneShot \in BOOLEAN
  /\ exists \in SUBSET Paths
  /\ cancelled = FALSE
  /\ main = "options"
  /\ initDone = FALSE
  /\ loop = [l \in Loops |-> "off"]
  /\ closer = "off"
  /\ wg = {}
  /\ linesClosed = FALSE
  /\ poll = "idle" /\ pats = {} /\ matches = {} /\ cur = 0
  /\ logstreams = [p \in Paths |-> NoStream]
  /\ state = [s \in Streams |-> "free"]
  /\ of = [s \in Streams |-> 0]
  /\ stopped = {}
  /\ gen = [s \in Streams |-> 0]
  /\ logCount = 0
  /\ changes = 0 /\ stale = 0 /\ openFails = 0 /\ lost = 0 /\ drift = 0

(* Defects that the properties must catch: each Bad operator stands for    *)
(* the definition of the same name below.                                  *)
BadNewOptions ==                            \* poll loop not added to t.wg
  /\ main = "options"
  /\ loop' = [l \in Loops |-> IF l \in Wakers THEN "init" ELSE "off"]
  /\ wg' = {LoopRoutine(l) : l \in Wakers \ {"poll"}}
  /\ main' = "polling"
  /\ poll' = "glob"
  /\ pats' = Patterns
  /\ UNCHANGED <<envVars, matches, cur, streamVars, cancelled, closer,
                 linesClosed, initDone, budgetVars, logCount>>

-----------------------------------------------------------------------------
(* New, up to its poll: the options start the loops that have a waker,     *)
(* each counted in t.wg before it runs.  With no pattern the channel is    *)
(* closed at once and no shutdown goroutine is needed.                     *)
NewOptions ==
  /\ main = "options"
  /\ loop' = [l \in Loops |-> IF l \in Wakers THEN "init" ELSE "off"]
  /\ wg' = {LoopRoutine(l) : l \in Wakers}
  /\ IF Patterns = {}
     THEN /\ main' = "nothing"
          /\ linesClosed' = TRUE
          /\ initDone' = TRUE
          /\ UNCHANGED <<poll, pats>>
     ELSE /\ main' = "polling"
          /\ poll' = "glob"
          /\ pats' = Patterns
          /\ UNCHANGED <<linesClosed, initDone>>
  /\ UNCHANGED <<envVars, matches, cur, streamVars, cancelled, closer,
                 budgetVars, logCount>>

(* New returns: after a poll without error the closer is started; the      *)
(* deferred close(initDone) is made in any case.                           *)
NewReturn(ok) ==
  /\ main' = IF ok THEN "returned" ELSE "error"
  /\ closer' = IF ok THEN "init" ELSE closer
  /\ initDone' = TRUE
  /\ UNCHANGED loop

BadPatternsPolled(ok) ==                    \* pollMu kept on the error path
  /\ pats' = {} /\ matches' = {} /\ cur' = 0
  /\ IF main = "polling"
     THEN NewReturn(ok)
     ELSE UNCHANGED <<main, closer, initDone, loop>>
  /\ poll' = IF ok /\ main # "polling" THEN "streams" ELSE "idle"

(* PollLogPatterns ends: New returns, or Poll goes on with the streams, or *)
(* Poll gives up with the error.                                           *)
PatternsPolled(ok) ==
  /\ pats' = {} /\ matches' = {} /\ cur' = 0
  /\ IF main = "polling"
     THEN /\ NewReturn(ok)
          /\ poll' = "idle"
     ELSE /\ poll' = IF ok THEN "streams" ELSE "idle"
          /\ loop' = IF ok THEN loop ELSE [loop EXCEPT !["poll"] = "select"]
          /\ UNCHANGED <<main, closer, initDone>>

(* PollLogPatterns, the outer loop, in the random order of a Go map.       *)
PollGlob ==
  /\ poll = "glob"
  /\ \/ \E pattern \in pats :
          /\ pats' = pats \ {pattern}
          /\ matches' = Matches[pattern] \cap exists
          /\ poll' = "match"
          /\ UNCHANGED <<cur, main, closer, initDone, loop>>
     \/ /\ pats = {}
        /\ PatternsPolled(TRUE)
  /\ UNCHANGED <<envVars, streamVars, cancelled, linesClosed, budgetVars, wg,
                 logCount>>

(* The inner loop: Ignore stats the pathname.  A pathname that is gone, or *)
(* a symbolic link to nothing, is an error, and the error ends the poll of *)
(* all patterns.                                                           *)
PollMatch ==
  /\ poll = "match"
  /\ \/ /\ matches = {}
        /\ poll' = "glob"
        /\ UNCHANGED <<pats, matches, cur, main, closer, initDone, loop>>
     \/ /\ matches # {}
        /\ \E p \in matches :
             /\ \A q \in matches : p <= q
             /\ \/ /\ p \notin exists \/ Kind[p] = "dangling"
                   /\ PatternsPolled(FALSE)
                \/ /\ p \in exists /\ Kind[p] \in {"dir", "ignored"}
                   /\ matches' = matches \ {p}
                   /\ UNCHANGED <<poll, pats, cur, main, closer, initDone, loop>>
                \/ /\ p \in exists /\ Kind[p] \in {"log", "pipe"}
                   /\ matches' = matches \ {p}
                   /\ cur' = p
                   /\ poll' = "tail"
                   /\ UNCHANGED <<pats, main, closer, initDone, loop>>
  /\ UNCHANGED <<envVars, streamVars, cancelled, linesClosed, budgetVars, wg,
                 logCount>>

BadStartStream(s, p) ==                     \* reader not added to t.wg
  /\ state' = [state EXCEPT ![s] = "running"]
  /\ of' = [of EXCEPT ![s] = p]
  /\ stopped' = IF oneShot THEN stopped \cup {s} ELSE stopped \ {s}
  /\ gen' = [gen EXCEPT ![s] = 0]
  /\ logstreams' = [logstreams EXCEPT ![p] = s]
  /\ UNCHANGED wg

(* logstream.New succeeds: the stream's goroutine is counted in t.wg       *)
(* before it runs.  In one-shot mode it is told to stop at once.           *)
StartStream(s, p) ==
  /\ state' = [state EXCEPT ![s] = "running"]
  /\ of' = [of EXCEPT ![s] = p]
  /\ stopped' = IF oneShot THEN stopped \cup {s} ELSE stopped \ {s}
  /\ gen' = [gen EXCEPT ![s] = 0]
  /\ wg' = wg \cup {Routine(s, 0)}
  /\ logstreams' = [logstreams EXCEPT ![p] = s]

BadTailPath ==                              \* no test of IsComplete
  /\ poll = "tail"
  /\ cur \in exists
  /\ \E s \in Streams : Free(s) /\ StartStream(s, cur)
  /\ logCount' = IF logstreams[cur] = NoStream THEN logCount + 1 ELSE logCount
  /\ poll' = "match"
  /\ cur' = 0
  /\ UNCHANGED <<envVars, pats, matches, lifeVars, budgetVars>>

(* TailPath(cur), under logstreamsMu.  An entry whose stream is not        *)
(* complete is kept.  A complete one is uncounted and replaced; if the new *)
(* stream cannot be made, the entry stays, uncounted.                      *)
TailPath ==
  /\ poll = "tail"
  /\ LET l == logstreams[cur]
         again == l # NoStream
     IN \/ /\ again /\ state[l] # "complete"
           /\ UNCHANGED <<streamVars, wg, logCount, openFails, drift>>
        \/ /\ again => state[l] = "complete"
           /\ cur \in exists
           /\ \E s \in Streams : Free(s) /\ StartStream(s, cur)
           /\ logCount' = IF again THEN logCount ELSE logCount + 1
           /\ UNCHANGED <<openFails, drift>>
        \/ /\ again => state[l] = "complete"
           /\ \/ cur \notin exists /\ UNCHANGED openFails
              \/ cur \in exists /\ openFails < MaxOpenFails
                   /\ openFails' = openFails + 1
           /\ logCount' = IF again THEN logCount - 1 ELSE logCount
           /\ drift' = IF again THEN drift + 1 ELSE drift
           /\ UNCHANGED <<streamVars, wg>>
  /\ poll' = "match"
  /\ cur' = 0
  /\ UNCHANGED <<envVars, pats, matches, lifeVars, stale, lost>>

BadPollLogStreams ==                        \* log_count not decremented
  /\ poll = "streams"
  /\ logstreams' = [p \in Paths |->
       IF p \in Entries /\ state[logstreams[p]] = "complete"
       THEN NoStream ELSE logstreams[p]]
  /\ poll' = "idle"
  /\ loop' = [loop EXCEPT !["poll"] = "select"]
  /\ UNCHANGED <<envVars, pats, matches, cur, state, of, stopped, gen,
                 cancelled, main, initDone, closer, linesClosed, budgetVars,
                 wg, logCount>>

(* PollLogStreams, under logstreamsMu: complete streams leave the map.     *)
PollLogStreams ==
  /\ poll = "streams"
  /\ LET finished == {p \in Entries : state[logstreams[p]] = "complete"}
     IN /\ logstreams' = [p \in Paths |->
                            IF p \in finished THEN NoStream ELSE logstreams[p]]
        /\ logCount' = logCount - Cardinality(finished)
  /\ poll' = "idle"
  /\ loop' = [loop EXCEPT !["poll"] = "select"]
  /\ UNCHANGED <<envVars, pats, matches, cur, state, of, stopped, gen,
                 cancelled, main, initDone, closer, linesClosed, budgetVars,
                 wg>>

BadLoopEnd(l) ==                            \* no wg.Done
  /\ loop[l] = "select"
  /\ cancelled
  /\ loop' = [loop EXCEPT ![l] = "gone"]
  /\ UNCHANGED <<envVars, pollVars, streamVars, cancelled, main, initDone,
                 closer, linesClosed, budgetVars, wg, logCount>>

-----------------------------------------------------------------------------
(* The loops: they wait for New to return, end at once in one-shot mode,   *)
(* and otherwise answer their waker until the context is done.             *)
LoopBegin(l) ==
  /\ loop[l] = "init"
  /\ initDone
  /\ IF oneShot
     THEN /\ loop' = [loop EXCEPT ![l] = "gone"]
          /\ wg' = wg \ {LoopRoutine(l)}
     ELSE /\ loop' = [loop EXCEPT ![l] = "select"]
          /\ UNCHANGED wg
  /\ UNCHANGED <<envVars, pollVars, streamVars, cancelled, main, initDone,
                 closer, linesClosed, budgetVars, logCount>>

LoopEnd(l) ==
  /\ loop[l] = "select"
  /\ cancelled
  /\ loop' = [loop EXCEPT ![l] = "gone"]
  /\ wg' = wg \ {LoopRoutine(l)}
  /\ UNCHANGED <<envVars, pollVars, streamVars, cancelled, main, initDone,
                 closer, linesClosed, budgetVars, logCount>>

BadPollBegin ==                             \* only PollLogStreams is called
  /\ loop["poll"] = "select"
  /\ loop' = [loop EXCEPT !["poll"] = "busy"]
  /\ poll' = "streams"
  /\ UNCHANGED <<envVars, pats, matches, cur, streamVars, cancelled, main,
                 initDone, closer, linesClosed, budgetVars, wg, logCount>>

(* Poll: woken, also when the context is done and select picks the waker.  *)
PollBegin ==
  /\ loop["poll"] = "select"
  /\ loop' = [loop EXCEPT !["poll"] = "busy"]
  /\ poll' = "glob"
  /\ pats' = Patterns
  /\ UNCHANGED <<envVars, matches, cur, streamVars, cancelled, main,
                 initDone, closer, linesClosed, budgetVars, wg, logCount>>

(* Gc, under logstreamsMu: any of the streams in the map may have had no   *)
(* read for a day, and are told to stop (which means nothing to one that   *)
(* has ended).                                                             *)
Gc ==
  /\ loop["gc"] = "select"
  /\ \E S \in SUBSET {p \in Entries : state[logstreams[p]] = "running"} :
       /\ S # {}
       /\ stale + Cardinality(S) <= MaxStale
       /\ stopped' = stopped \cup {logstreams[p] : p \in S}
       /\ stale' = stale + Cardinality(S)
  /\ UNCHANGED <<envVars, pollVars, logstreams, state, of, gen, lifeVars,
                 openFails, lost, drift, wg, logCount>>

(* The shutdown goroutine.                                                 *)
CloserStep ==
  /\ \/ /\ closer = "init" /\ initDone
        /\ closer' = IF oneShot THEN "wait" ELSE "ctx"
        /\ UNCHANGED linesClosed
     \/ /\ closer = "ctx" /\ cancelled
        /\ closer' = "wait"
        /\ UNCHANGED linesClosed
     \/ /\ closer = "wait" /\ wg = {}
        /\ closer' = "gone"
        /\ linesClosed' = TRUE
  /\ UNCHANGED <<envVars, pollVars, streamVars, cancelled, main, initDone,
                 loop, budgetVars, wg, logCount>>

-----------------------------------------------------------------------------
(* The goroutines of a stream, as module LogStream describes them.         *)

MayComplete(s) ==
  \/ s \in stopped
  \/ cancelled
  \/ of[s] \notin exists
  \/ Kind[of[s]] = "pipe"

Complete(s) ==
  /\ state[s] = "running"
  /\ MayComplete(s)
  /\ state' = [state EXCEPT ![s] = "complete"]
  /\ stopped' = stopped \ {s}
  /\ UNCHANGED <<envVars, pollVars, logstreams, of, gen, lifeVars,
                 budgetVars, wg, logCount>>

(* Rotation: the reader starts another goroutine, counted before it runs,  *)
(* and ends.                                                               *)
Handover(s) ==
  /\ state[s] = "running"
  /\ Kind[of[s]] = "log"
  /\ Routine(s, 1 - gen[s]) \notin wg
  /\ wg' = wg \cup {Routine(s, 1 - gen[s])}
  /\ gen' = [gen EXCEPT ![s] = 1 - gen[s]]
  /\ UNCHANGED <<envVars, pollVars, logstreams, state, of, stopped, lifeVars,
                 budgetVars, logCount>>

(* Rotation when the new file cannot be opened: the reader ends, and the   *)
(* stream does not become complete (filestream.go:149-153).                *)
Lose(s) ==
  /\ state[s] = "running"
  /\ Kind[of[s]] = "log"
  /\ lost < MaxLost
  /\ lost' = lost + 1
  /\ state' = [state EXCEPT ![s] = "lost"]
  /\ UNCHANGED <<envVars, pollVars, logstreams, of, stopped, gen, lifeVars,
                 stale, openFails, drift, wg, logCount>>

(* The deferred wg.Done() of a goroutine that is not the reader any more.  *)
RoutineDone(s) ==
  /\ \E g \in {0, 1} :
       /\ Routine(s, g) \in wg
       /\ state[s] # "running" \/ g # gen[s]
       /\ wg' = wg \ {Routine(s, g)}
  /\ UNCHANGED <<envVars, pollVars, streamVars, lifeVars, budgetVars,
                 logCount>>

-----------------------------------------------------------------------------
Cancel ==
  /\ ~cancelled
  /\ cancelled' = TRUE
  /\ UNCHANGED <<envVars, pollVars, streamVars, main, initDone, loop, closer,
                 linesClosed, budgetVars, wg, logCount>>

FileChange ==
  /\ changes < MaxChanges
  /\ changes' = changes + 1
  /\ \E p \in Paths :
       exists' = IF p \in exists THEN exists \ {p} ELSE exists \cup {p}
  /\ UNCHANGED <<oneShot, pollVars, streamVars, lifeVars, budgetVars, wg,
                 logCount>>

PollStep == PollGlob \/ PollMatch \/ TailPath \/ PollLogStreams

Next ==
  \/ NewOptions
  \/ PollStep
  \/ PollBegin
  \/ Gc
  \/ CloserStep
  \/ \E l \in Loops : LoopBegin(l) \/ LoopEnd(l)
  \/ \E s \in Streams :
       Complete(s) \/ Handover(s) \/ Lose(s) \/ RoutineDone(s)
  \/ Cancel
  \/ FileChange

Spec == Init /\ [][Next]_vars

(* What ends a stream for certain: cancellation; for a regular file also a *)
(* Stop and the removal of the file (module FileStream).  A pipe ends when *)
(* its writers close it, which nothing promises.                           *)
MustComplete(s) ==
  /\ state[s] = "running"
  /\ cancelled \/ (Kind[of[s]] = "log"
                     /\ (s \in stopped \/ of[s] \notin exists))
  /\ Complete(s)

(* Every goroutine that can run does; the wakers keep ticking.  A loop     *)
(* that finds both its waker and the context ready chooses at random, so   *)
(* it does not overlook the context forever: strong fairness.              *)
Fairness ==
  /\ WF_vars(NewOptions) /\ WF_vars(PollStep) /\ WF_vars(PollBegin)
  /\ WF_vars(CloserStep)
  /\ \A l \in Loops : WF_vars(LoopBegin(l)) /\ SF_vars(LoopEnd(l))
  /\ \A s \in Streams : WF_vars(MustComplete(s)) /\ WF_vars(RoutineDone(s))

FairSpec == Spec /\ Fairness

-----------------------------------------------------------------------------
TypeOK ==
  /\ oneShot \in BOOLEAN
  /\ exists \subseteq Paths
  /\ cancelled \in BOOLEAN /\ initDone \in BOOLEAN /\ linesClosed \in BOOLEAN
  /\ main \in {"options", "polling", "returned", "error", "nothing"}
  /\ loop \in [Loops -> {"off", "init", "select", "busy", "gone"}]
  /\ closer \in {"off", "init", "ctx", "wait", "gone"}
  /\ wg \subseteq (Loops \cup Streams) \X {0, 1}
  /\ poll \in {"idle", "glob", "match", "tail", "streams"}
  /\ poll = "idle" <=> ~(main = "polling" \/ loop["poll"] = "busy")
  /\ pats \subseteq Patterns
  /\ matches \subseteq Paths
  /\ cur \in Paths \cup {0}
  /\ poll = "tail" => cur \in Paths
  /\ logstreams \in [Paths -> Streams \cup {NoStream}]
  /\ state \in [Streams -> {"free", "running", "complete", "lost"}]
  /\ of \in [Streams -> Paths \cup {0}]
  /\ stopped \subseteq Streams
  /\ gen \in [Streams -> {0, 1}]
  /\ logCount \in Int
  /\ changes \in Nat /\ stale \in Nat /\ openFails \in Nat /\ lost \in Nat
  /\ drift \in Nat

(* No line is sent on a closed channel, which would be a panic: once New   *)
(* or the shutdown goroutine has closed `lines` no stream is reading, in   *)
(* whatever order cancellation, a poll in progress, rotation and the ends  *)
(* of the goroutines come (the comment in New, tail.go:162-168).           *)
NoSendOnClosed == linesClosed => \A s \in Streams : state[s] # "running"

(* No goroutine is added to the WaitGroup after it has dropped to zero     *)
(* under the closer's Wait: what is added while the closer waits is added  *)
(* by a goroutine that is itself counted.                                  *)
AddedWhileCounted ==
  [][(closer \in {"wait", "gone"} /\ wg = {}) => (wg' = {})]_vars

(* A pathname has at most one reader, so its lines are not sent twice, and *)
(* the reader is the one in the map, where Gc and PollLogStreams find it:  *)
(* a stream is replaced only after it has said it is complete.             *)
OneReader ==
  \A s \in Streams : state[s] = "running" => logstreams[of[s]] = s

(* log_count differs from the number of entries by exactly the number of   *)
(* times a complete stream was to be replaced and the open failed.         *)
LogCountDrift == logCount = Cardinality(Entries) - drift

(* Shutdown: when the context is done the channel is closed in the end,    *)
(* whatever the streams were doing, and in one-shot mode by itself once    *)
(* each log is read to its end.  The loader downstream waits for it.       *)
ShutsDown == (cancelled \/ oneShot) /\ main = "returned" ~> linesClosed

(* A pathname that cannot be examined ends each poll before it comes to p, *)
(* unless p is before it in the matches of the same pattern (tail.go:343). *)
Hidden(p) ==
  \E pattern \in Patterns : \E q \in Matches[pattern] \cap exists :
    Kind[q] = "dangling" /\ ~(p \in Matches[pattern] /\ p < q)

(* The stream of p ended in a rotation and never says that it is complete  *)
(* (filestream.go:149), so that it is not replaced.                        *)
Lost(p) == logstreams[p] # NoStream /\ state[logstreams[p]] = "lost"

(* A log that matches gets a reader as long as it is there, also after     *)
(* removal and re-creation, a stop by Gc or a failed open (the comment on  *)
(* type Tailer, tail.go:31-32: "polls the filesystem for log sources that  *)
(* match given `LogPathPatterns` and creates `LogStream`s to tail them"),  *)
(* but for the two cases above, in which nobody reads it.  A pathname that *)
(* disappears during a poll ends only this one poll.                       *)
EventuallyTailed ==
  \A p \in {q \in Paths : Kind[q] = "log"
                            /\ \E pattern \in Patterns : q \in Matches[pattern]} :
    main = "returned" /\ ~oneShot /\ p \in exists
      ~> \/ p \notin exists
         \/ cancelled
         \/ \E s \in Streams : state[s] = "running" /\ of[s] = p
         \/ Hidden(p) \/ Lost(p)
=============================================================================
