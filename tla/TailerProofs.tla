---------------------------- MODULE TailerProofs ----------------------------
(***************************************************************************)
(* Proofs about the Tailer, for any pathnames, patterns, wakers, streams   *)
(* and bounds.                                                             *)
(***************************************************************************)
EXTENDS Tailer, FiniteSetTheorems, TLAPS

(* New comes before everything else: until initDone is closed the loops    *)
(* and the closer have not begun, and before the options are applied there *)
(* is nothing at all.                                                      *)
StartupInv ==
  /\ main \in {"options", "polling"} <=> ~initDone
  /\ ~initDone => /\ closer = "off"
                  /\ \A l \in Loops : loop[l] \in {"off", "init"}
  /\ main = "options" => /\ ~linesClosed
                         /\ poll = "idle"
                         /\ \A s \in Streams : state[s] # "running"
  /\ closer # "off" => main = "returned"
  /\ poll = "streams" => loop["poll"] = "busy"

(* With no pattern there is never anything to tail.                        *)
NoPatternInv ==
  /\ main = "nothing" => Patterns = {}
  /\ Patterns = {} => /\ matches = {}
                      /\ poll # "tail"
                      /\ \A s \in Streams : state[s] # "running"

(* Whoever can start a goroutine is counted in the WaitGroup, and the      *)
(* channel is closed by New for want of patterns or by the closer when     *)
(* nobody is counted.                                                      *)
CountedInv ==
  /\ \A l \in Loops : loop[l] \in {"init", "select", "busy"}
                        => LoopRoutine(l) \in wg
  /\ \A s \in Streams : state[s] = "running" => Routine(s, gen[s]) \in wg
  /\ linesClosed => \/ main = "nothing" /\ closer = "off"
                    \/ closer = "gone" /\ wg = {}

(* A reader has a pathname, and is the stream of that pathname.            *)
ReaderInv ==
  /\ \A s \in Streams : state[s] = "running" => of[s] \in Paths
  /\ OneReader

IInv == TypeOK /\ StartupInv /\ NoPatternInv /\ CountedInv /\ ReaderInv

-----------------------------------------------------------------------------
(* The number of elements of a set of pathnames is a natural number: what  *)
(* PollLogStreams takes off log_count, and what Gc counts.                 *)
LEMMA PathsCardinality ==
  ASSUME NEW S, S \subseteq Paths
  PROVE  Cardinality(S) \in Nat
<1>1. IsFiniteSet(Paths)
  BY TailerAssumption, FS_Interval DEF Paths
<1>2. IsFiniteSet(S)
  BY <1>1, FS_Subset
<1> QED BY <1>2, FS_CardinalityType

(* The initial states satisfy the inductive invariant.                     *)
LEMMA InitIInv == Init => IInv
<1> SUFFICES ASSUME Init PROVE IInv
  OBVIOUS
<1> USE TailerAssumption DEF Init, Loops
<1>1. TypeOK
  <2>1. /\ exists \subseteq Paths /\ logCount \in Int
        /\ changes \in Nat /\ stale \in Nat /\ openFails \in Nat
        /\ lost \in Nat /\ drift \in Nat
    OBVIOUS
  <2>2. /\ loop \in [Loops -> {"off", "init", "select", "busy", "gone"}]
        /\ poll = "idle" <=> ~(main = "polling" \/ loop["poll"] = "busy")
    OBVIOUS
  <2>3. /\ logstreams \in [Paths -> Streams \cup {NoStream}]
        /\ state \in [Streams -> {"free", "running", "complete", "lost"}]
        /\ of \in [Streams -> Paths \cup {0}]
        /\ gen \in [Streams -> {0, 1}]
    OBVIOUS
  <2> QED BY <2>1, <2>2, <2>3 DEF TypeOK
<1>2. StartupInv /\ NoPatternInv
  BY DEF StartupInv, NoPatternInv
<1>3. CountedInv /\ ReaderInv
  BY DEF CountedInv, ReaderInv, OneReader
<1> QED BY <1>1, <1>2, <1>3 DEF IInv

(* Every step preserves the inductive invariant.                           *)
LEMMA NextIInv == IInv /\ [Next]_vars => IInv'
<1> SUFFICES ASSUME IInv, [Next]_vars PROVE IInv'
  OBVIOUS
<1> USE TailerAssumption
    DEF IInv, Loops, envVars, pollVars, streamVars, lifeVars, budgetVars
<1>1. CASE NewOptions
  <2>1. TypeOK'
    <3>1. wg' \subseteq (Loops \cup Streams) \X {0, 1}
      BY <1>1 DEF NewOptions, LoopRoutine
    <3>2. /\ loop' \in [Loops -> {"off", "init", "select", "busy", "gone"}]
          /\ loop'["poll"] # "busy"
      BY <1>1 DEF NewOptions
    <3>3. /\ poll' = "idle" <=> main' # "polling"
          /\ poll' \in {"idle", "glob"}
          /\ main' \in {"nothing", "polling"}
          /\ pats' \subseteq Patterns
          /\ initDone' \in BOOLEAN /\ linesClosed' \in BOOLEAN
      BY <1>1 DEF TypeOK, StartupInv, NewOptions
    <3> QED BY <1>1, <3>1, <3>2, <3>3 DEF TypeOK, NewOptions
  <2>2. StartupInv' /\ NoPatternInv'
    BY <1>1 DEF TypeOK, StartupInv, NoPatternInv, NewOptions
  <2>3. CountedInv'
    BY <1>1 DEF TypeOK, StartupInv, NoPatternInv, CountedInv, Routine, LoopRoutine, NewOptions
  <2>4. ReaderInv'
    BY <1>1 DEF TypeOK, ReaderInv, OneReader, StartupInv, NewOptions
  <2> QED BY <2>1, <2>2, <2>3, <2>4
<1>2. CASE PollGlob
  <2>1. TypeOK'
    BY <1>2 DEF TypeOK, StartupInv, PollGlob, PatternsPolled, NewReturn
  <2>2. StartupInv' /\ NoPatternInv'
    BY <1>2 DEF TypeOK, StartupInv, NoPatternInv, PollGlob, PatternsPolled, NewReturn
  <2>3. CountedInv'
    BY <1>2 DEF TypeOK, StartupInv, NoPatternInv, CountedInv, Routine, LoopRoutine, PollGlob, PatternsPolled, NewReturn
  <2>4. ReaderInv'
    BY <1>2 DEF TypeOK, ReaderInv, OneReader, StartupInv, PollGlob, PatternsPolled, NewReturn
  <2> QED BY <2>1, <2>2, <2>3, <2>4
<1>3. CASE PollMatch
  <2>1. TypeOK'
    <3>1. CASE /\ PatternsPolled(FALSE)
               /\ poll = "match"
               /\ UNCHANGED <<envVars, streamVars, cancelled, linesClosed,
                              budgetVars, wg, logCount>>
      <4>1. CASE main = "polling"
        BY <3>1, <4>1 DEF TypeOK, StartupInv, PatternsPolled, NewReturn
      <4>2. CASE main # "polling"
        BY <3>1, <4>2 DEF TypeOK, StartupInv, PatternsPolled
      <4> QED BY <4>1, <4>2
    <3>2. CASE UNCHANGED <<main, closer, initDone, loop>>
      BY <1>3, <3>2 DEF TypeOK, PollMatch, PatternsPolled, NewReturn
    <3> QED BY <1>3, <3>1, <3>2 DEF PollMatch
  <2>2. StartupInv' /\ NoPatternInv'
    BY <1>3 DEF TypeOK, StartupInv, NoPatternInv, PollMatch, PatternsPolled, NewReturn
  <2>3. CountedInv'
    BY <1>3 DEF TypeOK, StartupInv, NoPatternInv, CountedInv, Routine, LoopRoutine, PollMatch, PatternsPolled, NewReturn
  <2>4. ReaderInv'
    BY <1>3 DEF TypeOK, ReaderInv, OneReader, StartupInv, PollMatch, PatternsPolled, NewReturn
  <2> QED BY <2>1, <2>2, <2>3, <2>4
<1>4. CASE TailPath
  <2>1. TypeOK'
    BY <1>4 DEF TypeOK, StartupInv, TailPath, StartStream, Routine
  <2>2. StartupInv' /\ NoPatternInv'
    BY <1>4 DEF TypeOK, StartupInv, NoPatternInv, TailPath, StartStream, Free
  <2>3. CountedInv'
    <3>1. CASE UNCHANGED <<streamVars, wg>>
      BY <1>4, <3>1 DEF TypeOK, CountedInv, Routine, LoopRoutine, TailPath
    <3>2. ASSUME NEW s \in Streams, Free(s), StartStream(s, cur)
          PROVE  CountedInv'
      <4>1. /\ state' = [state EXCEPT ![s] = "running"]
            /\ gen' = [gen EXCEPT ![s] = 0]
            /\ wg' = wg \cup {Routine(s, 0)}
            /\ UNCHANGED <<loop, linesClosed, main, closer>>
        BY <1>4, <3>2 DEF TailPath, StartStream
      <4>2. ~linesClosed
        BY <1>4 DEF TypeOK, StartupInv, NoPatternInv, CountedInv, TailPath,
                    LoopRoutine
      <4> QED BY <4>1, <4>2 DEF TypeOK, CountedInv, Routine, LoopRoutine
    <3> QED BY <1>4, <3>1, <3>2 DEF TailPath
  <2>4. ReaderInv'
    BY <1>4 DEF TypeOK, ReaderInv, OneReader, StartupInv, TailPath, StartStream, Free
  <2> QED BY <2>1, <2>2, <2>3, <2>4
<1>5. CASE PollLogStreams
  <2>1. TypeOK'
    <3> DEFINE finished == {p \in Entries : state[logstreams[p]] = "complete"}
    <3>1. Cardinality(finished) \in Nat
      BY PathsCardinality DEF Entries
    <3>2. /\ logCount' = logCount - Cardinality(finished)
          /\ logstreams' = [p \in Paths |->
                            IF p \in finished THEN NoStream ELSE logstreams[p]]
      BY <1>5 DEF PollLogStreams
    <3> HIDE DEF finished
    <3> QED BY <1>5, <3>1, <3>2 DEF TypeOK, StartupInv, PollLogStreams
  <2>2. StartupInv' /\ NoPatternInv'
    BY <1>5 DEF TypeOK, StartupInv, NoPatternInv, PollLogStreams, Entries
  <2>3. CountedInv'
    BY <1>5 DEF TypeOK, StartupInv, NoPatternInv, CountedInv, Routine, LoopRoutine, PollLogStreams, Entries
  <2>4. ReaderInv'
    BY <1>5 DEF TypeOK, ReaderInv, OneReader, StartupInv, PollLogStreams, Entries
  <2> QED BY <2>1, <2>2, <2>3, <2>4
<1>6. CASE PollBegin
  <2>1. TypeOK'
    BY <1>6 DEF TypeOK, StartupInv, PollBegin
  <2>2. StartupInv' /\ NoPatternInv'
    BY <1>6 DEF TypeOK, StartupInv, NoPatternInv, PollBegin
  <2>3. CountedInv'
    BY <1>6 DEF TypeOK, StartupInv, NoPatternInv, CountedInv, Routine, LoopRoutine, PollBegin
  <2>4. ReaderInv'
    BY <1>6 DEF TypeOK, ReaderInv, OneReader, StartupInv, PollBegin
  <2> QED BY <2>1, <2>2, <2>3, <2>4
<1>7. CASE Gc
  <2>1. TypeOK'
    BY <1>7, PathsCardinality DEF TypeOK, StartupInv, Gc, Entries
  <2>2. StartupInv' /\ NoPatternInv'
    BY <1>7 DEF TypeOK, StartupInv, NoPatternInv, Gc, Entries
  <2>3. CountedInv'
    BY <1>7 DEF TypeOK, StartupInv, NoPatternInv, CountedInv, Routine, LoopRoutine, Gc, Entries
  <2>4. ReaderInv'
    BY <1>7 DEF TypeOK, ReaderInv, OneReader, StartupInv, Gc, Entries
  <2> QED BY <2>1, <2>2, <2>3, <2>4
<1>8. CASE CloserStep
  <2>1. TypeOK'
    BY <1>8 DEF TypeOK, StartupInv, CloserStep
  <2>2. StartupInv' /\ NoPatternInv'
    BY <1>8 DEF TypeOK, StartupInv, NoPatternInv, CloserStep
  <2>3. CountedInv'
    BY <1>8 DEF TypeOK, StartupInv, NoPatternInv, CountedInv, Routine, LoopRoutine, CloserStep
  <2>4. ReaderInv'
    BY <1>8 DEF TypeOK, ReaderInv, OneReader, StartupInv, CloserStep
  <2> QED BY <2>1, <2>2, <2>3, <2>4
<1>9. ASSUME NEW l \in Loops, LoopBegin(l) PROVE IInv'
  <2>1. TypeOK'
    BY <1>9 DEF TypeOK, StartupInv, LoopBegin
  <2>2. StartupInv' /\ NoPatternInv'
    BY <1>9 DEF TypeOK, StartupInv, NoPatternInv, LoopBegin
  <2>3. CountedInv'
    BY <1>9 DEF TypeOK, StartupInv, NoPatternInv, CountedInv, Routine, LoopRoutine, LoopBegin
  <2>4. ReaderInv'
    BY <1>9 DEF TypeOK, ReaderInv, OneReader, StartupInv, LoopBegin
  <2> QED BY <2>1, <2>2, <2>3, <2>4
<1>10. ASSUME NEW l \in Loops, LoopEnd(l) PROVE IInv'
  <2>1. TypeOK'
    BY <1>10 DEF TypeOK, StartupInv, LoopEnd
  <2>2. StartupInv' /\ NoPatternInv'
    BY <1>10 DEF TypeOK, StartupInv, NoPatternInv, LoopEnd
  <2>3. CountedInv'
    BY <1>10 DEF TypeOK, StartupInv, NoPatternInv, CountedInv, Routine, LoopRoutine, LoopEnd
  <2>4. ReaderInv'
    BY <1>10 DEF TypeOK, ReaderInv, OneReader, StartupInv, LoopEnd
  <2> QED BY <2>1, <2>2, <2>3, <2>4
<1>11. ASSUME NEW s \in Streams, Complete(s) PROVE IInv'
  <2>1. TypeOK'
    BY <1>11 DEF TypeOK, StartupInv, Complete
  <2>2. StartupInv' /\ NoPatternInv'
    BY <1>11 DEF TypeOK, StartupInv, NoPatternInv, Complete
  <2>3. CountedInv'
    BY <1>11 DEF TypeOK, StartupInv, NoPatternInv, CountedInv, Routine, LoopRoutine, Complete
  <2>4. ReaderInv'
    BY <1>11 DEF TypeOK, ReaderInv, OneReader, StartupInv, Complete
  <2> QED BY <2>1, <2>2, <2>3, <2>4
<1>12. ASSUME NEW s \in Streams, Handover(s) PROVE IInv'
  <2>1. TypeOK'
    BY <1>12 DEF TypeOK, StartupInv, Handover, Routine
  <2>2. StartupInv' /\ NoPatternInv'
    BY <1>12 DEF TypeOK, StartupInv, NoPatternInv, Handover
  <2>3. CountedInv'
    BY <1>12 DEF TypeOK, StartupInv, NoPatternInv, CountedInv, Routine, LoopRoutine, Handover
  <2>4. ReaderInv'
    BY <1>12 DEF TypeOK, ReaderInv, OneReader, StartupInv, Handover
  <2> QED BY <2>1, <2>2, <2>3, <2>4
<1>13. ASSUME NEW s \in Streams, Lose(s) PROVE IInv'
  <2>1. TypeOK'
    BY <1>13 DEF TypeOK, StartupInv, Lose
  <2>2. StartupInv' /\ NoPatternInv'
    BY <1>13 DEF TypeOK, StartupInv, NoPatternInv, Lose
  <2>3. CountedInv'
    BY <1>13 DEF TypeOK, StartupInv, NoPatternInv, CountedInv, Routine, LoopRoutine, Lose
  <2>4. ReaderInv'
    BY <1>13 DEF TypeOK, ReaderInv, OneReader, StartupInv, Lose
  <2> QED BY <2>1, <2>2, <2>3, <2>4
<1>14. ASSUME NEW s \in Streams, RoutineDone(s) PROVE IInv'
  <2>1. TypeOK'
    BY <1>14 DEF TypeOK, StartupInv, RoutineDone
  <2>2. StartupInv' /\ NoPatternInv'
    BY <1>14 DEF TypeOK, StartupInv, NoPatternInv, RoutineDone
  <2>3. CountedInv'
    BY <1>14 DEF TypeOK, StartupInv, NoPatternInv, CountedInv, Routine, LoopRoutine, RoutineDone
  <2>4. ReaderInv'
    BY <1>14 DEF TypeOK, ReaderInv, OneReader, StartupInv, RoutineDone
  <2> QED BY <2>1, <2>2, <2>3, <2>4
<1>15. CASE Cancel
  <2>1. TypeOK'
    BY <1>15 DEF TypeOK, StartupInv, Cancel
  <2>2. StartupInv' /\ NoPatternInv'
    BY <1>15 DEF TypeOK, StartupInv, NoPatternInv, Cancel
  <2>3. CountedInv'
    BY <1>15 DEF TypeOK, StartupInv, NoPatternInv, CountedInv, Routine, LoopRoutine, Cancel
  <2>4. ReaderInv'
    BY <1>15 DEF TypeOK, ReaderInv, OneReader, StartupInv, Cancel
  <2> QED BY <2>1, <2>2, <2>3, <2>4
<1>16. CASE FileChange
  <2>1. TypeOK'
    BY <1>16 DEF TypeOK, StartupInv, FileChange
  <2>2. StartupInv' /\ NoPatternInv'
    BY <1>16 DEF TypeOK, StartupInv, NoPatternInv, FileChange
  <2>3. CountedInv'
    BY <1>16 DEF TypeOK, StartupInv, NoPatternInv, CountedInv, Routine, LoopRoutine, FileChange
  <2>4. ReaderInv'
    BY <1>16 DEF TypeOK, ReaderInv, OneReader, StartupInv, FileChange
  <2> QED BY <2>1, <2>2, <2>3, <2>4
<1>17. CASE UNCHANGED vars
  <2>1. TypeOK'
    BY <1>17 DEF TypeOK, StartupInv, vars
  <2>2. StartupInv' /\ NoPatternInv'
    BY <1>17 DEF TypeOK, StartupInv, NoPatternInv, vars
  <2>3. CountedInv'
    BY <1>17 DEF TypeOK, StartupInv, NoPatternInv, CountedInv, Routine, LoopRoutine, vars
  <2>4. ReaderInv'
    BY <1>17 DEF TypeOK, ReaderInv, OneReader, StartupInv, vars
  <2> QED BY <2>1, <2>2, <2>3, <2>4
<1> QED
  BY <1>1, <1>2, <1>3, <1>4, <1>5, <1>6, <1>7, <1>8, <1>9, <1>10, <1>11, <1>12, <1>13, <1>14, <1>15, <1>16, <1>17
  DEF Next, PollStep

-----------------------------------------------------------------------------
(* The inductive invariant is an invariant of the Tailer.                  *)
THEOREM TailerIInv == Spec => []IInv
<1>1. Init => IInv
  BY InitIInv
<1>2. IInv /\ [Next]_vars => IInv'
  BY NextIInv
<1> QED BY <1>1, <1>2, PTL DEF Spec

(* Type correctness: among it that a poll is in progress exactly while New *)
(* or the poll loop is in it.                                              *)
THEOREM TailerTypeOK == Spec => []TypeOK
<1>1. IInv => TypeOK
  BY DEF IInv
<1> QED BY <1>1, TailerIInv, PTL

(* No stream sends on the closed channel (tail.go:159-174): if it is       *)
(* closed, either there is no pattern and no reader was ever made, or the  *)
(* WaitGroup is empty and a reader would be counted in it.                 *)
THEOREM TailerNoSendOnClosed == Spec => []NoSendOnClosed
<1>1. IInv => NoSendOnClosed
  BY DEF IInv, NoPatternInv, CountedInv, NoSendOnClosed
<1> QED BY <1>1, TailerIInv, PTL

(* Each pathname has at most one reader, the one in the map (TailPath,     *)
(* tail.go:239-262).                                                       *)
THEOREM TailerOneReader == Spec => []OneReader
<1>1. IInv => OneReader
  BY DEF IInv, ReaderInv
<1> QED BY <1>1, TailerIInv, PTL

(* Once the WaitGroup is empty under the closer's Wait, it stays empty:    *)
(* only New, before the closer exists, a poll inside the counted poll      *)
(* loop, and a counted reader add to it.                                   *)
LEMMA StepAddedWhileCounted ==
  IInv /\ [Next]_vars
    => (closer \in {"wait", "gone"} /\ wg = {} => wg' = {})
<1> SUFFICES ASSUME IInv, [Next]_vars, closer \in {"wait", "gone"}, wg = {}
             PROVE  wg' = {}
  OBVIOUS
<1>1. main = "returned" /\ loop["poll"] # "busy" /\ poll = "idle"
  BY DEF IInv, TypeOK, StartupInv, CountedInv, Loops
<1>2. \A s \in Streams : state[s] # "running"
  BY DEF IInv, CountedInv
<1> USE DEF envVars, pollVars, streamVars, lifeVars, budgetVars
<1>3. CASE NewOptions \/ PollStep \/ PollBegin \/ Gc \/ CloserStep
  BY <1>1, <1>3 DEF NewOptions, PollStep, PollGlob, PollMatch, TailPath,
                    PollLogStreams, PollBegin, Gc, CloserStep
<1>4. ASSUME NEW l \in Loops, LoopBegin(l) \/ LoopEnd(l) PROVE wg' = {}
  BY <1>4 DEF LoopBegin, LoopEnd
<1>5. ASSUME NEW s \in Streams,
             Complete(s) \/ Handover(s) \/ Lose(s) \/ RoutineDone(s)
      PROVE  wg' = {}
  BY <1>2, <1>5 DEF Complete, Handover, Lose, RoutineDone
<1>6. CASE Cancel \/ FileChange \/ UNCHANGED vars
  BY <1>6 DEF Cancel, FileChange, vars
<1> QED BY <1>3, <1>4, <1>5, <1>6 DEF Next

(* No goroutine escapes the closer's Wait.                                 *)
THEOREM TailerAddedWhileCounted == Spec => AddedWhileCounted
<1>1. IInv /\ [Next]_vars
        => [(closer \in {"wait", "gone"} /\ wg = {}) => (wg' = {})]_vars
  BY StepAddedWhileCounted
<1> QED BY <1>1, TailerIInv, PTL DEF Spec, AddedWhileCounted

(* The map changes in TailPath and in PollLogStreams only, and log_count   *)
(* follows it but for the replacements that failed.                        *)
LEMMA StepLogCount == IInv /\ LogCountDrift /\ [Next]_vars => LogCountDrift'
<1> SUFFICES ASSUME IInv, LogCountDrift, [Next]_vars PROVE LogCountDrift'
  OBVIOUS
<1>a. logstreams \in [Paths -> Streams \cup {NoStream}] /\ logCount \in Int /\ drift \in Nat
  BY DEF IInv, TypeOK
<1>b. IsFiniteSet(Entries) /\ Cardinality(Entries) \in Nat
  <2>1. IsFiniteSet(Paths) /\ Entries \subseteq Paths
    BY TailerAssumption, FS_Interval DEF Paths, Entries
  <2>2. IsFiniteSet(Entries)
    BY <2>1, FS_Subset
  <2> QED BY <2>2, FS_CardinalityType
<1> USE DEF envVars, pollVars, streamVars, lifeVars, budgetVars
<1>1. CASE UNCHANGED <<logstreams, logCount, drift>>
  <2>1. Entries' = Entries
    BY <1>1 DEF Entries
  <2> QED BY <1>1, <2>1 DEF LogCountDrift
<1>2. CASE TailPath
  <2>1. poll = "tail" /\ cur \in Paths
    BY <1>2 DEF TailPath, IInv, TypeOK
  <2> DEFINE again == logstreams[cur] # NoStream
  <2>2. again <=> cur \in Entries
    BY <2>1 DEF Entries
  <2>3. ASSUME NEW s \in Streams, logstreams' = [logstreams EXCEPT ![cur] = s],
               logCount' = IF again THEN logCount ELSE logCount + 1, drift' = drift
        PROVE  LogCountDrift'
    <3>1. Entries' = Entries \cup {cur}
      BY <1>a, <2>1, <2>3, TailerAssumption DEF Entries
    <3>2. Cardinality(Entries') = IF again THEN Cardinality(Entries) ELSE Cardinality(Entries) + 1
      BY <1>b, <2>2, <3>1, FS_AddElement
    <3> HIDE DEF again
    <3>3. CASE again
      BY <2>3, <3>2, <3>3 DEF LogCountDrift
    <3>4. CASE ~again
      BY <1>a, <1>b, <2>3, <3>2, <3>4 DEF LogCountDrift
    <3> QED BY <3>3, <3>4
  <2>4. ASSUME logstreams' = logstreams, logCount' = IF again THEN logCount - 1 ELSE logCount,
               drift' = IF again THEN drift + 1 ELSE drift
        PROVE  LogCountDrift'
    <3>1. Entries' = Entries
      BY <2>4 DEF Entries
    <3> HIDE DEF again
    <3> QED BY <1>a, <1>b, <2>4, <3>1 DEF LogCountDrift
  <2> QED BY <1>1, <1>2, <2>3, <2>4 DEF TailPath, StartStream
<1>3. CASE PollLogStreams
  <2> DEFINE finished == {p \in Entries : state[logstreams[p]] = "complete"}
  <2>1. /\ logstreams' = [p \in Paths |-> IF p \in finished THEN NoStream ELSE logstreams[p]]
        /\ logCount' = logCount - Cardinality(finished) /\ drift' = drift
        /\ finished \subseteq Entries
    BY <1>3 DEF PollLogStreams
  <2> HIDE DEF finished
  <2>2. Entries' = Entries \ finished
    BY <2>1 DEF Entries
  <2>3. IsFiniteSet(finished) /\ Cardinality(finished) \in Nat
    BY <1>b, <2>1, FS_Subset, FS_CardinalityType
  <2>4. Entries \cap finished = finished
    BY <2>1
  <2>5. Cardinality(Entries') = Cardinality(Entries) - Cardinality(finished)
    BY <1>b, <2>2, <2>4, FS_Difference
  <2> QED BY <1>a, <1>b, <2>1, <2>3, <2>5 DEF LogCountDrift
<1>4. CASE NewOptions \/ PollGlob \/ PollMatch \/ PollBegin \/ Gc \/ CloserStep
  BY <1>1, <1>4 DEF NewOptions, PollGlob, PollMatch, PollBegin, Gc, CloserStep
<1>5. CASE Cancel \/ FileChange \/ UNCHANGED vars
  BY <1>1, <1>5 DEF Cancel, FileChange, vars
<1>6. ASSUME NEW l \in Loops, LoopBegin(l) \/ LoopEnd(l) PROVE LogCountDrift'
  BY <1>1, <1>6 DEF LoopBegin, LoopEnd
<1>7. ASSUME NEW s \in Streams,
             Complete(s) \/ Handover(s) \/ Lose(s) \/ RoutineDone(s)
      PROVE  LogCountDrift'
  BY <1>1, <1>7 DEF Complete, Handover, Lose, RoutineDone
<1> QED BY <1>2, <1>3, <1>4, <1>5, <1>6, <1>7 DEF Next, PollStep

(* log_count is the number of entries of the map, less the replacements of *)
(* complete streams that failed (tail.go:239-262, 364-379).                *)
THEOREM TailerLogCountDrift == Spec => []LogCountDrift
<1>1. Init => LogCountDrift
  <2> SUFFICES ASSUME Init PROVE LogCountDrift
    OBVIOUS
  <2>1. Entries = {}
    BY DEF Init, Entries
  <2>2. Cardinality(Entries) = 0
    BY <2>1, FS_EmptySet
  <2> QED BY <2>2 DEF Init, LogCountDrift
<1>2. IInv /\ LogCountDrift /\ [Next]_vars => LogCountDrift'
  BY StepLogCount
<1> QED BY <1>1, <1>2, TailerIInv, PTL DEF Spec
=============================================================================
