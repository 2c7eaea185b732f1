----------------------------- MODULE LogStream -----------------------------
(***************************************************************************)
(* What the Tailer relies on in a LogStream (the interface in              *)
(* internal/tailer/logstream/logstream.go), whatever it reads: the         *)
(* contract that fileStream implements, and that the Tailer module builds  *)
(* on.  Lines are sent by goroutines counted in the Tailer's WaitGroup,    *)
(* one after the other and each handing over to its successor before it is *)
(* done; a stream that says it is complete never sends again.              *)
(***************************************************************************)
EXTENDS Naturals, Sequences

VARIABLES
  routines,   (* goroutines added to the WaitGroup and not done            *)
  sent,       (* the lines sent                                            *)
  complete,   (* IsComplete()                                              *)
  stop        (* Stop() has been called                                    *)

vars == <<routines, sent, complete, stop>>

Init ==
  /\ routines = 0
  /\ sent = <<>>
  /\ complete = FALSE
  /\ stop = FALSE

(* One more line of any content is at the end of sent.                     *)
OneMoreLine ==
  /\ Len(sent') = Len(sent) + 1
  /\ SubSeq(sent', 1, Len(sent)) = sent

(* New: the first goroutine is counted before it runs.                     *)
Start ==
  /\ routines = 0 /\ sent = <<>> /\ ~complete
  /\ routines' = 1
  /\ UNCHANGED <<sent, complete, stop>>

Send ==
  /\ routines > 0 /\ ~complete
  /\ OneMoreLine
  /\ UNCHANGED <<routines, complete, stop>>

(* A goroutine starts its successor, which is counted before it is done.   *)
Handover ==
  /\ routines > 0 /\ ~complete
  /\ routines' = routines + 1
  /\ UNCHANGED <<sent, complete, stop>>

(* The stream becomes complete, with a last line or without.               *)
Finish ==
  /\ routines > 0 /\ ~complete
  /\ complete' = TRUE
  /\ OneMoreLine \/ UNCHANGED sent
  /\ UNCHANGED <<routines, stop>>

Done ==
  /\ routines > 0
  /\ routines' = routines - 1
  /\ UNCHANGED <<sent, complete, stop>>

Stop ==
  /\ stop' = TRUE
  /\ UNCHANGED <<routines, sent, complete>>

Next == Start \/ Send \/ Handover \/ Finish \/ Done \/ Stop

Spec == Init /\ [][Next]_vars
=============================================================================
