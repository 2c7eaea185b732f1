---------------------------- MODULE SocketStream ----------------------------
(***************************************************************************)
(* internal/tailer/logstream/socketstream.go: listens on a Unix datagram   *)
(* socket until stopped or cancelled.  A read takes one datagram and drops *)
(* what the buffer cannot hold.                                            *)
(***************************************************************************)
EXTENDS ByteStream

\* bind fails if the pathname is there, as New has just found it to be.
SocketOpen ==
  /\ pc = "open"
  /\ \/ ~exists /\ exists' = TRUE /\ pc' = "read" /\ wg' = wg + 1 /\ UNCHANGED errors
     \/ exists /\ pc' = "failed" /\ UNCHANGED <<exists, wg, errors>>
     \/ Failure /\ pc' = "failed" /\ UNCHANGED <<exists, wg>>
  /\ UNCHANGED <<buf, partial, completed, lines, queue, clients, askedVars, ghostVars>>

\* A datagram socket has no end.
SocketRead ==
  /\ pc = "read"
  /\ \/ /\ queue # <<>>
        /\ LET b == Head(queue)
               n == IF Len(b) < BufSize THEN Len(b) ELSE BufSize
           IN  Take(SubSeq(b, 1, n)) /\ lost' = lost + Len(b) - n
        /\ queue' = Tail(queue)
        /\ UNCHANGED <<left, errors>>
     \/ /\ queue = <<>>
        /\ pc' = "sleep"
        /\ UNCHANGED <<buf, taken, cut, lost, left, queue, errors>>
     \/ /\ Failure
        /\ pc' = "exit" /\ left' = "error"
        /\ UNCHANGED <<buf, taken, cut, lost, queue>>
  /\ UNCHANGED <<partial, completed, wg, lines, clients, exists, askedVars, written, due>>

\* Leaves as soon as stopped, without another read.
BadSocketWait ==
  /\ pc = "wait"
  /\ \/ stopped /\ FlushPartial /\ Leave("stop")
     \/ ~stopped /\ pc' = "read" /\ UNCHANGED <<partial, lines, completed, left>>
  /\ UNCHANGED <<buf, wg, errors, kernelVars, askedVars, written, taken, cut, lost, due>>

SocketWait == Wait

\* A stop and a cancellation lead to the same exit; either may be seen first.
SocketSleep ==
  /\ pc = "sleep"
  /\ \/ stopped /\ FlushPartial /\ Leave("stop")
     \/ cancelled /\ FlushPartial /\ Leave("cancel")
     \/ /\ ~stopped /\ ~cancelled
        /\ pc' = "wait" /\ UNCHANGED <<partial, lines, completed, left>>
  /\ UNCHANGED <<buf, wg, errors, kernelVars, askedVars, written, taken, cut, lost, due>>

SocketRoutine == SocketOpen \/ SocketRead \/ SocketSleep \/ SocketWait
=============================================================================
