----------------------------- MODULE PipeStream -----------------------------
(***************************************************************************)
(* internal/tailer/logstream/pipestream.go: reads a named pipe until every *)
(* writer has closed it, or until cancelled.  Stop does nothing.           *)
(***************************************************************************)
EXTENDS ByteStream

\* The goroutine is not counted.
BadPipeOpen ==
  /\ pc = "open"
  /\ pc' = IF exists THEN "read" ELSE "failed"
  /\ UNCHANGED <<buf, partial, completed, wg, lines, errors, kernelVars, askedVars, ghostVars>>

PipeOpen ==
  /\ pc = "open"
  /\ \/ exists /\ pc' = "read" /\ wg' = wg + 1 /\ UNCHANGED errors
     \/ ~exists /\ pc' = "failed" /\ UNCHANGED <<wg, errors>>
     \/ Failure /\ pc' = "failed" /\ UNCHANGED wg
  /\ UNCHANGED <<buf, partial, completed, lines, kernelVars, askedVars, ghostVars>>

\* A pipe that nobody has open for writing is at its end, and so is one that
\* nobody has opened yet.
PipeRead ==
  /\ pc = "read"
  /\ \/ /\ queue # <<>>
        /\ LET n == IF Len(queue) < BufSize THEN Len(queue) ELSE BufSize
           IN  Take(SubSeq(queue, 1, n)) /\ queue' = SubSeq(queue, n + 1, Len(queue))
        /\ UNCHANGED <<completed, left, errors>>
     \/ /\ queue = <<>> /\ clients > 0
        /\ pc' = "sleep"
        /\ UNCHANGED <<buf, completed, taken, cut, left, queue, errors>>
     \/ /\ queue = <<>> /\ clients = 0
        /\ Leave("eof")
        /\ UNCHANGED <<buf, taken, cut, queue, errors>>
     \/ /\ Failure /\ Leave("error")
        /\ UNCHANGED <<buf, taken, cut, queue>>
  /\ UNCHANGED <<partial, wg, lines, clients, exists, askedVars, written, lost, due>>

\* ctx is not looked at.
BadPipeSleep ==
  /\ pc = "sleep" /\ pc' = "wait"
  /\ UNCHANGED <<partial, lines, completed, left, buf, wg, errors, kernelVars, askedVars,
                 written, taken, cut, lost, due>>

PipeSleep ==
  /\ pc = "sleep"
  /\ \/ cancelled /\ FlushPartial /\ Leave("cancel")
     \/ ~cancelled /\ pc' = "wait" /\ UNCHANGED <<partial, lines, completed, left>>
  /\ UNCHANGED <<buf, wg, errors, kernelVars, askedVars, written, taken, cut, lost, due>>

PipeRoutine == PipeOpen \/ PipeRead \/ PipeSleep \/ Wait
=============================================================================
