------------------------------ MODULE Streams ------------------------------
(***************************************************************************)
(* The streams of logstream.go that are not files: what New makes of a     *)
(* pathname, the goroutine it starts, and the clients of that.             *)
(***************************************************************************)
EXTENDS PipeStream, SocketStream

Routine ==
  \/ New \/ DecodeAndSend \/ Close \/ WgDone
  \/ kind = "pipe" /\ PipeRoutine
  \/ kind = "socket" /\ SocketRoutine

Next == Routine \/ Environment
Spec == Init /\ [][Next]_vars

\* The goroutine is scheduled, its reads time out, it is woken, and the
\* VM takes the lines.
FairSpec == Spec /\ WF_vars(Routine)

-----------------------------------------------------------------------------
(* Properties. *)

\* The bytes i and i + 1 are one rune, which no read has cut.
Whole(b, i) == i \in 1 .. (Len(b) - 1) /\ i \notin cut /\ b[i] = "L" /\ b[i + 1] = "C"

\* What the byte i of b adds to its text: the second byte of a rune adds nothing,
\* and a byte that is no part of a rune, or of one that a read has cut, an error.
Rune(b, i) ==
  CASE Whole(b, i - 1)     -> <<>>
    [] Whole(b, i)         -> <<"LC">>
    [] b[i] \in {"a", "n"} -> <<b[i]>>
    [] OTHER               -> <<"?">>

Text(b) == FlattenSeq([i \in DOMAIN b |-> Rune(b, i)])
Sent == FlattenSeq([i \in DOMAIN lines |-> Append(lines[i], "n")])

\* What the lines and the accumulator say is what was read (decode.go): no rune
\* is lost, repeated or changed, whatever bytes there are, but for one that ends
\* in another read than it began in, which becomes two errors.  A last line
\* without a newline is sent by an exit for a stop or a cancellation, and lost by
\* the others.
TextKept ==
  pc # "decode" =>
    \/ Sent \o partial = Text(taken)
    \/ left \in {"stop", "cancel"} /\ partial = <<>> /\ Sent = Append(Text(taken), "n")

\* A stream that ends by itself or is stopped gracefully has read what was
\* written before: to a pipe, before the last writer closed it; to a socket,
\* before Stop was called while the stream was reading or waiting
\* (socketstream.go:147), unless the stream is cancelled as well.
Drained ==
  left = "eof" \/ (left = "stop" /\ ~cancelled) => Len(taken) + lost >= due

\* The contract of logstream.go, whatever is read.
L == INSTANCE LogStream WITH routines <- wg, sent <- lines, complete <- completed, stop <- stopped
ImplementsLogStream == L!Spec

\* A cancelled stream ends, and its goroutine is no longer waited for.
CancelObeyed == cancelled ~> pc \in {"done", "failed"}
=============================================================================
