----------------------------- MODULE ByteStream -----------------------------
(***************************************************************************)
(* What pipeStream and socketStream share (internal/tailer/logstream): the *)
(* state of a stream that is not a file, decode.go on bytes that may be    *)
(* parts of a rune, and the clients of the stream.                         *)
(*                                                                         *)
(* A byte is "a", "n" (a newline), or "L" or "C", the first and the second *)
(* byte of a two-byte rune.  A rune is "a", "n", "LC" or "?", which stands *)
(* for utf8.RuneError.                                                     *)
(*                                                                         *)
(* pc says where the reading goroutine is:                                 *)
(*   new     in logstream.New, before Stat                                 *)
(*   open    in stream(), before OpenFile or ListenUnixgram                *)
(*   read    before Read                                                   *)
(*   decode  in decodeAndSend with the bytes buf left                      *)
(*   sleep   at label Sleep: a read timed out, or ctx is done              *)
(*   wait    in the second select                                          *)
(*   exit    has left the loop: the deferred Close is pending              *)
(*   closed  wg.Done is pending                                            *)
(*   done    has returned                                                  *)
(*   failed  New has returned an error: there is no stream                 *)
(***************************************************************************)
EXTENDS Naturals, Sequences, SequencesExt

CONSTANTS
  Kinds,       (* of file that has the pathname: "pipe", "socket", "other" *)
  Texts,       (* what a client may write at once: sequences of bytes      *)
  BufSize,     (* defaultReadBufferSize                                    *)
  MaxBytes,    (* bound on the bytes that are written                      *)
  MaxQueue,    (* bound on what the kernel holds: bytes, or datagrams      *)
  MaxErrors    (* bound on the system calls that fail                      *)

ASSUME ByteAssumption ==
  /\ Texts \subseteq Seq({"a", "n", "L", "C"})
  /\ BufSize \in Nat \ {0}
  /\ MaxBytes \in Nat /\ MaxQueue \in Nat /\ MaxErrors \in Nat

VARIABLES
  kind,        (* of the file that has the pathname                        *)
  pc,
  buf,         (* the bytes read and not decoded yet                       *)
  partial,     (* the accumulator: runes since the last newline            *)
  stopped,     (* Stop has been called: stopChan of a socket is closed     *)
  cancelled,   (* ctx is done                                              *)
  completed,   (* ps.completed, ss.completed                               *)
  wg,          (* goroutines added to the WaitGroup and not done           *)
  lines,       (* the lines sent, each the sequence of its runes           *)
  queue,       (* what the kernel holds: bytes, or datagrams               *)
  clients,     (* descriptors open for writing                             *)
  exists,      (* the pathname is there                                    *)
  errors       (* system calls that have failed                            *)

(* History variables: no action is guarded by them.                        *)
VARIABLES
  written,     (* the bytes that clients have written                      *)
  taken,       (* the bytes that have been decoded or are in buf           *)
  cut,         (* the places in taken at which a read ended inside a rune  *)
  lost,        (* bytes of datagrams longer than the buffer                *)
  due,         (* what had been written when the end was asked for         *)
  left         (* why the goroutine has left the loop, or "none"          *)

streamVars == <<pc, buf, partial, completed, wg, lines, errors>>
kernelVars == <<queue, clients, exists>>
askedVars  == <<kind, stopped, cancelled>>
ghostVars  == <<written, taken, cut, lost, due, left>>
vars == <<streamVars, kernelVars, askedVars, ghostVars>>

Init ==
  /\ kind \in Kinds /\ pc = "new"
  /\ buf = <<>> /\ partial = <<>> /\ lines = <<>>
  /\ stopped = FALSE /\ cancelled = FALSE /\ completed = FALSE /\ wg = 0
  /\ queue = <<>> /\ clients = 0 /\ exists \in BOOLEAN /\ errors = 0
  /\ written = <<>> /\ taken = <<>> /\ cut = {} /\ lost = 0 /\ due = 0 /\ left = "none"

-----------------------------------------------------------------------------
(* decode.go *)

\* utf8.DecodeRune: the first rune and its width.
DecodeRune(b) ==
  CASE Len(b) > 1 /\ b[1] = "L" /\ b[2] = "C" -> <<"LC", 2>>
    [] b[1] \in {"a", "n"}                    -> <<b[1], 1>>
    [] OTHER                                  -> <<"?", 1>>

\* partial is not reset.
BadSendLine == lines' = Append(lines, partial) /\ UNCHANGED partial

SendLine == lines' = Append(lines, partial) /\ partial' = <<>>

FlushPartial == IF partial # <<>> THEN SendLine ELSE UNCHANGED <<lines, partial>>

\* One rune; with the last one Read's error is tested, which is nil if it
\* returned bytes, and then ctx.
DecodeAndSend ==
  /\ pc = "decode"
  /\ LET r    == DecodeRune(buf)
         rest == SubSeq(buf, r[2] + 1, Len(buf))
     IN  /\ IF r[1] = "n" THEN SendLine ELSE partial' = Append(partial, r[1]) /\ UNCHANGED lines
         /\ buf' = rest
         /\ pc' = CASE rest # <<>>               -> "decode"
                    [] rest = <<>> /\ ~cancelled -> "read"
                    [] OTHER                     -> "sleep"
  /\ UNCHANGED <<completed, wg, errors, kernelVars, askedVars, ghostVars>>

\* Read has returned the bytes b, of which there are none in an empty datagram.
Take(b) ==
  /\ buf' = b
  /\ taken' = taken \o b
  /\ cut' = IF b # <<>> /\ Last(b) = "L" THEN cut \cup {Len(taken) + Len(b)} ELSE cut
  /\ pc' = CASE b # <<>>               -> "decode"
             [] b = <<>> /\ ~cancelled -> "read"
             [] OTHER                  -> "sleep"

-----------------------------------------------------------------------------
(* logstream.New and the end of the goroutine. *)

\* A system call has failed.
Failure == errors < MaxErrors /\ errors' = errors + 1

New ==
  /\ pc = "new"
  /\ \/ /\ exists /\ kind \in {"pipe", "socket"}
        /\ pc' = "open" /\ UNCHANGED errors
     \/ /\ ~exists \/ kind \notin {"pipe", "socket"}
        /\ pc' = "failed" /\ UNCHANGED errors
     \/ Failure /\ pc' = "failed"
  /\ UNCHANGED <<buf, partial, completed, wg, lines, kernelVars, askedVars, ghostVars>>

\* The stream says it is complete before the file is closed.
Leave(why) ==
  /\ completed' = TRUE
  /\ left' = why
  /\ pc' = "exit"

\* The deferred functions.  What the kernel held is gone.
Close ==
  /\ pc = "exit"
  /\ pc' = "closed"
  /\ completed' = TRUE
  /\ queue' = <<>>
  /\ UNCHANGED <<buf, partial, wg, lines, errors, clients, exists, askedVars, ghostVars>>
WgDone ==
  /\ pc = "closed"
  /\ pc' = "done"
  /\ wg' = wg - 1
  /\ UNCHANGED <<buf, partial, completed, lines, errors, kernelVars, askedVars, ghostVars>>

\* The second select: a wakeup, or one more read before leaving.
Wait ==
  /\ pc = "wait"
  /\ pc' = "read"
  /\ UNCHANGED <<buf, partial, completed, wg, lines, errors, kernelVars, askedVars, ghostVars>>

-----------------------------------------------------------------------------
(* The Tailer, and the file system. *)

Cancel ==
  /\ ~cancelled /\ cancelled' = TRUE
  /\ UNCHANGED <<streamVars, kernelVars, kind, stopped, ghostVars>>

\* Only a stream that New has returned.
Stop ==
  /\ ~stopped /\ stopped' = TRUE
  /\ pc \notin {"new", "open", "failed"}
  /\ due' = IF kind = "socket" /\ pc \in {"read", "decode", "wait"} THEN Len(written) ELSE due
  /\ UNCHANGED <<streamVars, kernelVars, kind, cancelled, written, taken, cut, lost, left>>

\* The goroutine reads from the file.
Reading == pc \notin {"new", "open", "closed", "done", "failed"}

Write(text) ==
  /\ Reading /\ clients > 0
  /\ Len(written) + Len(text) <= MaxBytes /\ Len(queue) < MaxQueue
  /\ written' = written \o text
  /\ queue' = IF kind = "pipe" THEN queue \o text ELSE Append(queue, text)
  /\ UNCHANGED <<streamVars, clients, exists, askedVars, taken, cut, lost, due, left>>

\* A client that opens a pipe waits for a reader.
Connect ==
  /\ Reading /\ exists /\ clients = 0 /\ Len(written) < MaxBytes
  /\ clients' = 1
  /\ UNCHANGED <<streamVars, queue, exists, askedVars, ghostVars>>

Disconnect ==
  /\ clients > 0 /\ clients' = clients - 1
  /\ due' = IF kind = "pipe" /\ left = "none" THEN Len(written) ELSE due
  /\ UNCHANGED <<streamVars, queue, exists, askedVars, written, taken, cut, lost, left>>

Unlink ==
  /\ exists /\ exists' = FALSE
  /\ UNCHANGED <<streamVars, queue, clients, askedVars, ghostVars>>

Environment ==
  \/ Cancel \/ Stop \/ Connect \/ Disconnect \/ Unlink
  \/ \E text \in Texts : Write(text)
=============================================================================
