----------------------------- MODULE FileStream -----------------------------
(***************************************************************************)
(* internal/tailer/logstream/filestream.go: one fileStream, the goroutine  *)
(* that reads a regular file, through appends, rotation, removal,          *)
(* truncation, Stop and cancellation; with decode.go, which cuts the bytes *)
(* into lines.                                                             *)
(*                                                                         *)
(* pc says where the reading goroutine is:                                 *)
(*   new     in logstream.New, before Stat                                 *)
(*   open    in stream(), before OpenFile (first goroutine)                *)
(*   read    at the top of the loop, before fd.Read                        *)
(*   decode  in decodeAndSend with the bytes [lo, hi) left to decode       *)
(*   stat    at EOF, before os.Stat                                        *)
(*   reopen  another file has the name: before the inner fs.stream()       *)
(*   trunc   the file has shrunk: before the flush and the seek to 0       *)
(*   sleep   at label Sleep, before the first select                       *)
(*   wait    in the second select                                          *)
(*   flush   leaving: before the last sendLine and completed = true        *)
(*   done    the goroutine has returned (deferred calls may be pending)    *)
(*   failed  New has returned an error: there is no stream                 *)
(* The channel `lines` is unbuffered: a send happens when the consumer     *)
(* takes the line, and the model records it then.                          *)
(***************************************************************************)
EXTENDS RotatedFile, Sequences

CONSTANTS
  BufSize,     (* defaultReadBufferSize                                    *)
  FromStart    (* streamFromStart: TRUE in one-shot mode                   *)

ASSUME StreamAssumption ==
  /\ BufSize \in Nat \ {0}
  /\ FromStart \in BOOLEAN

VARIABLES
  pc,
  fi,          (* the file that Stat saw (FileInfo)                        *)
  fd,          (* the file that OpenFile opened                            *)
  off,         (* offset of fd                                             *)
  lo, hi,      (* the bytes read and not decoded yet                       *)
  partial,     (* the accumulator: body bytes since the last newline       *)
  newfi,       (* the file the Stat at EOF saw                             *)
  eof,         (* err == io.EOF                                            *)
  stopped,     (* stopChan is closed                                       *)
  cancelled,   (* ctx is done                                              *)
  completed,   (* fs.completed                                             *)
  wg,          (* goroutines added to the WaitGroup and not done           *)
  lines        (* the lines sent, each the sequence of its bytes           *)

(* History variables: no action is guarded by them.                        *)
VARIABLES
  misopened,   (* some OpenFile opened another file than Stat had seen     *)
  truncPending,(* fd was truncated and the stream has not detected it      *)
  from,        (* the byte at which reading of fd began                    *)
  due          (* a graceful stop must read all bytes below this           *)

streamVars == <<pc, fi, fd, off, lo, hi, partial, newfi, eof, stopped,
                cancelled, completed, wg, lines>>
ghostVars == <<misopened, truncPending, from, due>>
vars == <<fsVars, streamVars, ghostVars>>

Running == {"read", "decode", "stat", "reopen", "trunc", "sleep", "wait",
            "flush"}
PCs == {"new", "open", "done", "failed"} \cup Running

Init ==
  /\ FsInit
  /\ pc = "new"
  /\ fi = NoInode /\ fd = NoInode /\ newfi = NoInode
  /\ off = 0 /\ lo = 0 /\ hi = 0
  /\ partial = <<>> /\ lines = <<>>
  /\ eof = FALSE /\ stopped = FALSE /\ cancelled = FALSE
  /\ completed = FALSE
  /\ wg = 0
  /\ misopened = FALSE /\ truncPending = FALSE
  /\ from = 0 /\ due = 0

(* Defects that the properties must catch: each Bad operator stands for    *)
(* the definition of the same name below.                                  *)
BadSendLine ==                              \* no partial.Reset()
  /\ lines' = Append(lines, partial)
  /\ UNCHANGED partial

-----------------------------------------------------------------------------
(* sendLine: hand the accumulator to the consumer and reset it.            *)
SendLine ==
  /\ lines' = Append(lines, partial)
  /\ partial' = <<>>

BadFlushPartial ==                          \* reset without the send
  /\ partial' = <<>>
  /\ UNCHANGED lines

(* The exits of the goroutine and the truncation path send only if the     *)
(* accumulator holds something.                                            *)
FlushPartial ==
  IF partial # <<>> THEN SendLine ELSE UNCHANGED <<lines, partial>>

(* logstream.New: Stat the pathname; newFileStream follows.                *)
New ==
  /\ pc = "new"
  /\ \/ /\ path # NoInode
        /\ fi' = path
        /\ pc' = "open"
        /\ UNCHANGED fsVars
     \/ /\ \/ path = NoInode /\ UNCHANGED fsVars
           \/ SyscallFails
        /\ pc' = "failed"
        /\ UNCHANGED fi
  /\ UNCHANGED <<fd, off, lo, hi, partial, newfi, eof, stopped, cancelled,
                 completed, wg, lines, ghostVars>>

(* A goroutine is started on file i at offset o, Stat having seen file f.  *)
StartRoutine(f, i, o) ==
  /\ fi' = f
  /\ fd' = i
  /\ off' = o
  /\ lo' = First(i) + o
  /\ hi' = First(i) + o
  /\ partial' = <<>>
  /\ wg' = wg + 1
  /\ pc' = "read"
  /\ from' = First(i) + o
  /\ misopened' = (misopened \/ f # i)
  /\ truncPending' = FALSE

(* stream(), the first time: open by name and, unless reading from the     *)
(* start, seek to the end.  A failure of either is New's error.            *)
Open ==
  /\ pc = "open"
  /\ \/ /\ path # NoInode
        /\ StartRoutine(fi, path, IF FromStart THEN 0 ELSE Size(path))
        /\ due' = End(path)
        /\ UNCHANGED fsVars
     \/ /\ \/ path = NoInode /\ UNCHANGED fsVars
           \/ SyscallFails
        /\ pc' = "failed"
        /\ UNCHANGED <<fi, fd, off, lo, hi, partial, wg, ghostVars>>
  /\ UNCHANGED <<newfi, eof, stopped, cancelled, completed, lines>>

BadRead ==                                  \* a short read taken for a full one
  /\ pc = "read"
  /\ LET left == Size(fd) - off
     IN \/ /\ left > 0
           /\ lo' = First(fd) + off
           /\ hi' = First(fd) + off + (IF left > BufSize THEN BufSize ELSE left)
           /\ off' = off + BufSize
           /\ eof' = FALSE
           /\ pc' = "decode"
        \/ /\ left <= 0
           /\ eof' = TRUE
           /\ pc' = "stat"
           /\ UNCHANGED <<lo, hi, off>>
  /\ UNCHANGED <<fsVars, fi, fd, partial, newfi, stopped, cancelled,
                 completed, wg, lines, ghostVars>>

(* fd.Read: up to a buffer of bytes, or EOF.  A file shorter than the      *)
(* offset is at EOF too.                                                   *)
Read ==
  /\ pc = "read"
  /\ LET left == Size(fd) - off
         count == IF left > BufSize THEN BufSize ELSE left
     IN \/ /\ left > 0
           /\ lo' = First(fd) + off
           /\ hi' = First(fd) + off + count
           /\ off' = off + count
           /\ eof' = FALSE
           /\ pc' = "decode"
        \/ /\ left <= 0
           /\ eof' = TRUE
           /\ pc' = "stat"
           /\ UNCHANGED <<lo, hi, off>>
  /\ UNCHANGED <<fsVars, fi, fd, partial, newfi, stopped, cancelled,
                 completed, wg, lines, ghostVars>>

(* fd.Read fails with another error: it is counted, and on to Sleep.       *)
ReadError ==
  /\ pc = "read"
  /\ SyscallFails
  /\ eof' = FALSE
  /\ pc' = "sleep"
  /\ UNCHANGED <<fi, fd, off, lo, hi, partial, newfi, stopped, cancelled,
                 completed, wg, lines, ghostVars>>

(* decodeAndSend, one rune: a newline sends the accumulator, even when it  *)
(* is empty; anything else is added to it.                                 *)
DecodeAndSend ==
  /\ pc = "decode"
  /\ lo < hi
  /\ lo' = lo + 1
  /\ IF lo \in nl
     THEN SendLine
     ELSE /\ partial' = Append(partial, lo)
          /\ UNCHANGED lines
  /\ UNCHANGED <<fsVars, pc, fi, fd, off, hi, newfi, eof, stopped, cancelled,
                 completed, wg, ghostVars>>

(* The buffer is decoded.  No error implies there is more to read, unless  *)
(* the context is done.                                                    *)
Decoded ==
  /\ pc = "decode"
  /\ lo = hi
  /\ pc' = IF cancelled THEN "sleep" ELSE "read"
  /\ UNCHANGED <<fsVars, fi, fd, off, lo, hi, partial, newfi, eof, stopped,
                 cancelled, completed, wg, lines, ghostVars>>

BadStatAtEOF ==                             \* os.SameFile not tested
  /\ pc = "stat"
  /\ pc' = IF path = NoInode THEN "flush"
           ELSE IF Size(path) < off THEN "trunc" ELSE "sleep"
  /\ UNCHANGED <<fsVars, fi, fd, off, lo, hi, partial, newfi, eof, stopped,
                 cancelled, completed, wg, lines, ghostVars>>

(* os.Stat at EOF and the decisions taken on its answer: removal, another  *)
(* error, rotation, truncation, or nothing new.                            *)
StatAtEOF ==
  /\ pc = "stat"
  /\ \/ /\ path = NoInode
        /\ pc' = "flush"
        /\ UNCHANGED <<fsVars, newfi>>
     \/ /\ SyscallFails                   \* Stat fails: goto Sleep
        /\ pc' = "sleep"
        /\ UNCHANGED newfi
     \/ /\ path # NoInode /\ path = fi
        /\ SyscallFails                   \* Seek fails: continue
        /\ pc' = "read"
        /\ UNCHANGED newfi
     \/ /\ path # NoInode
        /\ path # fi
        /\ newfi' = path
        /\ pc' = "reopen"
        /\ UNCHANGED fsVars
     \/ /\ path # NoInode
        /\ path = fi
        /\ pc' = IF Size(path) < off THEN "trunc" ELSE "sleep"
        /\ UNCHANGED <<fsVars, newfi>>
  /\ UNCHANGED <<fi, fd, off, lo, hi, partial, eof, stopped, cancelled,
                 completed, wg, lines, ghostVars>>

(* Rotation: the inner fs.stream() opens the name again and starts a       *)
(* goroutine on it, this one returns.  The accumulator of this goroutine   *)
(* is not flushed, and completed is not set even when the open fails.      *)
Reopen ==
  /\ pc = "reopen"
  /\ \/ /\ path # NoInode
        /\ StartRoutine(newfi, path, 0)
        /\ UNCHANGED <<fsVars, due>>
     \/ /\ \/ path = NoInode /\ UNCHANGED fsVars
           \/ SyscallFails
        /\ pc' = "done"
        /\ UNCHANGED <<fi, fd, off, lo, hi, partial, wg, ghostVars>>
  /\ newfi' = NoInode
  /\ UNCHANGED <<eof, stopped, cancelled, completed, lines>>

(* Truncation: flush the accumulator and seek to the start.  If the seek   *)
(* fails it is counted and the offset stays.                               *)
Truncated ==
  /\ pc = "trunc"
  /\ FlushPartial
  /\ \/ /\ off' = 0
        /\ truncPending' = FALSE
        /\ from' = First(fd)
        /\ UNCHANGED fsVars
     \/ /\ SyscallFails
        /\ UNCHANGED <<off, truncPending, from>>
  /\ pc' = "read"
  /\ UNCHANGED <<fi, fd, lo, hi, newfi, eof, stopped, cancelled, completed, wg,
                 misopened, due>>

BadSleep ==                                 \* stopChan not in the select
  /\ pc = "sleep"
  /\ pc' = IF cancelled THEN "flush" ELSE "wait"
  /\ UNCHANGED <<fsVars, fi, fd, off, lo, hi, partial, newfi, eof, stopped,
                 cancelled, completed, wg, lines, ghostVars>>

(* Label Sleep: leave if at EOF and stopped, or if cancelled; else wait.   *)
Sleep ==
  /\ pc = "sleep"
  /\ pc' = IF (eof /\ stopped) \/ cancelled THEN "flush" ELSE "wait"
  /\ UNCHANGED <<fsVars, fi, fd, off, lo, hi, partial, newfi, eof, stopped,
                 cancelled, completed, wg, lines, ghostVars>>

BadWait ==                                  \* leaves at once when stopped
  /\ pc = "wait"
  /\ pc' = IF stopped THEN "flush" ELSE "read"
  /\ UNCHANGED <<fsVars, fi, fd, off, lo, hi, partial, newfi, eof, stopped,
                 cancelled, completed, wg, lines, ghostVars>>

(* The second select: a stop, a cancellation or the waker's tick sends the *)
(* goroutine back to read once more.  The waker ticks forever, so this is  *)
(* always possible.                                                        *)
Wait ==
  /\ pc = "wait"
  /\ pc' = "read"
  /\ UNCHANGED <<fsVars, fi, fd, off, lo, hi, partial, newfi, eof, stopped,
                 cancelled, completed, wg, lines, ghostVars>>

BadFlush ==                                 \* no return after completed = true
  /\ pc = "flush"
  /\ FlushPartial
  /\ completed' = TRUE
  /\ pc' = "wait"
  /\ UNCHANGED <<fsVars, fi, fd, off, lo, hi, newfi, eof, stopped, cancelled,
                 wg, ghostVars>>

(* The common end of the three exits: the last sendLine, completed = true. *)
Flush ==
  /\ pc = "flush"
  /\ FlushPartial
  /\ completed' = TRUE
  /\ pc' = "done"
  /\ UNCHANGED <<fsVars, fi, fd, off, lo, hi, newfi, eof, stopped, cancelled,
                 wg, ghostVars>>

(* The deferred calls of a goroutine that has returned: close the file     *)
(* descriptor, wg.Done().                                                  *)
RoutineDone ==
  /\ wg > (IF pc \in Running THEN 1 ELSE 0)
  /\ wg' = wg - 1
  /\ UNCHANGED <<fsVars, pc, fi, fd, off, lo, hi, partial, newfi, eof,
                 stopped, cancelled, completed, lines, ghostVars>>

(* Stop(), called by the Tailer once New has returned the stream.  At the  *)
(* places where another read will follow, that read must see all there is  *)
(* in the file now.  After the goroutine's end a Stop changes nothing.     *)
Stop ==
  /\ pc \in Running
  /\ ~stopped
  /\ stopped' = TRUE
  /\ due' = IF pc \in {"read", "decode", "wait"} THEN End(fd) ELSE due
  /\ UNCHANGED <<fsVars, pc, fi, fd, off, lo, hi, partial, newfi, eof,
                 cancelled, completed, wg, lines, misopened, truncPending,
                 from>>

(* Once the stream has ended, neither the context nor the file system      *)
(* matters to it any more.                                                 *)
Ended == pc \in {"done", "failed"}

(* The shared context is cancelled.                                        *)
Cancel ==
  /\ ~Ended
  /\ ~cancelled
  /\ cancelled' = TRUE
  /\ UNCHANGED <<fsVars, pc, fi, fd, off, lo, hi, partial, newfi, eof,
                 stopped, completed, wg, lines, ghostVars>>

(* The writer and the rotation.                                            *)
Environment ==
  /\ ~Ended
  /\ \/ \E newline \in BOOLEAN : Append1(newline)
     \/ Create
     \/ Remove
     \/ WriterReopen
  /\ UNCHANGED <<streamVars, ghostVars>>

Truncate ==
  /\ ~Ended
  /\ TruncateFile
  /\ truncPending' = (truncPending \/ (fd = path /\ off > 0))
  /\ UNCHANGED <<streamVars, misopened, from, due>>

-----------------------------------------------------------------------------
(* The steps a goroutine takes by itself, given a scheduler and a consumer *)
(* that keeps receiving.                                                   *)
Step ==
  \/ New \/ Open \/ Read \/ DecodeAndSend \/ Decoded \/ StatAtEOF
  \/ Reopen \/ Truncated \/ Sleep \/ Wait \/ Flush \/ RoutineDone

Next ==
  \/ Step
  \/ ReadError
  \/ Stop
  \/ Cancel
  \/ Truncate
  \/ Environment

Spec == Init /\ [][Next]_vars

(* The Go scheduler runs every goroutine that can run, the consumer of     *)
(* `lines` receives until the channel is closed, and the waker is a        *)
(* ticker.  Nothing is assumed of the writer, of rotation or of failures.  *)
FairSpec == Spec /\ WF_vars(Step)

-----------------------------------------------------------------------------
TypeOK ==
  /\ FsTypeOK
  /\ pc \in PCs
  /\ fi \in 0..inodes /\ fd \in 0..inodes /\ newfi \in 0..inodes
  /\ off \in 0..written
  /\ lo \in 0..written /\ hi \in lo..written
  /\ partial \in Seq(Nat)
  /\ lines \in Seq(Seq(Nat))
  /\ eof \in BOOLEAN /\ stopped \in BOOLEAN /\ cancelled \in BOOLEAN
  /\ completed \in BOOLEAN
  /\ wg \in Nat
  /\ misopened \in BOOLEAN /\ truncPending \in BOOLEAN
  /\ from \in 0..written /\ due \in 0..written

-----------------------------------------------------------------------------
(* The bytes handed to the consumer, and those read and decoded so far.    *)
Sent == UNION {{lines[i][j] : j \in DOMAIN lines[i]} : i \in DOMAIN lines}
Held == Sent \cup {partial[j] : j \in DOMAIN partial}

(* Lines are delivered in the order they were written and no byte is       *)
(* delivered twice, through appends, rotations and truncations to zero:    *)
(* the bytes of the lines, read one line after the other, increase.  The   *)
(* one exception is a rename between the Stat and the OpenFile that follow *)
(* each other in New and in the rotation path: fi is then not the file fd  *)
(* reads, the next Stat at EOF takes it for a rotation, and the file is    *)
(* read again from its start.                                              *)
InOrderOnce ==
  \/ misopened
  \/ \A i, k \in DOMAIN lines :
       \A j \in DOMAIN lines[i], m \in DOMAIN lines[k] :
         i < k \/ (i = k /\ j < m) => lines[i][j] < lines[k][m]

(* Nothing between where reading of the open file began and where the      *)
(* decoder is gets skipped: each such body byte is in a line that was sent *)
(* or in the accumulator.  Short reads, retries after errors and wakeups   *)
(* in any order do not lose a byte; only a truncation that went unnoticed  *)
(* does.                                                                   *)
NothingSkipped ==
  \/ truncPending
  \/ fd = NoInode
  \/ \A b \in First(fd)..(lo - 1) : b >= from => b \in nl \cup Held

(* What was decoded stays decoded: a byte leaves the accumulator only into *)
(* a line that is sent.  The handover to another file after a rotation is  *)
(* the one step that drops the accumulator (filestream.go:147-154 returns  *)
(* without the flush that every other way out makes).                      *)
DecodedKept == [][Held \subseteq Held' \/ pc = "reopen"]_vars

(* A graceful stop drains the file: a stream that is complete and was not  *)
(* cancelled has read all that was in the file when Stop was called while  *)
(* it waited or was still reading (filestream.go:219-224), and in one-shot *)
(* mode all that was there at the start, and nothing of it is left in the  *)
(* accumulator.                                                            *)
StopDrains ==
  completed /\ ~cancelled =>
    /\ partial = <<>>
    /\ truncPending \/ hi >= due \/ First(fd) >= due

(* A sender is always counted in the WaitGroup: while some goroutine may   *)
(* still send, wg is positive, also while one hands over to the next       *)
(* (wg.Add precedes the other's wg.Done), so that the Tailer's Wait, which *)
(* closes the channel, cannot return.                                      *)
SenderCounted == [][lines' # lines => wg > 0 /\ wg' > 0]_vars

(* Stop and cancellation are obeyed: the goroutine comes to its end, with  *)
(* all deferred calls made.                                                *)
StopObeyed == (stopped \/ (cancelled /\ wg > 0)) ~> (pc = "done" /\ wg = 0)

(* Left alone by failures, the stream follows the name: it ends up         *)
(* finished, or at the end of the very file the name refers to, with every *)
(* complete line of it sent.                                               *)
Follows ==
  <>[](\/ pc \in {"done", "failed"}
       \/ fd # NoInode /\ fd = path /\ off = Size(fd) /\ lo = hi
            /\ (partial = <<>> \/ lo - 1 \notin nl))

(* fileStream is a LogStream: it sends only while counted and not complete, *)
(* and hands over from goroutine to goroutine across a rotation.           *)
Contract == INSTANCE LogStream
              WITH routines <- wg, sent <- lines, complete <- completed,
                   stop <- stopped

ImplementsLogStream == Contract!Spec

-----------------------------------------------------------------------------
(* Statements made of the code by its own comments.                        *)

(* filestream.go:152, where the goroutine leaves after a rotation: "We're  *)
(* at EOF so there's nothing left to read here."                           *)
NothingLeftAtRotation == pc = "reopen" => off >= Size(fd)
=============================================================================
