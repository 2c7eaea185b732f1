---------------------------- MODULE StreamsProofs ----------------------------
(***************************************************************************)
(* Proofs about pipeStream and socketStream, for any texts that clients    *)
(* write, any buffer size and any bounds.                                  *)
(***************************************************************************)
EXTENDS Streams, Induction

Bytes == {"a", "n", "L", "C"}
Runes == {"a", "n", "LC", "?"}

(* The stream's own state.                                                 *)
StreamOK ==
  /\ pc \in {"new", "open", "read", "decode", "sleep", "wait", "exit",
             "closed", "done", "failed"}
  /\ completed \in BOOLEAN /\ wg \in Nat
  /\ buf \in Seq(Bytes) /\ partial \in Seq(Runes) /\ lines \in Seq(Seq(Runes))

(* What is written and read: the kernel keeps a pipe's bytes, and a        *)
(* socket's datagrams.                                                     *)
QueueOK ==
  /\ written \in Seq(Bytes) /\ taken \in Seq(Bytes)
  /\ lost \in Nat /\ due \in Nat
  /\ kind = "pipe" => queue \in Seq(Bytes)
  /\ kind = "socket" => queue \in Seq(Seq(Bytes))

(* Where the goroutine is, and what that says of the stream: it is counted *)
(* from before it runs until it is done, and reads only what is a pipe or  *)
(* a socket.                                                               *)
ControlInv ==
  /\ pc \in {"new", "open", "failed"} => wg = 0 /\ lines = <<>> /\ ~completed
  /\ pc \in {"read", "decode", "sleep", "wait"} => wg = 1 /\ ~completed
  /\ pc \in {"exit", "closed"} => wg = 1
  /\ pc \notin {"new", "failed"} => kind \in {"pipe", "socket"}
  /\ left # "none" => pc \in {"exit", "closed", "done"}

(* Nothing written to a pipe is lost before it is closed: what was not     *)
(* taken is in the queue.                                                  *)
PipeInv ==
  kind = "pipe" =>
    /\ lost = 0
    /\ pc \notin {"closed", "done"} => Len(written) = Len(taken) + Len(queue)

(* The same of a socket, of which the queue holds datagrams: the i-th ends *)
(* at the byte ends[i] of all that was written.                            *)
Marks(ends) ==
  /\ ends[0] = Len(taken) + lost
  /\ ends[Len(queue)] = Len(written)
  /\ \A i \in 1..Len(queue) : ends[i] = ends[i - 1] + Len(queue[i])
SocketInv ==
  kind = "socket" /\ pc \notin {"closed", "done"} =>
    \E ends \in [0..Len(queue) -> Nat] : Marks(ends)

(* Stop is not seen before a read that finds nothing left, or a            *)
(* cancellation.                                                           *)
DueInv ==
  /\ due <= Len(written)
  /\ kind = "socket" /\ pc = "sleep" /\ ~cancelled => Len(taken) + lost >= due
  /\ left = "stop" => kind = "socket" /\ stopped
  /\ left = "eof" => kind = "pipe"

IInv ==
  /\ StreamOK /\ QueueOK /\ ControlInv /\ PipeInv /\ SocketInv /\ DueInv
  /\ Drained

-----------------------------------------------------------------------------
(* The initial states satisfy the inductive invariant.                     *)
LEMMA InitIInv == Init => IInv
<1> SUFFICES ASSUME Init PROVE IInv
  OBVIOUS
<1> USE DEF Init
<1>1. StreamOK /\ QueueOK /\ ControlInv /\ PipeInv
  <2>1. StreamOK
    <3>1. /\ buf \in Seq(Bytes) /\ partial \in Seq(Runes)
          /\ lines \in Seq(Seq(Runes))
      OBVIOUS
    <3> QED BY <3>1 DEF StreamOK
  <2>2. QueueOK
    BY DEF QueueOK
  <2>3. ControlInv /\ PipeInv
    BY DEF ControlInv, PipeInv
  <2> QED BY <2>1, <2>2, <2>3
<1>2. SocketInv
  <2>1. Marks([i \in 0..Len(queue) |-> 0])
    BY DEF Marks
  <2> QED BY <2>1 DEF SocketInv
<1>3. DueInv /\ Drained
  BY DEF DueInv, Drained
<1> QED BY <1>1, <1>2, <1>3 DEF IInv

(* A rune is decoded from whatever bytes there are.                        *)
LEMMA RuneDecoded ==
  ASSUME NEW b
  PROVE  DecodeRune(b)[1] \in Runes /\ DecodeRune(b)[2] \in {1, 2}
BY DEF DecodeRune, Runes

(* A read takes some bytes off the front of a sequence of them.            *)
LEMMA Split ==
  ASSUME NEW S, NEW q \in Seq(S), NEW n \in 0..Len(q)
  PROVE  /\ SubSeq(q, 1, n) \in Seq(S) /\ Len(SubSeq(q, 1, n)) = n
         /\ SubSeq(q, n + 1, Len(q)) \in Seq(S)
         /\ Len(SubSeq(q, n + 1, Len(q))) = Len(q) - n
<1>1. SubSeq(q, 1, n) \in Seq(S) /\ Len(SubSeq(q, 1, n)) = n
  OBVIOUS
<1>2. SubSeq(q, n + 1, Len(q)) \in Seq(S)
  OBVIOUS
<1>3. Len(SubSeq(q, n + 1, Len(q))) = Len(q) - n
  OBVIOUS
<1> QED BY <1>1, <1>2, <1>3

(* What is added to a sequence is counted.                                 *)
LEMMA Join ==
  ASSUME NEW S, NEW q \in Seq(S), NEW x \in Seq(S)
  PROVE  q \o x \in Seq(S) /\ Len(q \o x) = Len(q) + Len(x)
OBVIOUS

LEMMA AppendOne ==
  ASSUME NEW S, NEW q \in Seq(S), NEW x \in S
  PROVE  Append(q, x) \in Seq(S)
OBVIOUS

(* sendLine, or nothing: the lines stay lines of runes.                    *)
LEMMA LinesTyped ==
  ASSUME StreamOK, SendLine
  PROVE  partial' \in Seq(Runes) /\ lines' \in Seq(Seq(Runes))
<1>1. partial' = <<>> /\ lines' = Append(lines, partial)
  BY DEF SendLine
<1>2. partial \in Seq(Runes) /\ lines \in Seq(Seq(Runes))
  BY DEF StreamOK
<1>3. partial' \in Seq(Runes)
  BY <1>1
<1>4. lines' \in Seq(Seq(Runes))
  BY <1>1, <1>2
<1> QED BY <1>3, <1>4

(* Every step preserves the inductive invariant.                           *)
LEMMA NextIInv == IInv /\ [Next]_vars => IInv'
<1> SUFFICES ASSUME IInv, [Next]_vars PROVE IInv'
  OBVIOUS
<1> USE ByteAssumption
    DEF IInv, streamVars, kernelVars, askedVars, ghostVars
<1>1. CASE New
  <2>1. StreamOK'
    BY <1>1 DEF StreamOK, New, Failure
  <2>2. QueueOK'
    BY <1>1 DEF StreamOK, QueueOK, ControlInv, New, Failure
  <2>3. ControlInv'
    BY <1>1 DEF StreamOK, ControlInv, New, Failure
  <2>4. PipeInv'
    BY <1>1 DEF StreamOK, QueueOK, ControlInv, PipeInv, New, Failure
  <2>5. SocketInv'
    BY <1>1 DEF ControlInv, SocketInv, Marks, New, Failure
  <2>6. DueInv' /\ Drained'
    BY <1>1 DEF StreamOK, QueueOK, ControlInv, PipeInv, DueInv, Drained, New,
       Failure
  <2> QED BY <2>1, <2>2, <2>3, <2>4, <2>5, <2>6 DEF IInv
<1>2. CASE DecodeAndSend
  <2>1. StreamOK'
    <3> DEFINE r == DecodeRune(buf)
    <3>1. r[1] \in Runes /\ r[2] \in {1, 2}
      BY RuneDecoded
    <3>2. /\ IF r[1] = "n" THEN SendLine
             ELSE partial' = Append(partial, r[1]) /\ UNCHANGED lines
          /\ buf' = SubSeq(buf, r[2] + 1, Len(buf))
      BY <1>2 DEF DecodeAndSend
    <3>3. pc' \in {"decode", "read", "sleep"} /\ UNCHANGED <<completed, wg>>
      BY <1>2 DEF DecodeAndSend
    <3> HIDE DEF r
    <3>4. buf' \in Seq(Bytes)
      BY <3>1, <3>2 DEF StreamOK
    <3>5. partial' \in Seq(Runes) /\ lines' \in Seq(Seq(Runes))
      <4>1. CASE SendLine
        BY <4>1, LinesTyped
      <4>2. CASE partial' = Append(partial, r[1]) /\ UNCHANGED lines
        BY <3>1, <4>2 DEF StreamOK
      <4> QED BY <3>2, <4>1, <4>2
    <3> QED BY <3>3, <3>4, <3>5 DEF StreamOK
  <2>2. QueueOK'
    BY <1>2 DEF StreamOK, QueueOK, ControlInv, DecodeAndSend, SendLine
  <2>3. ControlInv'
    BY <1>2 DEF StreamOK, ControlInv, DecodeAndSend, SendLine
  <2>4. PipeInv'
    BY <1>2 DEF StreamOK, QueueOK, ControlInv, PipeInv, DecodeAndSend, SendLine
  <2>5. SocketInv'
    BY <1>2 DEF ControlInv, SocketInv, Marks, DecodeAndSend, SendLine
  <2>6. DueInv' /\ Drained'
    BY <1>2 DEF StreamOK, QueueOK, ControlInv, PipeInv, DueInv, Drained,
       DecodeAndSend, SendLine
  <2> QED BY <2>1, <2>2, <2>3, <2>4, <2>5, <2>6 DEF IInv
<1>3. CASE Close
  <2>1. StreamOK'
    BY <1>3 DEF StreamOK, Close
  <2>2. QueueOK'
    BY <1>3 DEF StreamOK, QueueOK, ControlInv, Close
  <2>3. ControlInv'
    BY <1>3 DEF StreamOK, ControlInv, Close
  <2>4. PipeInv'
    BY <1>3 DEF StreamOK, QueueOK, ControlInv, PipeInv, Close
  <2>5. SocketInv'
    BY <1>3 DEF ControlInv, SocketInv, Marks, Close
  <2>6. DueInv' /\ Drained'
    BY <1>3 DEF StreamOK, QueueOK, ControlInv, PipeInv, DueInv, Drained, Close
  <2> QED BY <2>1, <2>2, <2>3, <2>4, <2>5, <2>6 DEF IInv
<1>4. CASE WgDone
  <2>1. StreamOK'
    BY <1>4 DEF StreamOK, ControlInv, WgDone
  <2>2. QueueOK'
    BY <1>4 DEF StreamOK, QueueOK, ControlInv, WgDone
  <2>3. ControlInv'
    BY <1>4 DEF StreamOK, ControlInv, WgDone
  <2>4. PipeInv'
    BY <1>4 DEF StreamOK, QueueOK, ControlInv, PipeInv, WgDone
  <2>5. SocketInv'
    BY <1>4 DEF ControlInv, SocketInv, Marks, WgDone
  <2>6. DueInv' /\ Drained'
    BY <1>4 DEF StreamOK, QueueOK, ControlInv, PipeInv, DueInv, Drained, WgDone
  <2> QED BY <2>1, <2>2, <2>3, <2>4, <2>5, <2>6 DEF IInv
<1>5. CASE kind = "pipe" /\ PipeOpen
  <2>1. StreamOK'
    BY <1>5 DEF StreamOK, PipeOpen, Failure
  <2>2. QueueOK'
    BY <1>5 DEF StreamOK, QueueOK, ControlInv, PipeOpen, Failure
  <2>3. ControlInv'
    BY <1>5 DEF StreamOK, ControlInv, PipeOpen, Failure
  <2>4. PipeInv'
    BY <1>5 DEF StreamOK, QueueOK, ControlInv, PipeInv, PipeOpen, Failure
  <2>5. SocketInv'
    BY <1>5 DEF ControlInv, SocketInv, Marks, PipeOpen, Failure
  <2>6. DueInv' /\ Drained'
    BY <1>5 DEF StreamOK, QueueOK, ControlInv, PipeInv, DueInv, Drained,
       PipeOpen, Failure
  <2> QED BY <2>1, <2>2, <2>3, <2>4, <2>5, <2>6 DEF IInv
<1>6. CASE kind = "pipe" /\ PipeRead
  <2> DEFINE n == IF Len(queue) < BufSize THEN Len(queue) ELSE BufSize
  <2>a. CASE /\ queue # <<>>
             /\ Take(SubSeq(queue, 1, n))
             /\ queue' = SubSeq(queue, n + 1, Len(queue))
             /\ UNCHANGED <<completed, left, errors>>
    <3>1. /\ queue \in Seq(Bytes) /\ n \in 0..Len(queue) /\ n # 0
          /\ Len(queue) \in Nat
      BY <1>6, <2>a DEF QueueOK
    <3> HIDE DEF n
    <3>2. /\ SubSeq(queue, 1, n) \in Seq(Bytes)
          /\ Len(SubSeq(queue, 1, n)) = n
          /\ SubSeq(queue, n + 1, Len(queue)) \in Seq(Bytes)
          /\ Len(SubSeq(queue, n + 1, Len(queue))) = Len(queue) - n
      BY <3>1, Split
    <3>3. /\ buf' = SubSeq(queue, 1, n)
          /\ taken' = taken \o SubSeq(queue, 1, n)
          /\ queue' = SubSeq(queue, n + 1, Len(queue))
          /\ pc = "read" /\ pc' = "decode"
          /\ UNCHANGED <<completed, left, partial, wg, lines, clients, exists,
                         askedVars, written, lost, due>>
      <4>1. SubSeq(queue, 1, n) # <<>>
        BY <3>1, <3>2
      <4> QED BY <1>6, <2>a, <4>1 DEF PipeRead, Take
    <3>4. StreamOK'
      BY <3>2, <3>3 DEF StreamOK
    <3>5. QueueOK'
      BY <1>6, <3>2, <3>3 DEF QueueOK
    <3>6. ControlInv'
      BY <3>3 DEF ControlInv
    <3>7. PipeInv'
      <4>1. Len(taken') = Len(taken) + n
        BY <3>2, <3>3, Join DEF QueueOK
      <4>2. Len(written) = Len(taken) + Len(queue) /\ lost = 0
        BY <1>6, <3>3 DEF PipeInv
      <4>3. Len(taken) \in Nat
        BY DEF QueueOK
      <4>4. Len(queue') = Len(queue) - n /\ n \in Nat /\ written' = written
        BY <3>1, <3>2, <3>3
      <4>5. Len(written') = Len(taken') + Len(queue')
        BY <3>1, <4>1, <4>2, <4>3, <4>4
      <4> QED BY <3>3, <4>2, <4>5 DEF PipeInv
    <3>8. SocketInv' /\ DueInv' /\ Drained'
      BY <1>6, <3>3 DEF SocketInv, DueInv, ControlInv, Drained
    <3> QED BY <3>4, <3>5, <3>6, <3>7, <3>8
  <2> HIDE DEF n
  <2>b. CASE /\ pc' = "sleep"
             /\ UNCHANGED <<buf, completed, taken, cut, left, queue, errors>>
    <3>1. UNCHANGED <<partial, wg, lines, askedVars, written, lost, due>>
      BY <1>6 DEF PipeRead
    <3> QED BY <1>6, <2>b, <3>1 DEF StreamOK, QueueOK, ControlInv, PipeInv,
            SocketInv, DueInv, Drained, PipeRead
  <2>c. CASE /\ queue = <<>> \/ left' = "error"
             /\ Leave("eof") \/ Leave("error")
             /\ UNCHANGED <<buf, taken, cut, queue>>
    <3>1. UNCHANGED <<partial, wg, lines, askedVars, written, lost, due>>
      BY <1>6 DEF PipeRead
    <3> QED BY <1>6, <2>c, <3>1 DEF StreamOK, QueueOK, ControlInv, PipeInv,
            SocketInv, DueInv, Drained, PipeRead, Leave
  <2> QED BY <1>6, <2>a, <2>b, <2>c DEF PipeRead, Leave, n
<1>7. CASE kind = "pipe" /\ PipeSleep
  <2>1. StreamOK'
    <3>1. partial' \in Seq(Runes) /\ lines' \in Seq(Seq(Runes))
      <4>1. CASE UNCHANGED <<partial, lines>>
        BY <4>1 DEF StreamOK
      <4> QED BY <1>7, <4>1, LinesTyped DEF PipeSleep, FlushPartial
    <3> QED BY <1>7, <3>1 DEF StreamOK, PipeSleep, Leave
  <2>2. QueueOK'
    BY <1>7 DEF StreamOK, QueueOK, ControlInv, PipeSleep, FlushPartial,
       SendLine, Leave
  <2>3. ControlInv'
    BY <1>7 DEF StreamOK, ControlInv, PipeSleep, FlushPartial, SendLine, Leave
  <2>4. PipeInv'
    BY <1>7 DEF StreamOK, QueueOK, ControlInv, PipeInv, PipeSleep,
       FlushPartial, SendLine, Leave
  <2>5. SocketInv'
    BY <1>7 DEF ControlInv, SocketInv, Marks, PipeSleep, FlushPartial,
       SendLine, Leave
  <2>6. DueInv' /\ Drained'
    BY <1>7 DEF StreamOK, QueueOK, ControlInv, PipeInv, DueInv, Drained,
       PipeSleep, FlushPartial, SendLine, Leave
  <2> QED BY <2>1, <2>2, <2>3, <2>4, <2>5, <2>6 DEF IInv
<1>8. CASE Wait
  <2>1. StreamOK'
    BY <1>8 DEF StreamOK, Wait
  <2>2. QueueOK'
    BY <1>8 DEF StreamOK, QueueOK, ControlInv, Wait
  <2>3. ControlInv'
    BY <1>8 DEF StreamOK, ControlInv, Wait
  <2>4. PipeInv'
    BY <1>8 DEF StreamOK, QueueOK, ControlInv, PipeInv, Wait
  <2>5. SocketInv'
    BY <1>8 DEF ControlInv, SocketInv, Marks, Wait
  <2>6. DueInv' /\ Drained'
    BY <1>8 DEF StreamOK, QueueOK, ControlInv, PipeInv, DueInv, Drained, Wait
  <2> QED BY <2>1, <2>2, <2>3, <2>4, <2>5, <2>6 DEF IInv
<1>9. CASE kind = "socket" /\ SocketOpen
  <2>1. StreamOK'
    BY <1>9 DEF StreamOK, SocketOpen, Failure
  <2>2. QueueOK'
    BY <1>9 DEF StreamOK, QueueOK, ControlInv, SocketOpen, Failure
  <2>3. ControlInv'
    BY <1>9 DEF StreamOK, ControlInv, SocketOpen, Failure
  <2>4. PipeInv'
    BY <1>9 DEF StreamOK, QueueOK, ControlInv, PipeInv, SocketOpen, Failure
  <2>5. SocketInv'
    BY <1>9 DEF ControlInv, SocketInv, Marks, SocketOpen, Failure
  <2>6. DueInv' /\ Drained'
    BY <1>9 DEF StreamOK, QueueOK, ControlInv, PipeInv, DueInv, Drained,
       SocketOpen, Failure
  <2> QED BY <2>1, <2>2, <2>3, <2>4, <2>5, <2>6 DEF IInv
<1>10. CASE kind = "socket" /\ SocketRead
  <2> DEFINE b == Head(queue)
             n == IF Len(b) < BufSize THEN Len(b) ELSE BufSize
  <2>a. CASE /\ queue # <<>>
             /\ Take(SubSeq(b, 1, n)) /\ lost' = lost + Len(b) - n
             /\ queue' = Tail(queue)
             /\ UNCHANGED <<left, errors>>
    <3>1. /\ queue \in Seq(Seq(Bytes)) /\ Len(queue) > 0
          /\ b \in Seq(Bytes) /\ b = queue[1] /\ n \in 0..Len(b)
      BY <1>10, <2>a DEF QueueOK
    <3>2. SubSeq(b, 1, n) \in Seq(Bytes) /\ Len(SubSeq(b, 1, n)) = n
      BY <3>1
    <3>3. /\ buf' = SubSeq(b, 1, n)
          /\ taken' = taken \o SubSeq(b, 1, n)
          /\ pc = "read" /\ pc' \in {"decode", "read", "sleep"}
          /\ pc' = "sleep" => cancelled
          /\ UNCHANGED <<partial, completed, wg, lines, clients, exists,
                         askedVars, written, due>>
      BY <1>10, <2>a DEF SocketRead, Take
    <3> HIDE DEF b, n
    <3>4. StreamOK'
      BY <3>2, <3>3 DEF StreamOK
    <3>5. QueueOK'
      BY <1>10, <2>a, <3>1, <3>2, <3>3 DEF QueueOK
    <3>6. Len(taken') + lost' = Len(taken) + lost + Len(b)
      <4>1. Len(taken') = Len(taken) + n
        BY <3>2, <3>3, Join DEF QueueOK
      <4>2. Len(taken) \in Nat /\ lost \in Nat /\ Len(b) \in Nat
        BY <3>1 DEF QueueOK
      <4>3. lost' = lost + Len(b) - n /\ n \in Nat
        BY <2>a, <3>1, <4>2
      <4> QED BY <4>1, <4>2, <4>3
    <3>7. SocketInv'
      <4>1. PICK ends \in [0..Len(queue) -> Nat] : Marks(ends)
        BY <1>10, <3>3 DEF SocketInv
      <4>2. /\ Len(queue') = Len(queue) - 1
            /\ \A i \in 1..Len(queue') : queue'[i] = queue[i + 1]
        BY <2>a, <3>1
      <4> DEFINE after == [i \in 0..Len(queue') |-> ends[i + 1]]
      <4>3. after \in [0..Len(queue') -> Nat]
        BY <3>1, <4>1, <4>2
      <4>4. after[0] = Len(taken') + lost'
        BY <3>1, <3>6, <4>1, <4>2 DEF Marks
      <4>5. after[Len(queue')] = Len(written')
        BY <3>1, <3>3, <4>1, <4>2 DEF Marks
      <4>6. \A i \in 1..Len(queue') : after[i] = after[i - 1] + Len(queue'[i])
        <5>1. ASSUME NEW i \in 1..Len(queue')
              PROVE  ends[i + 1] = ends[i] + Len(queue[i + 1])
          <6>1. i + 1 \in 1..Len(queue) /\ i + 1 - 1 = i
            BY <3>1, <4>2
          <6> QED BY <4>1, <6>1 DEF Marks
        <5>2. \A i \in 1..Len(queue') : i - 1 \in 0..Len(queue')
          BY <3>1, <4>2
        <5>3. ASSUME NEW i \in 1..Len(queue')
              PROVE  after[i] = ends[i + 1] /\ after[i - 1] = ends[i]
          <6>1. i \in 0..Len(queue') /\ i - 1 + 1 = i
            BY <3>1, <4>2
          <6> QED BY <5>2, <6>1
        <5> HIDE DEF after
        <5> QED BY <4>2, <5>1, <5>3
      <4> HIDE DEF after
      <4> QED BY <4>3, <4>4, <4>5, <4>6 DEF SocketInv, Marks
    <3>8. ControlInv' /\ PipeInv' /\ DueInv' /\ Drained'
      BY <1>10, <2>a, <3>3 DEF ControlInv, PipeInv, DueInv, Drained
    <3> QED BY <3>4, <3>5, <3>7, <3>8
  <2> HIDE DEF b, n
  <2>b. CASE /\ queue = <<>>
             /\ pc' = "sleep"
             /\ UNCHANGED <<buf, taken, cut, lost, left, queue, errors>>
    <3>1. /\ UNCHANGED <<partial, completed, wg, lines, askedVars, written,
                         due>>
          /\ pc = "read"
      BY <1>10 DEF SocketRead
    <3>2. Len(taken) + lost = Len(written)
      BY <1>10, <2>b, <3>1 DEF SocketInv, Marks
    <3> QED BY <1>10, <2>b, <3>1, <3>2 DEF StreamOK, QueueOK, ControlInv,
            PipeInv, SocketInv, Marks, DueInv, Drained
  <2>c. CASE /\ pc' = "exit" /\ left' = "error"
             /\ UNCHANGED <<buf, taken, cut, lost, queue>>
    <3>1. /\ UNCHANGED <<partial, completed, wg, lines, askedVars, written,
                         due>>
          /\ pc = "read"
      BY <1>10 DEF SocketRead
    <3> QED BY <1>10, <2>c, <3>1 DEF StreamOK, QueueOK, ControlInv,
            PipeInv, SocketInv, Marks, DueInv, Drained
  <2> QED BY <1>10, <2>a, <2>b, <2>c DEF SocketRead, b, n
<1>11. CASE kind = "socket" /\ SocketSleep
  <2>1. StreamOK'
    <3>1. partial' \in Seq(Runes) /\ lines' \in Seq(Seq(Runes))
      <4>1. CASE UNCHANGED <<partial, lines>>
        BY <4>1 DEF StreamOK
      <4> QED BY <1>11, <4>1, LinesTyped DEF SocketSleep, FlushPartial
    <3> QED BY <1>11, <3>1 DEF StreamOK, SocketSleep, Leave
  <2>2. QueueOK'
    BY <1>11 DEF StreamOK, QueueOK, ControlInv, SocketSleep, FlushPartial,
       SendLine, Leave
  <2>3. ControlInv'
    BY <1>11 DEF StreamOK, ControlInv, SocketSleep, FlushPartial, SendLine,
       Leave
  <2>4. PipeInv'
    BY <1>11 DEF StreamOK, QueueOK, ControlInv, PipeInv, SocketSleep,
       FlushPartial, SendLine, Leave
  <2>5. SocketInv'
    BY <1>11 DEF ControlInv, SocketInv, Marks, SocketSleep, FlushPartial,
       SendLine, Leave
  <2>6. DueInv' /\ Drained'
    BY <1>11 DEF StreamOK, QueueOK, ControlInv, PipeInv, DueInv, Drained,
       SocketSleep, FlushPartial, SendLine, Leave
  <2> QED BY <2>1, <2>2, <2>3, <2>4, <2>5, <2>6 DEF IInv
<1>12. CASE Cancel
  <2>1. StreamOK'
    BY <1>12 DEF StreamOK, Cancel
  <2>2. QueueOK'
    BY <1>12 DEF StreamOK, QueueOK, ControlInv, Cancel
  <2>3. ControlInv'
    BY <1>12 DEF StreamOK, ControlInv, Cancel
  <2>4. PipeInv'
    BY <1>12 DEF StreamOK, QueueOK, ControlInv, PipeInv, Cancel
  <2>5. SocketInv'
    BY <1>12 DEF ControlInv, SocketInv, Marks, Cancel
  <2>6. DueInv' /\ Drained'
    BY <1>12 DEF StreamOK, QueueOK, ControlInv, PipeInv, DueInv, Drained,
       Cancel
  <2> QED BY <2>1, <2>2, <2>3, <2>4, <2>5, <2>6 DEF IInv
<1>13. CASE Stop
  <2>1. StreamOK'
    BY <1>13 DEF StreamOK, Stop
  <2>2. QueueOK'
    BY <1>13 DEF StreamOK, QueueOK, ControlInv, Stop
  <2>3. ControlInv'
    BY <1>13 DEF StreamOK, ControlInv, Stop
  <2>4. PipeInv'
    BY <1>13 DEF StreamOK, QueueOK, ControlInv, PipeInv, Stop
  <2>5. SocketInv'
    BY <1>13 DEF ControlInv, SocketInv, Marks, Stop
  <2>6. DueInv' /\ Drained'
    BY <1>13 DEF StreamOK, QueueOK, ControlInv, PipeInv, DueInv, Drained, Stop
  <2> QED BY <2>1, <2>2, <2>3, <2>4, <2>5, <2>6 DEF IInv
<1>14. CASE Connect
  <2>1. StreamOK'
    BY <1>14 DEF StreamOK, Connect
  <2>2. QueueOK'
    BY <1>14 DEF StreamOK, QueueOK, ControlInv, Connect
  <2>3. ControlInv'
    BY <1>14 DEF StreamOK, ControlInv, Connect
  <2>4. PipeInv'
    BY <1>14 DEF StreamOK, QueueOK, ControlInv, PipeInv, Connect
  <2>5. SocketInv'
    BY <1>14 DEF ControlInv, SocketInv, Marks, Connect
  <2>6. DueInv' /\ Drained'
    BY <1>14 DEF StreamOK, QueueOK, ControlInv, PipeInv, DueInv, Drained,
       Connect
  <2> QED BY <2>1, <2>2, <2>3, <2>4, <2>5, <2>6 DEF IInv
<1>15. CASE Disconnect
  <2>1. StreamOK'
    BY <1>15 DEF StreamOK, Disconnect
  <2>2. QueueOK'
    BY <1>15 DEF StreamOK, QueueOK, ControlInv, Disconnect
  <2>3. ControlInv'
    BY <1>15 DEF StreamOK, ControlInv, Disconnect
  <2>4. PipeInv'
    BY <1>15 DEF StreamOK, QueueOK, ControlInv, PipeInv, Disconnect
  <2>5. SocketInv'
    BY <1>15 DEF ControlInv, SocketInv, Marks, Disconnect
  <2>6. DueInv' /\ Drained'
    BY <1>15 DEF StreamOK, QueueOK, ControlInv, PipeInv, DueInv, Drained,
       Disconnect
  <2> QED BY <2>1, <2>2, <2>3, <2>4, <2>5, <2>6 DEF IInv
<1>16. CASE Unlink
  <2>1. StreamOK'
    BY <1>16 DEF StreamOK, Unlink
  <2>2. QueueOK'
    BY <1>16 DEF StreamOK, QueueOK, ControlInv, Unlink
  <2>3. ControlInv'
    BY <1>16 DEF StreamOK, ControlInv, Unlink
  <2>4. PipeInv'
    BY <1>16 DEF StreamOK, QueueOK, ControlInv, PipeInv, Unlink
  <2>5. SocketInv'
    BY <1>16 DEF ControlInv, SocketInv, Marks, Unlink
  <2>6. DueInv' /\ Drained'
    BY <1>16 DEF StreamOK, QueueOK, ControlInv, PipeInv, DueInv, Drained,
       Unlink
  <2> QED BY <2>1, <2>2, <2>3, <2>4, <2>5, <2>6 DEF IInv
<1>17. ASSUME NEW text \in Texts, Write(text) PROVE IInv'
  <2>a. /\ text \in Seq(Bytes) /\ Len(text) \in Nat
        /\ written' = written \o text
        /\ Len(written') = Len(written) + Len(text)
    BY <1>17 DEF Write, QueueOK, Bytes
  <2>1. StreamOK'
    BY <1>17 DEF StreamOK, Write, Reading
  <2>2. QueueOK'
    <3>1. /\ kind = "pipe" => queue' = queue \o text
          /\ kind = "socket" => queue' = Append(queue, text)
          /\ UNCHANGED <<kind, taken, lost, due>>
      BY <1>17 DEF Write
    <3>2. kind = "pipe" => queue' \in Seq(Bytes)
      BY <2>a, <3>1, Join DEF QueueOK
    <3>3. kind = "socket" => queue' \in Seq(Seq(Bytes))
      BY <2>a, <3>1, AppendOne DEF QueueOK
    <3>4. written' \in Seq(Bytes)
      BY <2>a DEF QueueOK
    <3> QED BY <3>1, <3>2, <3>3, <3>4 DEF QueueOK
  <2>3. ControlInv'
    BY <1>17 DEF StreamOK, ControlInv, Write, Reading
  <2>4. PipeInv'
    <3>1. /\ kind = "pipe" => queue' = queue \o text
          /\ UNCHANGED <<kind, taken, lost, due, pc>>
      BY <1>17 DEF Write
    <3>2. kind = "pipe" => Len(queue') = Len(queue) + Len(text)
      BY <2>a, <3>1, Join DEF QueueOK
    <3>3. /\ Len(taken) \in Nat
          /\ kind = "pipe" => Len(queue) \in Nat
      BY DEF QueueOK
    <3>4. /\ Len(written) = Len(taken) + Len(queue)
          /\ kind = "pipe" /\ Len(queue) \in Nat
          => Len(written') = Len(taken') + Len(queue')
      BY <2>a, <3>1, <3>2, <3>3
    <3> QED BY <3>1, <3>3, <3>4 DEF PipeInv
  <2>5. SocketInv'
    <3> SUFFICES ASSUME kind = "socket" PROVE SocketInv'
      BY <1>17 DEF SocketInv, Write
    <3>1. /\ queue' = Append(queue, text) /\ queue \in Seq(Seq(Bytes))
          /\ pc \notin {"closed", "done"}
          /\ UNCHANGED <<kind, taken, lost, pc>>
      BY <1>17 DEF Write, Reading, QueueOK
    <3>2. PICK ends \in [0..Len(queue) -> Nat] : Marks(ends)
      BY <3>1 DEF SocketInv
    <3>3. /\ Len(queue') = Len(queue) + 1 /\ Len(queue) \in Nat
          /\ \A i \in 1..Len(queue) : queue'[i] = queue[i]
          /\ queue'[Len(queue')] = text
      BY <2>a, <3>1
    <3> DEFINE after == [i \in 0..Len(queue') |->
                           IF i <= Len(queue) THEN ends[i] ELSE Len(written')]
    <3>4. after \in [0..Len(queue') -> Nat]
      <4>1. Len(written') \in Nat
        BY <2>a DEF QueueOK
      <4> QED BY <3>2, <3>3, <4>1
    <3>5. after[0] = Len(taken') + lost'
      BY <3>1, <3>2, <3>3 DEF Marks
    <3>6. after[Len(queue')] = Len(written')
      BY <3>3
    <3>7. \A i \in 1..Len(queue') : after[i] = after[i - 1] + Len(queue'[i])
      <4>1. \A i \in 1..Len(queue) : after[i] = after[i - 1] + Len(queue'[i])
        <5> SUFFICES ASSUME NEW i \in 1..Len(queue)
                     PROVE  after[i] = after[i - 1] + Len(queue'[i])
          OBVIOUS
        <5>1. ends[i] = ends[i - 1] + Len(queue[i])
          BY <3>2 DEF Marks
        <5>2. after[i] = ends[i] /\ after[i - 1] = ends[i - 1]
          BY <3>3
        <5> QED BY <3>3, <5>1, <5>2
      <4>2. after[Len(queue')] = after[Len(queue)] + Len(text)
        <5>1. after[Len(queue)] = Len(written)
          BY <3>2, <3>3 DEF Marks
        <5> QED BY <2>a, <3>6, <5>1
      <4>3. \A i \in 1..Len(queue') : i \in 1..Len(queue) \/ i = Len(queue')
        BY <3>3
      <4>4. Len(queue') - 1 = Len(queue)
        BY <3>3
      <4> HIDE DEF after
      <4> QED BY <3>3, <4>1, <4>2, <4>3, <4>4
    <3> HIDE DEF after
    <3> QED BY <3>4, <3>5, <3>6, <3>7 DEF SocketInv, Marks
  <2>6. DueInv' /\ Drained'
    <3>1. UNCHANGED <<kind, taken, lost, due, pc, left, cancelled, stopped>>
      BY <1>17 DEF Write
    <3> QED BY <2>a, <3>1 DEF QueueOK, DueInv, Drained
  <2> QED BY <2>1, <2>2, <2>3, <2>4, <2>5, <2>6 DEF IInv
<1>18. CASE UNCHANGED vars
  <2>1. StreamOK'
    BY <1>18 DEF StreamOK, vars
  <2>2. QueueOK'
    BY <1>18 DEF StreamOK, QueueOK, ControlInv, vars
  <2>3. ControlInv'
    BY <1>18 DEF StreamOK, ControlInv, vars
  <2>4. PipeInv'
    BY <1>18 DEF StreamOK, QueueOK, ControlInv, PipeInv, vars
  <2>5. SocketInv'
    BY <1>18 DEF ControlInv, SocketInv, Marks, vars
  <2>6. DueInv' /\ Drained'
    BY <1>18 DEF StreamOK, QueueOK, ControlInv, PipeInv, DueInv, Drained, vars
  <2> QED BY <2>1, <2>2, <2>3, <2>4, <2>5, <2>6 DEF IInv
<1> QED
  BY <1>1, <1>2, <1>3, <1>4, <1>5, <1>6, <1>7, <1>8, <1>9, <1>10, <1>11,
     <1>12, <1>13, <1>14, <1>15, <1>16, <1>17, <1>18
  DEF Next, Routine, Environment, PipeRoutine, SocketRoutine, SocketWait

-----------------------------------------------------------------------------
(* What the lines say.  Of the bytes that were taken, decoded are the ones *)
(* that are not in buf.                                                    *)
Decoded == Len(taken) - Len(buf)
Parsed(k) == FlattenSeq([i \in 1..k |-> Rune(taken, i)])

(* A read ends inside a rune only at the end of what has been taken, and   *)
(* that is known; the bytes in buf follow the decoded ones, and begin with *)
(* no second half of a rune.                                               *)
BufInv ==
  /\ pc = "decode" <=> buf # <<>>
  /\ Len(buf) <= Len(taken)
  /\ \A i \in 1..Len(buf) : buf[i] = taken[Decoded + i]
CutInv ==
  /\ cut \subseteq 1..Len(taken)
  /\ taken # <<>> /\ taken[Len(taken)] = "L" => Len(taken) \in cut
  /\ \A i \in (Decoded + 1)..(Len(taken) - 1) : i \notin cut
  /\ ~Whole(taken, Decoded)
SentInv ==
  \/ Sent \o partial = Parsed(Decoded)
  \/ /\ left \in {"stop", "cancel"} /\ buf = <<>> /\ partial = <<>>
     /\ Sent = Append(Parsed(Decoded), "n")

TextInv == BufInv /\ CutInv /\ SentInv

(* What a byte adds to the text is a sequence of runes, and what the first *)
(* k + 1 of them add is what the first k do, and that.                     *)
LEMMA RuneTyped ==
  ASSUME NEW b \in Seq(Bytes), NEW i
  PROVE  Rune(b, i) \in Seq(Runes)
<1>1. /\ <<>> \in Seq(Runes) /\ <<"LC">> \in Seq(Runes)
      /\ <<"a">> \in Seq(Runes) /\ <<"n">> \in Seq(Runes)
      /\ <<"?">> \in Seq(Runes)
  BY DEF Runes
<1>2. b[i] \in {"a", "n"} => <<b[i]>> \in Seq(Runes)
  BY <1>1
<1> QED BY <1>1, <1>2, Zenon DEF Rune

LEMMA RuneIs ==
  ASSUME NEW b, NEW i \in Nat
  PROVE  /\ Whole(b, i - 1) => Rune(b, i) = <<>>
         /\ ~Whole(b, i - 1) /\ Whole(b, i) => Rune(b, i) = <<"LC">>
BY DEF Rune, Whole

LEMMA ParsedStep ==
  ASSUME NEW k \in Nat, taken \in Seq(Bytes)
  PROVE  /\ Parsed(k) \in Seq(Runes)
         /\ Parsed(k + 1) = Parsed(k) \o Rune(taken, k + 1)
<1> DEFINE R(i) == Rune(taken, i)
           ss == [i \in 1..k |-> R(i)]
           st == [i \in 1..(k + 1) |-> R(i)]
<1>1. \A i : R(i) \in Seq(Runes)
  BY RuneTyped
<1> HIDE DEF R
<1>2. ss \in Seq(Seq(Runes)) /\ Len(ss) = k
  BY <1>1
<1>3. st = Append(ss, R(k + 1))
  BY <1>1, <1>2
<1> HIDE DEF ss, st
<1>4. /\ FlattenSeq(ss) \in Seq(Runes)
      /\ FlattenSeq(Append(ss, R(k + 1))) = FlattenSeq(ss) \o R(k + 1)
  BY <1>1, <1>2, FlattenAppend
<1> QED BY <1>3, <1>4 DEF ss, st, R, Parsed

LEMMA ParsedZero == Parsed(0) = <<>>
<1>1. [i \in 1..0 |-> Rune(taken, i)] = <<>>
  OBVIOUS
<1> QED BY <1>1, FlattenEmpty DEF Parsed

(* sendLine adds the accumulator and a newline to what was sent.           *)
LEMMA SentStep ==
  ASSUME StreamOK
  PROVE  /\ Sent \in Seq(Runes)
         /\ SendLine => Sent' = Sent \o Append(partial, "n")
<1> DEFINE E(l) == Append(l, "n")
           ss == [i \in DOMAIN lines |-> E(lines[i])]
           st == [i \in DOMAIN Append(lines, partial) |-> E(Append(lines, partial)[i])]
<1>1. /\ lines \in Seq(Seq(Runes)) /\ partial \in Seq(Runes) /\ "n" \in Runes
      /\ Len(lines) \in Nat /\ DOMAIN lines = 1..Len(lines)
  BY DEF StreamOK, Runes
<1>2. \A l \in Seq(Runes) : E(l) \in Seq(Runes)
  BY <1>1
<1> HIDE DEF E
<1>3. ss \in Seq(Seq(Runes)) /\ Len(ss) = Len(lines)
  BY <1>1, <1>2
<1>4. st = Append(ss, E(partial))
  <2>1. /\ DOMAIN Append(lines, partial) = 1..(Len(lines) + 1)
        /\ Append(lines, partial)[Len(lines) + 1] = partial
        /\ \A i \in 1..Len(lines) : Append(lines, partial)[i] = lines[i]
    BY <1>1
  <2>2. st = [i \in 1..(Len(lines) + 1) |-> E(Append(lines, partial)[i])]
    BY <2>1
  <2>3. \A i \in 1..(Len(lines) + 1) : st[i] = IF i = Len(lines) + 1 THEN E(partial) ELSE ss[i]
    BY <1>1, <2>1, <2>2
  <2>4. st \in Seq(Seq(Runes)) /\ Len(st) = Len(lines) + 1
    BY <1>1, <1>2, <2>1, <2>2
  <2> HIDE DEF ss, st
  <2> QED BY <1>1, <1>2, <1>3, <2>3, <2>4
<1> HIDE DEF ss, st
<1>5. /\ FlattenSeq(ss) \in Seq(Runes)
      /\ FlattenSeq(Append(ss, E(partial))) = FlattenSeq(ss) \o E(partial)
  BY <1>1, <1>2, <1>3, FlattenAppend
<1>6. Sent = FlattenSeq(ss)
  BY DEF Sent, ss, E
<1>7. SendLine => Sent' = FlattenSeq(st)
  BY DEF Sent, SendLine, st, E
<1> QED BY <1>4, <1>5, <1>6, <1>7 DEF E

(* Concatenation.                                                          *)
LEMMA Concat ==
  ASSUME NEW S, NEW s \in Seq(S), NEW t \in Seq(S), NEW u \in Seq(S), NEW x \in S
  PROVE  /\ (s \o t) \o u = s \o (t \o u)
         /\ s \o <<>> = s
         /\ t \o <<x>> = Append(t, x)
<1>1. s \o <<>> = s
  OBVIOUS
<1>2. t \o <<x>> = Append(t, x)
  OBVIOUS
<1>3. (s \o t) \o u = s \o (t \o u)
  OBVIOUS
<1> QED BY <1>1, <1>2, <1>3

(* What was read, once it is known, does not change by reading more.       *)
LEMMA RuneKept ==
  ASSUME NEW b \in Seq(Bytes), taken \in Seq(Bytes), CutInv, Take(b),
         NEW k \in Nat, k <= Len(taken)
  PROVE  Parsed(k)' = Parsed(k)
<1> DEFINE n == Len(taken)
<1>1. /\ taken' = taken \o b /\ n \in Nat /\ Len(taken') = n + Len(b) /\ Len(b) \in Nat
      /\ \A i \in 1..n : taken'[i] = taken[i]
  BY DEF Take
<1>2. cut' = cut \/ (b # <<>> /\ cut' = cut \cup {n + Len(b)})
  BY DEF Take
<1>3. \A i \in 1..n : i \in cut' <=> i \in cut
  <2>1. b # <<>> => Len(b) > 0
    OBVIOUS
  <2> QED BY <1>1, <1>2, <2>1
<1>4. n > 0 /\ taken[n] = "L" => n \in cut
  BY <1>1 DEF CutInv
<1>5. ASSUME NEW i \in 0..n
      PROVE  Whole(taken, i)' <=> Whole(taken, i)
  <2>1. CASE i \in 1..(n - 1)
    BY <1>1, <1>3, <2>1 DEF Whole
  <2>2. CASE i = n /\ i # 0
    BY <1>1, <1>3, <1>4, <2>2 DEF Whole
  <2>3. CASE i = 0
    BY <1>1, <2>3 DEF Whole
  <2> QED BY <1>1, <2>1, <2>2, <2>3
<1>6. ASSUME NEW i \in 1..k
      PROVE  Rune(taken, i)' = Rune(taken, i)
  <2>1. i \in 1..n /\ i \in 0..n /\ i - 1 \in 0..n
    BY <1>1
  <2>2. taken'[i] = taken[i] /\ (Whole(taken, i)' <=> Whole(taken, i))
        /\ (Whole(taken, i - 1)' <=> Whole(taken, i - 1))
    BY <1>1, <1>5, <2>1
  <2> QED BY <2>2 DEF Rune
<1>7. [i \in 1..k |-> Rune(taken, i)]' = [i \in 1..k |-> Rune(taken, i)]
  BY <1>6
<1> QED BY <1>7 DEF Parsed

LEMMA InitTextInv == Init => TextInv
<1> SUFFICES ASSUME Init PROVE TextInv
  OBVIOUS
<1>1. BufInv /\ CutInv /\ Decoded = 0
  BY DEF Init, BufInv, CutInv, Decoded, Whole
<1>2. Sent = <<>>
  <2>1. [i \in DOMAIN lines |-> Append(lines[i], "n")] = <<>>
    BY DEF Init
  <2> QED BY <2>1, FlattenEmpty DEF Sent
<1>3. SentInv
  BY <1>1, <1>2, ParsedZero DEF Init, SentInv
<1> QED BY <1>1, <1>3 DEF TextInv

(* A step that neither reads nor sends.                                    *)
LEMMA QuietTextInv ==
  ASSUME TextInv, UNCHANGED <<buf, taken, cut, partial, lines>>,
         pc' = "decode" <=> pc = "decode", left' = left \/ left = "none"
  PROVE  TextInv'
<1>1. BufInv' /\ CutInv'
  BY DEF TextInv, BufInv, CutInv, Decoded, Whole
<1>2. Sent' = Sent /\ Decoded' = Decoded /\ Parsed(Decoded)' = Parsed(Decoded)
  BY DEF Sent, Decoded, Parsed, Rune, Whole
<1>3. SentInv'
  BY <1>2 DEF TextInv, SentInv
<1> QED BY <1>1, <1>3 DEF TextInv

(* flushPartial before the stream is left.                                 *)
LEMMA FlushTextInv ==
  ASSUME IInv, TextInv, pc = "sleep", FlushPartial, pc' = "exit",
         UNCHANGED <<buf, taken, cut>>, left' \in {"stop", "cancel"}
  PROVE  TextInv'
<1>1. left = "none" /\ StreamOK /\ taken \in Seq(Bytes)
  BY DEF IInv, ControlInv, QueueOK
<1>2. CASE UNCHANGED <<lines, partial>>
  BY <1>1, <1>2, QuietTextInv
<1>3. CASE SendLine
  <2>1. BufInv' /\ CutInv'
    BY DEF TextInv, BufInv, CutInv, Decoded, Whole
  <2>2. Decoded' = Decoded /\ Parsed(Decoded)' = Parsed(Decoded)
    BY DEF Decoded, Parsed, Rune, Whole
  <2>3. Sent \o partial = Parsed(Decoded) /\ buf = <<>>
    BY <1>1 DEF TextInv, SentInv, BufInv
  <2>4. Sent' = Append(Sent \o partial, "n")
    <3>1. Sent \in Seq(Runes) /\ Sent' = Sent \o Append(partial, "n")
      BY <1>1, <1>3, SentStep
    <3>2. partial \in Seq(Runes) /\ "n" \in Runes
      BY <1>1 DEF StreamOK, Runes
    <3>3. Sent \o Append(partial, "n") = Append(Sent \o partial, "n")
      BY <3>1, <3>2
    <3> QED BY <3>1, <3>3
  <2>5. partial' = <<>> /\ buf' = buf
    BY <1>3 DEF SendLine
  <2>6. SentInv'
    BY <2>2, <2>3, <2>4, <2>5 DEF SentInv
  <2> QED BY <2>1, <2>6 DEF TextInv
<1> QED BY <1>2, <1>3 DEF FlushPartial

(* A read.                                                                 *)
LEMMA TakeTextInv ==
  ASSUME IInv, TextInv, pc = "read", NEW b \in Seq(Bytes), Take(b),
         UNCHANGED <<partial, lines, left>>
  PROVE  TextInv'
<1>a. left = "none" /\ StreamOK /\ taken \in Seq(Bytes)
  BY DEF IInv, ControlInv, QueueOK
<1>b. PICK n \in Nat : n = Len(taken)
  BY <1>a
<1>1. left = "none" /\ taken \in Seq(Bytes) /\ n \in Nat /\ n = Len(taken)
  BY <1>a, <1>b
<1>2. buf = <<>> /\ Decoded = n
  BY <1>1 DEF TextInv, BufInv, Decoded
<1>3. /\ taken' = taken \o b /\ buf' = b /\ Len(b) \in Nat
      /\ Len(taken') = n + Len(b)
      /\ \A i \in 1..n : taken'[i] = taken[i]
      /\ \A i \in 1..Len(b) : taken'[n + i] = b[i]
  BY <1>1 DEF Take
<1>4. Decoded' = n
  BY <1>1, <1>3 DEF Decoded
<1>5. BufInv'
  <2>1. pc' = "decode" <=> buf' # <<>>
    BY DEF Take
  <2>2. \A i \in 1..Len(buf') : buf'[i] = taken'[Decoded' + i]
    BY <1>3, <1>4
  <2>3. Len(buf') <= Len(taken')
    BY <1>1, <1>3
  <2> QED BY <2>1, <2>2, <2>3, Zenon DEF BufInv
<1>6. CutInv'
  <2>1. CASE b = <<>>
    <3>1. taken' = taken /\ cut' = cut
      BY <1>1, <2>1 DEF Take
    <3> QED BY <1>2, <1>4, <3>1 DEF TextInv, CutInv, Whole
  <2>2. CASE b # <<>>
    <3>1. Len(b) > 0 /\ Last(b) = b[Len(b)] /\ taken'[Len(taken')] = Last(b)
      BY <1>1, <1>3, <2>2 DEF Last
    <3>2. cut' = IF Last(b) = "L" THEN cut \cup {n + Len(b)} ELSE cut
      BY <1>1, <2>2 DEF Take
    <3>3. cut \subseteq 1..n
      BY <1>1 DEF TextInv, CutInv
    <3>4. cut' \subseteq 1..Len(taken')
      <4>1. n + Len(b) \in 1..Len(taken') /\ 1..n \subseteq 1..Len(taken')
        BY <1>1, <1>3, <3>1
      <4> QED BY <3>2, <3>3, <4>1, Zenon
    <3>5. taken'[Len(taken')] = "L" => Len(taken') \in cut'
      BY <1>3, <3>1, <3>2
    <3>6. \A i \in (n + 1)..(Len(taken') - 1) : i \notin cut'
      BY <1>1, <1>3, <3>2, <3>3
    <3>7. ~Whole(taken, n)'
      <4>1. n > 0 /\ taken[n] = "L" => n \in cut'
        BY <1>1, <3>2 DEF TextInv, CutInv
      <4> QED BY <1>1, <1>3, <4>1 DEF Whole
    <3>8. ~Whole(taken, Decoded)'
      BY <1>4, <3>7
    <3> QED BY <1>4, <3>4, <3>5, <3>6, <3>8 DEF CutInv
  <2> QED BY <2>1, <2>2
<1>7. SentInv'
  <2>1. Parsed(n)' = Parsed(n)
    BY <1>1, RuneKept DEF TextInv
  <2>2. Sent' = Sent
    BY DEF Sent
  <2>3. Sent \o partial = Parsed(n)
    BY <1>1, <1>2 DEF TextInv, SentInv
  <2>4. Parsed(Decoded)' = Parsed(n)'
    BY <1>4
  <2> QED BY <2>1, <2>2, <2>3, <2>4 DEF SentInv
<1> QED BY <1>5, <1>6, <1>7 DEF TextInv

(* One rune of decodeAndSend: its bytes are the next ones that were taken. *)
LEMMA DecodeTextInv ==
  ASSUME IInv, TextInv, DecodeAndSend
  PROVE  TextInv'
<1> DEFINE r == DecodeRune(buf)
<1>1. /\ StreamOK /\ taken \in Seq(Bytes) /\ buf \in Seq(Bytes) /\ buf # <<>>
      /\ left = "none" /\ pc = "decode"
  BY DEF IInv, StreamOK, QueueOK, ControlInv, TextInv, BufInv, DecodeAndSend
<1>a. Len(taken) \in Nat /\ Decoded \in Nat
  BY <1>1 DEF Decoded, TextInv, BufInv
<1>b. PICK n \in Nat, k \in Nat : n = Len(taken) /\ k = Decoded
  BY <1>a
<1>c. PICK x, w : x = r[1] /\ w = r[2]
  OBVIOUS
<1>2. n \in Nat /\ Len(buf) \in Nat /\ Len(buf) > 0 /\ k \in Nat /\ k + Len(buf) = n
  BY <1>1, <1>b DEF Decoded, TextInv, BufInv
<1>3. /\ \A i \in 1..Len(buf) : buf[i] = taken[k + i]
      /\ \A i \in (k + 1)..(n - 1) : i \notin cut
      /\ ~Whole(taken, k)
  BY <1>b DEF TextInv, BufInv, CutInv
<1>4. /\ UNCHANGED <<taken, cut, left>>
      /\ buf' = SubSeq(buf, w + 1, Len(buf))
      /\ pc' = "decode" <=> buf' # <<>>
      /\ IF x = "n" THEN SendLine
         ELSE partial' = Append(partial, x) /\ UNCHANGED lines
  BY <1>c DEF DecodeAndSend, ghostVars
<1>5. \A i : /\ Whole(taken, i)' <=> Whole(taken, i)
             /\ Rune(taken, i)' = Rune(taken, i)
             /\ Parsed(i)' = Parsed(i)
  BY <1>4 DEF Whole, Rune, Parsed
<1>6. /\ x \in Runes /\ w \in {1, 2} /\ w <= Len(buf)
      /\ ~Whole(taken, k + w)
      /\ Parsed(k + w) = Parsed(k) \o <<x>>
  <2> DEFINE two == Len(buf) > 1 /\ buf[1] = "L" /\ buf[2] = "C"
  <2>1. buf[1] = taken[k + 1] /\ (Len(buf) > 1 => buf[2] = taken[k + 2])
    BY <1>2, <1>3
  <2>2. Whole(taken, k + 1) <=> two
    BY <1>2, <1>3, <1>b, <2>1 DEF Whole
  <2>3. Parsed(k + 1) = Parsed(k) \o Rune(taken, k + 1) /\ Parsed(k) \in Seq(Runes)
    BY <1>1, <1>2, ParsedStep
  <2>4. /\ k + 1 - 1 = k /\ k + 2 - 1 = k + 1 /\ k + 1 + 1 = k + 2
        /\ k + 1 \in Nat /\ k + 2 \in Nat
    BY <1>2
  <2>5. CASE two
    <3>1. x = "LC" /\ w = 2
      BY <1>c, <2>5 DEF DecodeRune
    <3>2. Rune(taken, k + 1) = <<"LC">> /\ Rune(taken, k + 2) = <<>>
      <4>1. Whole(taken, k + 1) /\ ~Whole(taken, k)
        BY <1>3, <2>2, <2>5
      <4>2. ~Whole(taken, k + 1 - 1) /\ Whole(taken, k + 2 - 1)
        BY <2>4, <4>1, Zenon
      <4>3. Rune(taken, k + 1) = <<"LC">>
        BY <2>4, <4>1, <4>2, RuneIs
      <4>4. Rune(taken, k + 2) = <<>>
        BY <2>4, <4>2, RuneIs
      <4> QED BY <4>3, <4>4
    <3>3. ~Whole(taken, k + 2)
      BY <2>1, <2>5 DEF Whole
    <3>4. Parsed(k + 2) = Parsed(k + 1) \o Rune(taken, k + 2)
      BY <1>1, <2>4, ParsedStep
    <3>5. Parsed(k) \o <<"LC">> \in Seq(Runes) /\ "LC" \in Runes
      BY <2>3 DEF Runes
    <3>6. (Parsed(k) \o <<"LC">>) \o <<>> = Parsed(k) \o <<"LC">>
      BY <3>5, Concat
    <3>7. Parsed(k + 2) = Parsed(k) \o <<"LC">>
      BY <2>3, <3>2, <3>4, <3>6
    <3>8. 2 <= Len(buf)
      BY <1>2, <2>5
    <3> QED BY <3>1, <3>3, <3>5, <3>7, <3>8
  <2>6. CASE ~two
    <3>1. /\ x = IF buf[1] \in {"a", "n"} THEN buf[1] ELSE "?"
          /\ w = 1
      BY <1>c, <2>6 DEF DecodeRune
    <3>2. Rune(taken, k + 1) = IF buf[1] \in {"a", "n"} THEN <<buf[1]>> ELSE <<"?">>
      BY <1>3, <2>1, <2>2, <2>4, <2>6 DEF Rune
    <3>3. x \in Runes /\ w = 1 /\ Rune(taken, k + 1) = <<x>>
      BY <3>1, <3>2 DEF Runes
    <3>4. ~Whole(taken, k + 1) /\ Parsed(k + 1) = Parsed(k) \o <<x>>
      BY <2>2, <2>3, <2>6, <3>3
    <3>5. 1 <= Len(buf)
      BY <1>2
    <3> QED BY <3>3, <3>4, <3>5
  <2> QED BY <2>5, <2>6
<1>7. /\ Len(buf') = Len(buf) - w /\ buf' \in Seq(Bytes)
      /\ \A i \in 1..Len(buf') : buf'[i] = buf[i + w]
  BY <1>1, <1>2, <1>4, <1>6
<1>8. Decoded' = k + w
  <2>1. Decoded' = n - (Len(buf) - w)
    BY <1>4, <1>7, <1>b DEF Decoded
  <2> QED BY <1>2, <1>6, <2>1
<1>9. BufInv'
  <2>1. ASSUME NEW i \in 1..Len(buf') PROVE buf'[i] = taken'[Decoded' + i]
    <3>1. i + w \in 1..Len(buf) /\ k + (i + w) = Decoded' + i
      BY <1>2, <1>6, <1>7, <1>8
    <3> QED BY <1>3, <1>4, <1>7, <3>1
  <2>2. Len(buf') <= Len(taken')
    BY <1>2, <1>4, <1>6, <1>7, <1>b
  <2> QED BY <1>4, <2>1, <2>2 DEF BufInv
<1>10. CutInv'
  <2>1. \A i \in (k + w + 1)..(n - 1) : i \notin cut
    BY <1>2, <1>3, <1>6
  <2>2. ~Whole(taken, Decoded)'
    BY <1>5, <1>6, <1>8
  <2> QED BY <1>4, <1>8, <1>b, <2>1, <2>2 DEF TextInv, CutInv
<1>11. SentInv'
  <2>1. Sent \o partial = Parsed(k)
    BY <1>1, <1>b DEF TextInv, SentInv
  <2>2. /\ Sent \in Seq(Runes) /\ partial \in Seq(Runes)
        /\ SendLine => Sent' = Sent \o Append(partial, "n")
    BY <1>1, SentStep DEF StreamOK
  <2>3. /\ Append(partial, x) = partial \o <<x>>
        /\ <<x>> \in Seq(Runes)
        /\ Append(partial, x) \in Seq(Runes)
    BY <1>6, <2>2
  <2>4. Sent \o Append(partial, x) = (Sent \o partial) \o <<x>>
    BY <1>6, <2>2, <2>3, Concat
  <2>5. Sent' \o partial' = Sent \o Append(partial, x)
    <3>1. CASE x = "n"
      <4>1. Sent' = Sent \o Append(partial, x) /\ partial' = <<>>
        BY <1>4, <2>2, <3>1 DEF SendLine
      <4>2. Sent \o Append(partial, x) \in Seq(Runes)
        BY <2>2, <2>3
      <4> QED BY <4>1, <4>2
    <3>2. CASE x # "n"
      <4>1. Sent' = Sent
        BY <1>4, <3>2 DEF Sent
      <4> QED BY <1>4, <3>2, <4>1
    <3> QED BY <3>1, <3>2
  <2>6. Parsed(Decoded)' = Parsed(k + w)
    BY <1>5, <1>8
  <2>7. Sent' \o partial' = Parsed(Decoded)'
    BY <1>6, <2>1, <2>4, <2>5, <2>6
  <2> QED BY <2>7 DEF SentInv
<1> QED BY <1>9, <1>10, <1>11 DEF TextInv

(* Every step preserves what is said of the text.                          *)
LEMMA NextTextInv == IInv /\ TextInv /\ [Next]_vars => TextInv'
<1> SUFFICES ASSUME IInv, TextInv, [Next]_vars PROVE TextInv'
  OBVIOUS
<1> USE DEF streamVars, kernelVars, askedVars, ghostVars
<1>1. CASE New \/ Close \/ WgDone \/ PipeOpen \/ SocketOpen \/ Wait
  <2>1. /\ UNCHANGED <<buf, taken, cut, partial, lines, left>>
        /\ pc # "decode" /\ pc' # "decode"
    BY <1>1 DEF New, Close, WgDone, PipeOpen, SocketOpen, Wait
  <2> QED BY <2>1, QuietTextInv
<1>2. CASE Cancel \/ Stop \/ Connect \/ Disconnect \/ Unlink \/ UNCHANGED vars
  <2>1. UNCHANGED <<buf, taken, cut, partial, lines, left, pc>>
    BY <1>2 DEF Cancel, Stop, Connect, Disconnect, Unlink, vars
  <2> QED BY <2>1, QuietTextInv
<1>3. ASSUME NEW text \in Texts, Write(text) PROVE TextInv'
  <2>1. UNCHANGED <<buf, taken, cut, partial, lines, left, pc>>
    BY <1>3 DEF Write
  <2> QED BY <2>1, QuietTextInv
<1>4. CASE DecodeAndSend
  BY <1>4, DecodeTextInv
<1>5. CASE kind = "pipe" /\ PipeRead
  <2> DEFINE n == IF Len(queue) < BufSize THEN Len(queue) ELSE BufSize
  <2>1. pc = "read" /\ UNCHANGED <<partial, lines>> /\ left = "none"
    BY <1>5 DEF PipeRead, IInv, ControlInv
  <2>2. CASE Take(SubSeq(queue, 1, n)) /\ UNCHANGED left
    <3>1. queue \in Seq(Bytes) /\ n \in 0..Len(queue)
      BY <1>5, ByteAssumption DEF IInv, QueueOK
    <3> HIDE DEF n
    <3>2. SubSeq(queue, 1, n) \in Seq(Bytes)
      BY <3>1, Split
    <3> QED BY <2>1, <2>2, <3>2, TakeTextInv
  <2>3. CASE pc' # "decode" /\ UNCHANGED <<buf, taken, cut>>
    BY <2>1, <2>3, QuietTextInv
  <2> QED BY <1>5, <2>2, <2>3 DEF PipeRead, Leave
<1>6. CASE kind = "socket" /\ SocketRead
  <2> DEFINE b == Head(queue)
             n == IF Len(b) < BufSize THEN Len(b) ELSE BufSize
  <2>1. pc = "read" /\ UNCHANGED <<partial, lines>> /\ left = "none"
    BY <1>6 DEF SocketRead, IInv, ControlInv
  <2>2. CASE queue # <<>> /\ Take(SubSeq(b, 1, n)) /\ UNCHANGED left
    <3>1. b \in Seq(Bytes) /\ n \in 0..Len(b)
      BY <1>6, <2>2, ByteAssumption DEF IInv, QueueOK
    <3> HIDE DEF n, b
    <3>2. SubSeq(b, 1, n) \in Seq(Bytes)
      BY <3>1, Split
    <3> QED BY <2>1, <2>2, <3>2, TakeTextInv
  <2>3. CASE pc' # "decode" /\ UNCHANGED <<buf, taken, cut>>
    BY <2>1, <2>3, QuietTextInv
  <2> QED BY <1>6, <2>2, <2>3 DEF SocketRead
<1>7. CASE PipeSleep \/ SocketSleep
  <2>1. pc = "sleep" /\ UNCHANGED <<buf, taken, cut>>
    BY <1>7 DEF PipeSleep, SocketSleep
  <2>2. CASE FlushPartial /\ pc' = "exit" /\ left' \in {"stop", "cancel"}
    BY <2>1, <2>2, FlushTextInv
  <2>3. CASE pc' = "wait" /\ UNCHANGED <<partial, lines, left>>
    BY <2>1, <2>3, QuietTextInv
  <2> QED BY <1>7, <2>2, <2>3 DEF PipeSleep, SocketSleep, Leave
<1> QED BY <1>1, <1>2, <1>3, <1>4, <1>5, <1>6, <1>7
        DEF Next, Routine, Environment, PipeRoutine, SocketRoutine, SocketWait

-----------------------------------------------------------------------------
(* The inductive invariant is an invariant of the streams.                 *)
THEOREM StreamsIInv == Spec => []IInv
<1>1. Init => IInv
  BY InitIInv
<1>2. IInv /\ [Next]_vars => IInv'
  BY NextIInv
<1> QED BY <1>1, <1>2, PTL DEF Spec

(* A pipe that came to its end, and a socket that was stopped gracefully,  *)
(* have read all that was written before (pipestream.go:103-118,           *)
(* socketstream.go:147).                                                   *)
THEOREM StreamsDrained == Spec => []Drained
<1>1. IInv => Drained
  BY DEF IInv
<1> QED BY <1>1, StreamsIInv, PTL

(* No rune is lost, repeated or changed between the bytes that were read   *)
(* and the lines that were sent (decode.go:15-60), but for the runes that  *)
(* a read has cut in two; whatever bytes the clients write, and however    *)
(* the reads and the datagrams divide them.                                *)
THEOREM StreamsTextKept == Spec => []TextKept
<1>1. Init => TextInv
  BY InitTextInv
<1>2. IInv /\ TextInv /\ [Next]_vars => TextInv'
  BY NextTextInv
<1>3. IInv /\ TextInv => TextKept
  <2> SUFFICES ASSUME IInv, TextInv, pc # "decode" PROVE TextKept
    BY DEF TextKept
  <2>1. buf = <<>> /\ taken \in Seq(Bytes)
    BY DEF TextInv, BufInv, IInv, QueueOK
  <2>2. Decoded = Len(taken) /\ DOMAIN taken = 1..Len(taken)
    BY <2>1 DEF Decoded
  <2>3. Parsed(Decoded) = Text(taken)
    BY <2>2 DEF Parsed, Text
  <2> QED BY <2>3 DEF TextInv, SentInv, TextKept
<1> QED BY <1>1, <1>2, <1>3, StreamsIInv, PTL DEF Spec

(* A line more in lines is a line more in what the contract calls sent.    *)
LEMMA SendsOneLine ==
  ASSUME StreamOK, SendLine
  PROVE  L!OneMoreLine
BY DEF StreamOK, SendLine, L!OneMoreLine

(* Each step of a stream is a step of the contract of logstream.go, or     *)
(* leaves all that the contract speaks of unchanged.                       *)
LEMMA StepImplementsLogStream ==
  IInv /\ [Next]_vars => [L!Next]_(L!vars)
<1> SUFFICES ASSUME IInv, [Next]_vars PROVE L!Next \/ UNCHANGED L!vars
  OBVIOUS
<1> USE DEF L!vars, streamVars, kernelVars, askedVars, ghostVars
<1>a. StreamOK /\ ControlInv
  BY DEF IInv
<1>1. CASE New \/ Wait \/ Cancel \/ Connect \/ Disconnect \/ Unlink
           \/ UNCHANGED vars
  BY <1>1 DEF New, Wait, Cancel, Connect, Disconnect, Unlink, vars
<1>2. ASSUME NEW text \in Texts, Write(text) PROVE UNCHANGED L!vars
  BY <1>2 DEF Write
<1>3. CASE DecodeAndSend
  <2>1. CASE SendLine
    <3>1. L!Send
      BY <1>a, <1>3, <2>1, SendsOneLine DEF DecodeAndSend, ControlInv, L!Send
    <3> QED BY <3>1 DEF L!Next
  <2>2. CASE UNCHANGED lines
    BY <1>3, <2>2 DEF DecodeAndSend
  <2> QED BY <1>3, <2>1, <2>2 DEF DecodeAndSend
<1>4. CASE PipeOpen \/ SocketOpen
  <2>1. CASE wg' = wg + 1
    <3>1. L!Start
      BY <1>a, <1>4, <2>1 DEF PipeOpen, SocketOpen, ControlInv, L!Start
    <3> QED BY <3>1 DEF L!Next
  <2>2. CASE UNCHANGED wg
    BY <1>4, <2>2 DEF PipeOpen, SocketOpen
  <2> QED BY <1>4, <2>1, <2>2 DEF PipeOpen, SocketOpen
<1>5. CASE PipeRead \/ SocketRead
  <2>1. CASE UNCHANGED completed
    BY <1>5, <2>1 DEF PipeRead, SocketRead
  <2>2. CASE completed' = TRUE
    <3>1. pc = "read" /\ UNCHANGED <<lines, wg, stopped>>
      BY <1>5 DEF PipeRead, SocketRead
    <3>2. L!Finish
      BY <1>a, <2>2, <3>1 DEF ControlInv, L!Finish
    <3> QED BY <3>2 DEF L!Next
  <2> QED BY <1>5, <2>1, <2>2 DEF PipeRead, SocketRead, Leave
<1>6. CASE PipeSleep \/ SocketSleep
  <2>1. /\ pc = "sleep" /\ UNCHANGED <<wg, askedVars>>
        /\ \/ FlushPartial /\ completed' = TRUE
           \/ UNCHANGED <<lines, completed>>
    BY <1>6 DEF PipeSleep, SocketSleep, Leave
  <2>2. CASE FlushPartial /\ completed' = TRUE
    <3>1. L!OneMoreLine \/ UNCHANGED lines
      BY <1>a, <2>2, SendsOneLine DEF FlushPartial
    <3>2. L!Finish
      BY <1>a, <2>1, <2>2, <3>1 DEF ControlInv, L!Finish
    <3> QED BY <3>2 DEF L!Next
  <2> QED BY <2>1, <2>2
<1>7. CASE Close
  <2>1. CASE completed
    BY <1>a, <1>7, <2>1 DEF StreamOK, Close
  <2>2. CASE ~completed
    <3>1. L!Finish
      BY <1>a, <1>7, <2>2 DEF ControlInv, Close, L!Finish
    <3> QED BY <3>1 DEF L!Next
  <2> QED BY <2>1, <2>2
<1>8. CASE WgDone
  <2>1. L!Done
    BY <1>a, <1>8 DEF ControlInv, WgDone, L!Done
  <2> QED BY <2>1 DEF L!Next
<1>9. CASE Stop
  <2>1. L!Stop
    BY <1>9 DEF Stop, L!Stop
  <2> QED BY <2>1 DEF L!Next
<1> QED BY <1>1, <1>2, <1>3, <1>4, <1>5, <1>6, <1>7, <1>8, <1>9
        DEF Next, Routine, Environment, PipeRoutine, SocketRoutine, SocketWait

(* A pipe's and a socket's stream keep the contract that the Tailer relies *)
(* on, as fileStream does: a line is sent only while a goroutine of the    *)
(* stream is counted in the WaitGroup, and none after it is complete.      *)
THEOREM StreamsImplementLogStream == Spec => ImplementsLogStream
<1>1. Init => L!Init
  BY DEF Init, L!Init
<1>2. IInv /\ [Next]_vars => [L!Next]_(L!vars)
  BY StepImplementsLogStream
<1> QED BY <1>1, <1>2, StreamsIInv, PTL DEF Spec, ImplementsLogStream, L!Spec
=============================================================================
