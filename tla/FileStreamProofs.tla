-------------------------- MODULE FileStreamProofs --------------------------
(***************************************************************************)
(* Proofs about fileStream, for any number of bytes, files and failures,   *)
(* any buffer size, read from the start or from the end.                   *)
(***************************************************************************)
EXTENDS FileStream, TLAPS

(* The files hold disjoint intervals of bytes in the order of their        *)
(* creation, and the name belongs to the latest file or to none.           *)
FilesInv ==
  /\ path \in {NoInode, inodes}
  /\ \A i \in Inodes : i <= writer => first[i] <= End(i)
  /\ \A i, j \in Inodes : i < j /\ j <= writer => end[i] <= first[j]

(* Where the goroutine is, and what that says of the stream.               *)
ControlInv ==
  /\ pc \in {"new", "open"} => /\ lines = <<>> /\ partial = <<>>
                               /\ wg = 0 /\ ~completed
                               /\ fd = NoInode /\ lo = 0 /\ hi = 0
  /\ pc = "open" => fi # NoInode
  /\ pc \in Running => fd # NoInode /\ wg > 0 /\ ~completed

(* As long as every open has opened the file its Stat had seen, the reader *)
(* never goes back: the next byte it reads of its file is at or beyond hi, *)
(* either because it stands right behind the last byte read or because the *)
(* file was truncated since.                                               *)
PositionInv ==
  ~misopened /\ fd # NoInode =>
    /\ fi = fd
    /\ pc = "reopen" => newfi > fd
    /\ pc = "trunc" => hi <= First(fd)
    /\ \/ hi <= First(fd)
       \/ hi = First(fd) + off /\ off <= Size(fd)

(* The bytes sent increase, those in the accumulator follow them, and all  *)
(* come before the byte to decode next.                                    *)
OrderInv ==
  ~misopened =>
    /\ InOrderOnce
    /\ \A j \in 1..Len(partial) : partial[j] < lo
    /\ \A j, m \in 1..Len(partial) : j < m => partial[j] < partial[m]
    /\ \A i \in 1..Len(lines) : \A j \in 1..Len(lines[i]) :
         /\ lines[i][j] < lo
         /\ \A m \in 1..Len(partial) : lines[i][j] < partial[m]

IInv == TypeOK /\ FilesInv /\ ControlInv /\ PositionInv /\ OrderInv

(* TypeOK by the kind of the variables.                                    *)
NumbersOK ==
  /\ fi \in 0..inodes /\ fd \in 0..inodes /\ newfi \in 0..inodes
  /\ off \in 0..written /\ lo \in 0..written /\ hi \in lo..written
  /\ wg \in Nat /\ from \in 0..written /\ due \in 0..written

FlagsOK ==
  /\ pc \in PCs
  /\ eof \in BOOLEAN /\ stopped \in BOOLEAN /\ cancelled \in BOOLEAN
  /\ completed \in BOOLEAN
  /\ misopened \in BOOLEAN /\ truncPending \in BOOLEAN

SequencesOK == partial \in Seq(Nat) /\ lines \in Seq(Seq(Nat))

(* Type correctness is that of its parts.                                  *)
LEMMA TypeParts == TypeOK <=> FsTypeOK /\ NumbersOK /\ FlagsOK /\ SequencesOK
BY DEF TypeOK, NumbersOK, FlagsOK, SequencesOK

-----------------------------------------------------------------------------
(* The initial states satisfy the inductive invariant.                     *)
LEMMA InitIInv == Init => IInv
<1> SUFFICES ASSUME Init PROVE IInv
  OBVIOUS
<1> USE BoundsAssumption, StreamAssumption
    DEF Init, FsInit, NoInode, Inodes
<1>1. TypeOK
  <2>1. FsTypeOK
    BY DEF FsTypeOK
  <2>2. /\ partial \in Seq(Nat) /\ lines \in Seq(Seq(Nat))
        /\ lo \in 0..written /\ hi \in lo..written
    OBVIOUS
  <2>3. pc \in PCs
    BY DEF PCs
  <2>4. /\ fi \in 0..inodes /\ fd \in 0..inodes /\ newfi \in 0..inodes
        /\ off \in 0..written /\ wg \in Nat
        /\ from \in 0..written /\ due \in 0..written
    OBVIOUS
  <2>5. /\ eof \in BOOLEAN /\ stopped \in BOOLEAN /\ cancelled \in BOOLEAN
        /\ completed \in BOOLEAN
        /\ misopened \in BOOLEAN /\ truncPending \in BOOLEAN
    OBVIOUS
  <2> HIDE DEF Init
  <2> QED BY <2>1, <2>2, <2>3, <2>4, <2>5 DEF TypeOK
<1>2. FilesInv
  BY DEF FilesInv, End
<1>3. ControlInv
  BY DEF ControlInv, Running
<1>4. PositionInv /\ OrderInv
  BY DEF PositionInv, OrderInv, InOrderOnce
<1> QED BY <1>1, <1>2, <1>3, <1>4 DEF IInv

(* What every file's interval looks like.                                  *)
LEMMA Intervals ==
  ASSUME TypeOK, FilesInv, NEW i \in Inodes
  PROVE  /\ First(i) \in 0..written
         /\ End(i) \in 0..written
         /\ First(i) <= End(i)
         /\ Size(i) \in 0..written
         /\ \A j \in Inodes : i < j => End(i) <= First(j)
BY BoundsAssumption DEF TypeOK, FsTypeOK, FilesInv, First, End, Size, Inodes

(* A file's end never moves back, and neither does its first byte, which   *)
(* moves, if it moves, to where the next byte will be written.             *)
LEMMA FilesStep ==
  ASSUME TypeOK, FilesInv, [Next]_vars
  PROVE  /\ FsTypeOK' /\ FilesInv'
         /\ inodes <= inodes' /\ written <= written'
         /\ \A i \in Inodes : /\ First(i)' = First(i) \/ First(i)' >= written
                              /\ First(i) <= First(i)'
                              /\ End(i) <= End(i)'
<1> USE BoundsAssumption DEF TypeOK, FsTypeOK, Inodes, NoInode
<1>1. CASE UNCHANGED fsVars
  BY <1>1 DEF FilesInv, First, End, fsVars
<1>2. ASSUME NEW newline \in BOOLEAN, Append1(newline)
      PROVE  /\ FsTypeOK' /\ FilesInv'
             /\ inodes <= inodes' /\ written <= written'
             /\ \A i \in Inodes :
                  /\ First(i)' = First(i) \/ First(i)' >= written
                  /\ First(i) <= First(i)'
                  /\ End(i) <= End(i)'
  BY <1>2 DEF FilesInv, First, End, Append1
<1>3. CASE Create
  BY <1>3 DEF FilesInv, First, End, Create
<1>4. CASE Remove
  BY <1>4 DEF FilesInv, First, End, Remove
<1>5. CASE WriterReopen
  BY <1>5 DEF FilesInv, First, End, WriterReopen
<1>6. CASE TruncateFile
  BY <1>6 DEF FilesInv, First, End, Size, TruncateFile
<1>7. CASE SyscallFails
  BY <1>7 DEF FilesInv, First, End, SyscallFails
<1>8. \/ UNCHANGED fsVars \/ Create \/ Remove \/ WriterReopen
      \/ TruncateFile \/ SyscallFails
      \/ \E newline \in BOOLEAN : Append1(newline)
  BY DEF Next, Step, New, Open, Read, ReadError, DecodeAndSend, Decoded,
         StatAtEOF, Reopen, Truncated, Sleep, Wait, Flush, RoutineDone, Stop,
         Cancel, Truncate, Environment, vars
<1> QED BY <1>1, <1>2, <1>3, <1>4, <1>5, <1>6, <1>7, <1>8

-----------------------------------------------------------------------------
(* How the steps act on what was sent and on the accumulator.              *)

(* The bytes are numbers, and domains of sequences are intervals.          *)
LEMMA Bytes ==
  ASSUME TypeOK
  PROVE  /\ DOMAIN lines = 1..Len(lines) /\ Len(lines) \in Nat
         /\ DOMAIN partial = 1..Len(partial) /\ Len(partial) \in Nat
         /\ \A j \in 1..Len(partial) : partial[j] \in Nat
         /\ \A i \in 1..Len(lines) :
              /\ DOMAIN lines[i] = 1..Len(lines[i]) /\ Len(lines[i]) \in Nat
              /\ \A j \in 1..Len(lines[i]) : lines[i][j] \in Nat
         /\ lo \in Nat /\ hi \in Nat
<1>1. lines \in Seq(Seq(Nat)) /\ partial \in Seq(Nat)
  BY DEF TypeOK
<1>2. lo \in Nat /\ hi \in Nat
  BY DEF TypeOK, FsTypeOK
<1>3. DOMAIN lines = 1..Len(lines) /\ Len(lines) \in Nat
  BY <1>1
<1>4. /\ DOMAIN partial = 1..Len(partial) /\ Len(partial) \in Nat
      /\ \A j \in 1..Len(partial) : partial[j] \in Nat
  BY <1>1
<1>5. ASSUME NEW i \in 1..Len(lines)
      PROVE  /\ DOMAIN lines[i] = 1..Len(lines[i]) /\ Len(lines[i]) \in Nat
             /\ \A j \in 1..Len(lines[i]) : lines[i][j] \in Nat
  <2>1. lines[i] \in Seq(Nat)
    BY <1>1
  <2> QED BY <2>1
<1> QED BY <1>2, <1>3, <1>4, <1>5

(* Nothing is decoded and the decoder does not move back.                  *)
LEMMA OrderKept ==
  ASSUME TypeOK, OrderInv, lo' \in Nat, lo <= lo',
         UNCHANGED <<lines, partial, misopened>>
  PROVE  OrderInv'
<1> SUFFICES ASSUME ~misopened PROVE OrderInv'
  BY DEF OrderInv
<1>1. InOrderOnce'
  BY DEF OrderInv, InOrderOnce
<1>2. \A j \in 1..Len(partial) : partial[j] < lo'
  BY Bytes DEF OrderInv
<1>3. \A i \in 1..Len(lines) : \A j \in 1..Len(lines[i]) : lines[i][j] < lo'
  BY Bytes DEF OrderInv
<1> QED BY <1>1, <1>2, <1>3 DEF OrderInv

(* The accumulator is sent as a line.                                      *)
LEMMA OrderSent ==
  ASSUME TypeOK, OrderInv, lo' \in Nat, lo <= lo', SendLine,
         UNCHANGED misopened
  PROVE  OrderInv' /\ lines' \in Seq(Seq(Nat)) /\ partial' \in Seq(Nat)
<1>1. /\ Len(lines') = Len(lines) + 1
      /\ lines'[Len(lines) + 1] = partial
      /\ \A i \in 1..Len(lines) : lines'[i] = lines[i]
      /\ Len(partial') = 0
      /\ DOMAIN lines' = 1..(Len(lines) + 1)
      /\ lines' \in Seq(Seq(Nat)) /\ partial' \in Seq(Nat)
  BY DEF TypeOK, SendLine
<1> SUFFICES ASSUME ~misopened PROVE OrderInv'
  BY <1>1 DEF OrderInv
<1> DEFINE n == Len(lines) + 1
<1>a. Len(lines) \in Nat /\ DOMAIN lines = 1..Len(lines)
  BY Bytes
<1>2. ASSUME NEW i \in 1..n, NEW k \in 1..n,
             NEW j \in DOMAIN lines'[i], NEW m \in DOMAIN lines'[k],
             i < k \/ (i = k /\ j < m)
      PROVE  lines'[i][j] < lines'[k][m]
  <2>1. CASE k # n
    <3>1. i \in DOMAIN lines /\ k \in DOMAIN lines
      BY <1>2, <1>a, <2>1
    <3>2. lines'[i] = lines[i] /\ lines'[k] = lines[k]
      BY <1>1, <1>a, <3>1
    <3> QED BY <1>2, <3>1, <3>2 DEF OrderInv, InOrderOnce
  <2>2. CASE k = n /\ i # n
    <3>a. i \in 1..Len(lines)
      BY <1>a, <2>2
    <3>1. i \in 1..Len(lines) /\ lines'[i] = lines[i] /\ lines'[k] = partial
      BY <1>1, <2>2, <3>a
    <3>2. j \in 1..Len(lines[i]) /\ m \in 1..Len(partial)
      BY <1>2, <3>1, Bytes
    <3> QED BY <3>1, <3>2 DEF OrderInv
  <2>3. CASE k = n /\ i = n
    <3>1. lines'[i] = partial /\ lines'[k] = partial /\ j < m
      BY <1>1, <1>2, <1>a, <2>3
    <3>2. j \in 1..Len(partial) /\ m \in 1..Len(partial)
      BY <1>2, <3>1, Bytes
    <3> QED BY <3>1, <3>2 DEF OrderInv
  <2> QED BY <2>1, <2>2, <2>3
<1>3. InOrderOnce'
  BY <1>1, <1>2 DEF InOrderOnce
<1>4. ASSUME NEW i \in 1..Len(lines'), NEW j \in 1..Len(lines'[i])
      PROVE  lines'[i][j] < lo'
  <2>1. CASE i # n
    <3>a. i \in 1..Len(lines)
      BY <1>1, <1>a, <2>1
    <3>1. i \in 1..Len(lines) /\ lines'[i] = lines[i]
      BY <1>1, <3>a
    <3>2. lines[i][j] \in Nat /\ lines[i][j] < lo
      BY <3>1, Bytes DEF OrderInv
    <3> QED BY <3>1, <3>2, Bytes
  <2>2. CASE i = n
    <3>1. lines'[i] = partial
      BY <1>1, <2>2
    <3>2. partial[j] \in Nat /\ partial[j] < lo
      BY <3>1, Bytes DEF OrderInv
    <3> QED BY <3>1, <3>2, Bytes
  <2> QED BY <2>1, <2>2
<1> QED BY <1>1, <1>3, <1>4 DEF OrderInv

(* The byte at lo goes into the accumulator.                               *)
LEMMA OrderAppended ==
  ASSUME TypeOK, OrderInv, lo' = lo + 1, partial' = Append(partial, lo),
         UNCHANGED <<lines, misopened>>
  PROVE  OrderInv' /\ partial' \in Seq(Nat)
<1>1. /\ Len(partial') = Len(partial) + 1
      /\ partial'[Len(partial) + 1] = lo
      /\ \A j \in 1..Len(partial) : partial'[j] = partial[j]
      /\ partial' \in Seq(Nat)
  BY Bytes DEF TypeOK
<1> SUFFICES ASSUME ~misopened PROVE OrderInv'
  BY <1>1 DEF OrderInv
<1>2. InOrderOnce'
  BY DEF OrderInv, InOrderOnce
<1>3. \A j \in 1..Len(partial') : partial'[j] < lo'
  BY <1>1, Bytes DEF OrderInv
<1>4. ASSUME NEW j \in 1..Len(partial'), NEW m \in 1..Len(partial'), j < m
      PROVE  partial'[j] < partial'[m]
  <2>1. j \in 1..Len(partial) /\ partial'[j] = partial[j]
    BY <1>1, <1>4, Bytes
  <2>2. CASE m \in 1..Len(partial)
    BY <1>1, <1>4, <2>1, <2>2 DEF OrderInv
  <2>3. CASE m = Len(partial) + 1
    BY <1>1, <2>1, <2>3 DEF OrderInv
  <2> QED BY <1>1, <2>2, <2>3, Bytes
<1>5. \A i \in 1..Len(lines) : \A j \in 1..Len(lines[i]) :
        /\ lines[i][j] < lo'
        /\ \A m \in 1..Len(partial') : lines[i][j] < partial'[m]
  BY <1>1, Bytes DEF OrderInv
<1> QED BY <1>2, <1>3, <1>4, <1>5 DEF OrderInv

-----------------------------------------------------------------------------
(* A step that leaves the position and the accumulator alone, whatever the *)
(* writer and the rotation do.                                             *)
LEMMA PositionKept ==
  ASSUME IInv, [Next]_vars,
         UNCHANGED <<fi, fd, off, hi, newfi, misopened>>,
         pc' \in {"reopen", "trunc"} => pc' = pc
  PROVE  PositionInv'
<1> USE BoundsAssumption DEF IInv, NoInode
<1> SUFFICES ASSUME ~misopened, fd # 0 PROVE PositionInv'
  BY DEF PositionInv
<1>1. fd \in Inodes /\ hi \in 0..written /\ off \in Nat
  BY DEF TypeOK, FsTypeOK, Inodes
<1>2. /\ First(fd)' = First(fd) \/ First(fd)' >= written
      /\ First(fd) <= First(fd)' /\ End(fd) <= End(fd)'
      /\ First(fd)' \in Nat /\ End(fd)' \in Nat /\ written \in Nat
      /\ First(fd) \in Nat /\ End(fd) \in Nat
  <2>1. /\ First(fd)' = First(fd) \/ First(fd)' >= written
        /\ First(fd) <= First(fd)' /\ End(fd) <= End(fd)'
        /\ FsTypeOK'
    BY <1>1, FilesStep
  <2>2. First(fd)' \in Nat /\ End(fd)' \in Nat
    BY <1>1, <2>1 DEF FsTypeOK, First, End
  <2>3. First(fd) \in Nat /\ End(fd) \in Nat /\ written \in Nat
    BY <1>1 DEF TypeOK, FsTypeOK, First, End
  <2> QED BY <2>1, <2>2, <2>3
<1> QED BY <1>1, <1>2 DEF PositionInv, Size

(* A step that, besides, sends and decodes nothing.                        *)
LEMMA Quiet ==
  ASSUME IInv, [Next]_vars, TypeOK', ControlInv',
         UNCHANGED <<fi, fd, off, lo, hi, newfi, misopened, lines, partial>>,
         pc' \in {"reopen", "trunc"} => pc' = pc
  PROVE  IInv'
<1>1. PositionInv'
  BY PositionKept
<1>2. OrderInv'
  BY OrderKept, Bytes DEF IInv
<1>3. FilesInv'
  BY FilesStep DEF IInv
<1> QED BY <1>1, <1>2, <1>3 DEF IInv

(* Every step preserves the inductive invariant.                           *)
LEMMA NextIInv == IInv /\ [Next]_vars => IInv'
<1> SUFFICES ASSUME IInv, [Next]_vars PROVE IInv'
  OBVIOUS
<1> USE BoundsAssumption, StreamAssumption DEF NoInode, fsVars, ghostVars
<1>a. TypeOK /\ FilesInv /\ ControlInv /\ PositionInv /\ OrderInv
  BY DEF IInv
<1>b. /\ FsTypeOK' /\ FilesInv'
      /\ inodes <= inodes' /\ written <= written'
  BY <1>a, FilesStep
<1>c. /\ inodes \in Nat /\ inodes' \in Nat /\ written \in Nat /\ written' \in Nat
      /\ path \in 0..inodes
      /\ \A i \in 1..inodes : i \in Inodes
  BY <1>a, <1>b DEF TypeOK, FsTypeOK, Inodes
<1>1. CASE ReadError
  <2>1. TypeOK'
    <3>1. NumbersOK' /\ SequencesOK'
      BY <1>1, <1>a, <1>b, <1>c, TypeParts DEF NumbersOK, SequencesOK, ReadError
    <3>2. FlagsOK'
      BY <1>1, <1>a, TypeParts DEF FlagsOK, PCs, Running, ReadError
    <3> QED BY <1>b, <3>1, <3>2
       DEF TypeOK, NumbersOK, FlagsOK, SequencesOK
  <2>2. ControlInv'
    BY <1>1, <1>a, <1>b, <1>c DEF TypeOK, ControlInv, Running, ReadError
  <2> QED BY <1>1, <2>1, <2>2, Quiet DEF ReadError
<1>2. CASE Decoded
  <2>1. TypeOK'
    BY <1>2, <1>a, <1>b, <1>c DEF TypeOK, PCs, Running, Decoded
  <2>2. ControlInv'
    BY <1>2, <1>a, <1>b, <1>c DEF TypeOK, ControlInv, Running, Decoded
  <2> QED BY <1>2, <2>1, <2>2, Quiet DEF Decoded
<1>3. CASE Sleep
  <2>1. TypeOK'
    BY <1>3, <1>a, <1>b, <1>c DEF TypeOK, PCs, Running, Sleep
  <2>2. ControlInv'
    BY <1>3, <1>a, <1>b, <1>c DEF TypeOK, ControlInv, Running, Sleep
  <2> QED BY <1>3, <2>1, <2>2, Quiet DEF Sleep
<1>4. CASE Wait
  <2>1. TypeOK'
    BY <1>4, <1>a, <1>b, <1>c DEF TypeOK, PCs, Running, Wait
  <2>2. ControlInv'
    BY <1>4, <1>a, <1>b, <1>c DEF TypeOK, ControlInv, Running, Wait
  <2> QED BY <1>4, <2>1, <2>2, Quiet DEF Wait
<1>5. CASE RoutineDone
  <2>1. TypeOK'
    BY <1>5, <1>a, <1>b, <1>c DEF TypeOK, PCs, Running, RoutineDone
  <2>2. ControlInv'
    BY <1>5, <1>a, <1>b, <1>c DEF TypeOK, ControlInv, Running, RoutineDone
  <2> QED BY <1>5, <2>1, <2>2, Quiet DEF RoutineDone
<1>6. CASE Stop
  <2>1. TypeOK'
    <3>1. End(fd) \in 0..written
      BY <1>6, <1>a, <1>c, Intervals DEF Stop, ControlInv, TypeOK
    <3>2. NumbersOK' /\ SequencesOK'
      BY <1>6, <1>a, <1>b, <1>c, <3>1, TypeParts
         DEF NumbersOK, SequencesOK, Stop
    <3>3. FlagsOK'
      BY <1>6, <1>a, TypeParts DEF FlagsOK, PCs, Running, Stop
    <3> QED BY <1>b, <3>2, <3>3
       DEF TypeOK, NumbersOK, FlagsOK, SequencesOK
  <2>2. ControlInv'
    BY <1>6, <1>a, <1>b, <1>c DEF TypeOK, ControlInv, Running, Stop
  <2> QED BY <1>6, <2>1, <2>2, Quiet DEF Stop
<1>7. CASE Cancel
  <2>1. TypeOK'
    BY <1>7, <1>a, <1>b, <1>c DEF TypeOK, PCs, Running, Cancel
  <2>2. ControlInv'
    BY <1>7, <1>a, <1>b, <1>c DEF TypeOK, ControlInv, Running, Cancel
  <2> QED BY <1>7, <2>1, <2>2, Quiet DEF Cancel
<1>8. CASE Truncate
  <2>1. TypeOK'
    BY <1>8, <1>a, <1>b, <1>c DEF TypeOK, PCs, Running, Truncate, streamVars
  <2>2. ControlInv'
    BY <1>8, <1>a, <1>b, <1>c DEF TypeOK, ControlInv, Running, Truncate, streamVars
  <2> QED BY <1>8, <2>1, <2>2, Quiet DEF Truncate, streamVars
<1>9. CASE Environment
  <2>1. TypeOK'
    BY <1>9, <1>a, <1>b, <1>c DEF TypeOK, PCs, Running, Environment, streamVars
  <2>2. ControlInv'
    BY <1>9, <1>a, <1>b, <1>c DEF TypeOK, ControlInv, Running, Environment, streamVars
  <2> QED BY <1>9, <2>1, <2>2, Quiet DEF Environment, streamVars
<1>10. CASE UNCHANGED vars
  <2>1. TypeOK'
    BY <1>10, <1>a, <1>b, <1>c DEF TypeOK, PCs, Running, vars, streamVars
  <2>2. ControlInv'
    BY <1>10, <1>a, <1>b, <1>c DEF TypeOK, ControlInv, Running, vars, streamVars
  <2> QED BY <1>10, <2>1, <2>2, Quiet DEF vars, streamVars
<1>11. CASE New
  <2>1. TypeOK'
    BY <1>11, <1>a, <1>b, <1>c DEF TypeOK, PCs, New
  <2>2. ControlInv'
    BY <1>11, <1>a, <1>b DEF ControlInv, Running, New
  <2>3. PositionInv'
    BY <1>11, <1>a DEF ControlInv, PositionInv, New
  <2>4. OrderInv'
    <3>1. lo' \in Nat /\ lo <= lo' /\ UNCHANGED <<lines, partial, misopened>>
      BY <1>11, <1>a, Bytes DEF New
    <3> QED BY <1>a, <3>1, OrderKept
  <2> QED BY <1>b, <2>1, <2>2, <2>3, <2>4 DEF IInv
<1>12. CASE Open
  <2>1. CASE pc' = "failed"
    <3>1. TypeOK' /\ ControlInv'
      BY <1>12, <2>1, <1>a, <1>b, <1>c
         DEF TypeOK, PCs, ControlInv, Running, Open, StartRoutine
    <3> QED BY <1>12, <2>1, <3>1, Quiet DEF Open, StartRoutine
  <2>2. CASE pc' # "failed"
    <3> DEFINE o == IF FromStart THEN 0 ELSE Size(path)
    <3>1. /\ path # 0 /\ path \in Inodes
          /\ StartRoutine(fi, path, o)
          /\ due' = End(path)
          /\ UNCHANGED <<fsVars, newfi, eof, stopped, cancelled, completed, lines>>
      BY <1>12, <2>2, <1>c DEF Open
    <3>2. /\ First(path) \in 0..written /\ End(path) \in 0..written
          /\ First(path) <= End(path)
          /\ Size(path) = End(path) - First(path)
          /\ First(path)' = First(path) /\ Size(path)' = Size(path)
      BY <1>a, <3>1, Intervals DEF First, End, Size
    <3>3. o \in Nat /\ o <= Size(path) /\ First(path) + o \in 0..written
      BY <1>c, <3>2
    <3> HIDE DEF o
    <3>4. TypeOK'
      <4>1. NumbersOK'
        <5>1. /\ fi' = fi /\ fd' = path /\ newfi' = newfi /\ off' = o /\ due' = End(path)
              /\ lo' = First(path) + o /\ hi' = First(path) + o /\ from' = First(path) + o
              /\ wg' = wg + 1 /\ inodes' = inodes /\ written' = written
          BY <3>1 DEF StartRoutine
        <5>2. NumbersOK
          BY <1>a, TypeParts
        <5>3. fi' \in 0..inodes' /\ fd' \in 0..inodes' /\ newfi' \in 0..inodes' /\ wg' \in Nat
          BY <1>c, <5>1, <5>2 DEF NumbersOK
        <5>4. off' \in 0..written' /\ due' \in 0..written' /\ from' \in 0..written'
          BY <1>c, <3>2, <3>3, <5>1
        <5>5. lo' \in 0..written' /\ hi' \in lo'..written'
          BY <1>c, <3>2, <3>3, <5>1
        <5> QED BY <5>3, <5>4, <5>5 DEF NumbersOK
      <4>2. FlagsOK'
        BY <1>a, <3>1, TypeParts DEF FlagsOK, PCs, Running, StartRoutine
      <4>3. SequencesOK'
        BY <1>a, <3>1, TypeParts DEF SequencesOK, StartRoutine
      <4> QED BY <1>b, <4>1, <4>2, <4>3
         DEF TypeOK, NumbersOK, FlagsOK, SequencesOK
    <3>5. ControlInv'
      BY <1>12, <1>a, <3>1 DEF ControlInv, TypeOK, Running, StartRoutine, Open
    <3>6. PositionInv'
      BY <1>c, <3>1, <3>2, <3>3 DEF PositionInv, StartRoutine
    <3>7. OrderInv'
      BY <1>12, <1>a, <3>1
         DEF ControlInv, OrderInv, InOrderOnce, StartRoutine, Open
    <3> QED BY <1>b, <3>4, <3>5, <3>6, <3>7 DEF IInv
  <2> QED BY <2>1, <2>2
<1>13. CASE Read
  <2>1. fd \in Inodes /\ wg > 0 /\ ~completed /\ pc = "read"
    BY <1>13, <1>a, <1>c DEF ControlInv, TypeOK, Running, Read
  <2>2. /\ First(fd) \in 0..written /\ End(fd) \in 0..written
        /\ First(fd) <= End(fd)
        /\ Size(fd) = End(fd) - First(fd)
        /\ First(fd)' = First(fd) /\ Size(fd)' = Size(fd)
    BY <1>13, <1>a, <2>1, Intervals DEF First, End, Size, Read
  <2>3. CASE Size(fd) - off <= 0
    <3>1. /\ eof' = TRUE /\ pc' = "stat"
          /\ UNCHANGED <<fsVars, fi, fd, off, lo, hi, partial, newfi, stopped,
                         cancelled, completed, wg, lines, ghostVars>>
      BY <1>13, <1>a, <1>c, <2>2, <2>3 DEF Read, TypeOK
    <3>2. NumbersOK' /\ SequencesOK'
      BY <1>a, <3>1, TypeParts DEF NumbersOK, SequencesOK
    <3>3. FlagsOK'
      BY <1>a, <3>1, TypeParts DEF FlagsOK, PCs, Running
    <3>4. ControlInv'
      BY <1>a, <2>1, <3>1 DEF ControlInv, Running
    <3>5. TypeOK'
      BY <1>b, <3>2, <3>3
         DEF TypeOK, NumbersOK, FlagsOK, SequencesOK
    <3> QED BY <3>1, <3>4, <3>5, Quiet
  <2>4. CASE Size(fd) - off > 0
    <3>1. PICK count \in Nat :
             /\ count <= Size(fd) - off
             /\ lo' = First(fd) + off
             /\ hi' = First(fd) + off + count
             /\ off' = off + count
             /\ eof' = FALSE
             /\ pc' = "decode"
             /\ UNCHANGED <<fsVars, fi, fd, partial, newfi, stopped, cancelled,
                            completed, wg, lines, ghostVars>>
      <4> DEFINE left == Size(fd) - off
                 c == IF left > BufSize THEN BufSize ELSE left
      <4>1. c \in Nat /\ c <= left
        BY <1>a, <1>c, <2>2, <2>4 DEF TypeOK
      <4>2. ~(left <= 0)
        BY <1>a, <1>c, <2>2, <2>4 DEF TypeOK
      <4>3. /\ lo' = First(fd) + off
            /\ hi' = First(fd) + off + c
            /\ off' = off + c
            /\ eof' = FALSE
            /\ pc' = "decode"
            /\ UNCHANGED <<fsVars, fi, fd, partial, newfi, stopped, cancelled,
                           completed, wg, lines, ghostVars>>
        BY <1>13, <4>2 DEF Read
      <4> HIDE DEF c
      <4> QED BY <4>1, <4>3
    <3>2. off \in Nat /\ hi \in Nat /\ lo \in Nat /\ lo <= hi
      BY <1>a, <1>c DEF TypeOK
    <3>3. TypeOK'
      <4>1. NumbersOK /\ SequencesOK
        BY <1>a, TypeParts
      <4>2. NumbersOK'
        BY <1>b, <1>c, <2>2, <3>1, <3>2, <4>1 DEF NumbersOK
      <4>3. SequencesOK'
        BY <3>1, <4>1 DEF SequencesOK
      <4>4. FlagsOK'
        BY <1>a, <3>1, TypeParts DEF FlagsOK, PCs, Running
      <4> QED BY <1>b, <4>2, <4>3, <4>4
         DEF TypeOK, NumbersOK, FlagsOK, SequencesOK
    <3>4. ControlInv'
      <4>1. /\ pc' = "decode"
            /\ fd' = fd /\ wg' = wg /\ completed' = completed
        BY <3>1
      <4>2. fd # 0
        BY <2>1 DEF Inodes
      <4> QED BY <2>1, <4>1, <4>2 DEF ControlInv, Running
    <3>5. PositionInv'
      BY <1>a, <1>c, <2>1, <2>2, <3>1, <3>2 DEF PositionInv
    <3>6. OrderInv'
      <4>1. CASE misopened
        BY <4>1, <3>1 DEF OrderInv
      <4>2. CASE ~misopened
        <5>1. lo <= lo' /\ lo' \in Nat
          BY <1>a, <1>c, <2>1, <2>2, <3>1, <3>2, <4>2 DEF PositionInv, Inodes
        <5> QED BY <1>a, <3>1, <5>1, OrderKept
      <4> QED BY <4>1, <4>2
    <3> QED BY <1>b, <3>3, <3>4, <3>5, <3>6 DEF IInv
  <2> QED BY <1>a, <1>c, <2>2, <2>3, <2>4 DEF TypeOK
<1>14. CASE DecodeAndSend
  <2>1. lo' \in Nat /\ lo <= lo' /\ UNCHANGED misopened
    BY <1>14, <1>a, Bytes DEF DecodeAndSend
  <2>2. OrderInv' /\ partial' \in Seq(Nat) /\ lines' \in Seq(Seq(Nat))
    <3>1. CASE lo \in nl
      BY <1>14, <1>a, <2>1, <3>1, OrderSent DEF DecodeAndSend
    <3>2. CASE lo \notin nl
      <4>1. partial' = Append(partial, lo) /\ UNCHANGED lines /\ lo' = lo + 1
        BY <1>14, <3>2 DEF DecodeAndSend
      <4>2. lines \in Seq(Seq(Nat))
        BY <1>a DEF TypeOK
      <4> QED BY <1>a, <2>1, <4>1, <4>2, OrderAppended
    <3> QED BY <3>1, <3>2
  <2>3. lo' \in 0..written' /\ hi' \in lo'..written'
    BY <1>14, <1>a, <1>b, <1>c DEF TypeOK, DecodeAndSend
  <2>4. TypeOK'
    BY <1>14, <1>a, <1>b, <1>c, <2>2, <2>3 DEF TypeOK, DecodeAndSend
  <2>5. ControlInv'
    BY <1>14, <1>a DEF ControlInv, Running, DecodeAndSend
  <2>6. PositionInv'
    BY <1>14, PositionKept DEF DecodeAndSend
  <2> QED BY <1>b, <2>2, <2>4, <2>5, <2>6 DEF IInv
<1>15. CASE StatAtEOF
  <2>1. TypeOK'
    BY <1>15, <1>a, <1>b, <1>c DEF TypeOK, PCs, Running, StatAtEOF
  <2>2. ControlInv'
    BY <1>15, <1>a DEF ControlInv, Running, StatAtEOF
  <2>3. OrderInv'
    <3>1. lo' \in Nat /\ lo <= lo' /\ UNCHANGED <<lines, partial, misopened>>
      BY <1>15, <1>a, Bytes DEF StatAtEOF
    <3> QED BY <1>a, <3>1, OrderKept
  <2>4. PositionInv'
    <3>1. CASE pc' \notin {"reopen", "trunc"}
      <4>1. CASE UNCHANGED newfi
        BY <1>15, <3>1, <4>1, PositionKept DEF StatAtEOF
      <4> QED BY <1>15, <3>1, <4>1 DEF StatAtEOF
    <3>2. CASE pc' = "reopen"
      <4>1. /\ path # 0 /\ path # fi /\ newfi' = path
            /\ UNCHANGED <<fsVars, fi, fd, off, hi, misopened>>
        BY <1>15, <3>2 DEF StatAtEOF, SyscallFails
      <4>2. path = inodes /\ fd \in 0..inodes
        BY <1>a, <4>1 DEF FilesInv, TypeOK
      <4>3. First(fd)' = First(fd) /\ Size(fd)' = Size(fd)
        BY <4>1 DEF First, Size, End
      <4> QED BY <1>a, <1>c, <3>2, <4>1, <4>2, <4>3 DEF PositionInv
    <3>3. CASE pc' = "trunc"
      <4>1. /\ path # 0 /\ path = fi /\ Size(path) < off
            /\ UNCHANGED <<fsVars, fi, fd, off, hi, newfi, misopened>>
        BY <1>15, <3>3 DEF StatAtEOF, SyscallFails
      <4>2. First(fd)' = First(fd) /\ Size(fd)' = Size(fd)
        BY <4>1 DEF First, Size, End
      <4>3. path \in Inodes /\ Size(path) \in Nat /\ off \in Nat
        BY <1>a, <1>c, <4>1, Intervals DEF TypeOK
      <4> QED BY <1>a, <3>3, <4>1, <4>2, <4>3 DEF PositionInv
    <3> QED BY <3>1, <3>2, <3>3
  <2> QED BY <1>b, <2>1, <2>2, <2>3, <2>4 DEF IInv
<1>16. CASE Reopen
  <2>0. fd \in Inodes /\ wg \in Nat /\ pc = "reopen" /\ ~completed /\ wg > 0
    BY <1>16, <1>a, <1>c DEF Reopen, ControlInv, Running, TypeOK
  <2>1. CASE pc' = "done"
    <3>1. TypeOK' /\ ControlInv'
      BY <1>16, <2>1, <1>a, <1>b, <1>c
         DEF TypeOK, PCs, ControlInv, Running, Reopen, StartRoutine
    <3>2. /\ newfi' = 0
          /\ UNCHANGED <<fi, fd, off, lo, hi, misopened, lines, partial>>
      BY <1>16, <2>1 DEF Reopen, StartRoutine
    <3>3. PositionInv'
      <4>1. /\ First(fd)' = First(fd) \/ First(fd)' >= written
            /\ First(fd) <= First(fd)' /\ End(fd) <= End(fd)'
        BY <1>a, <2>0, <3>2, FilesStep
      <4>2. First(fd) \in Nat /\ End(fd) \in Nat
        BY <1>a, <1>c, <2>0, Intervals
      <4>3. First(fd)' \in Nat /\ End(fd)' \in Nat
        BY <1>b, <2>0, <3>2 DEF First, End, FsTypeOK
      <4>4. hi \in 0..written /\ off \in Nat
        BY <1>a, <1>c DEF TypeOK
      <4> QED BY <1>a, <1>c, <2>0, <2>1, <3>2, <4>1, <4>2, <4>3, <4>4
              DEF PositionInv, Size
    <3>4. OrderInv'
      BY <1>a, <3>2, Bytes, OrderKept
    <3> QED BY <1>b, <3>1, <3>3, <3>4 DEF IInv
  <2>2. CASE pc' # "done"
    <3>1. /\ path # 0 /\ path \in Inodes /\ path = inodes
          /\ StartRoutine(newfi, path, 0)
          /\ newfi' = 0
          /\ UNCHANGED <<fsVars, due, eof, stopped, cancelled, completed, lines>>
      BY <1>16, <2>2, <1>a, <1>c DEF Reopen, FilesInv
    <3>2. /\ First(path) \in 0..written /\ First(path) + 0 = First(path)
          /\ First(path)' = First(path) /\ Size(path)' = Size(path)
          /\ Size(path) >= 0
      BY <1>a, <1>c, <3>1, Intervals DEF First, End, Size
    <3>3. TypeOK'
      <4>1. NumbersOK'
        BY <1>a, <1>b, <1>c, <2>0, <3>1, <3>2, TypeParts
           DEF NumbersOK, StartRoutine
      <4>2. FlagsOK'
        BY <1>a, <3>1, TypeParts DEF FlagsOK, PCs, Running, StartRoutine
      <4>3. SequencesOK'
        BY <1>a, <3>1, TypeParts DEF SequencesOK, StartRoutine
      <4> QED BY <1>b, <4>1, <4>2, <4>3
              DEF TypeOK, NumbersOK, FlagsOK, SequencesOK
    <3>4. ControlInv'
      BY <2>0, <3>1 DEF ControlInv, Running, StartRoutine
    <3>5. PositionInv'
      BY <1>c, <3>1, <3>2 DEF PositionInv, StartRoutine
    <3>6. OrderInv'
      <4> SUFFICES ASSUME ~misopened' PROVE OrderInv'
        BY DEF OrderInv
      <4>1. ~misopened /\ newfi = path
        BY <3>1 DEF StartRoutine
      <4>2. path > fd
        BY <1>a, <2>0, <4>1 DEF PositionInv, Inodes
      <4>3. hi <= End(fd)
        <5>1. /\ First(fd) \in Nat /\ End(fd) \in Nat /\ First(fd) <= End(fd)
              /\ hi \in Nat /\ off \in Nat
          BY <1>a, <1>c, <2>0, Intervals DEF TypeOK
        <5> QED BY <1>a, <2>0, <4>1, <5>1 DEF PositionInv, Size, Inodes
      <4>4. End(fd) <= First(path)
        BY <1>a, <2>0, <3>1, <4>2, Intervals
      <4>5. lo' = First(path) /\ partial' = <<>>
        BY <3>1, <3>2 DEF StartRoutine
      <4>6. lo' \in Nat /\ lo <= lo'
        <5>1. lo \in Nat /\ hi \in Nat /\ lo <= hi /\ End(fd) \in Nat
          BY <1>a, <1>c, <2>0, Intervals DEF TypeOK
        <5> QED BY <1>c, <3>2, <4>3, <4>4, <4>5, <5>1
      <4>7. InOrderOnce'
        BY <1>a, <3>1, <4>1 DEF OrderInv, InOrderOnce
      <4>8. \A i \in 1..Len(lines) : \A j \in 1..Len(lines[i]) :
              lines[i][j] < lo'
        BY <1>a, <4>1, <4>6, Bytes DEF OrderInv
      <4>9. Len(partial') = 0 /\ lines' = lines
        BY <3>1, <4>5
      <4> QED BY <4>7, <4>8, <4>9 DEF OrderInv
    <3> QED BY <1>b, <3>3, <3>4, <3>5, <3>6 DEF IInv
  <2> QED BY <2>1, <2>2
<1>17. CASE Truncated
  <2>0. fd \in Inodes /\ pc = "trunc" /\ ~completed /\ wg > 0
    BY <1>17, <1>a, <1>c DEF Truncated, ControlInv, Running, TypeOK
  <2>1. lo' \in Nat /\ lo <= lo' /\ UNCHANGED misopened
    BY <1>17, <1>a, Bytes DEF Truncated
  <2>2. OrderInv' /\ SequencesOK'
    <3>1. CASE SendLine
      BY <1>a, <2>1, <3>1, OrderSent DEF SequencesOK
    <3>2. CASE UNCHANGED <<lines, partial>>
      BY <1>a, <2>1, <3>2, OrderKept, TypeParts DEF SequencesOK
    <3> QED BY <1>17, <3>1, <3>2 DEF Truncated, FlushPartial
  <2>3. First(fd) \in 0..written
    BY <1>a, <2>0, Intervals
  <2>4. NumbersOK'
    BY <1>17, <1>a, <1>b, <1>c, <2>3, TypeParts DEF NumbersOK, Truncated
  <2>5. FlagsOK'
    BY <1>17, <1>a, TypeParts DEF FlagsOK, PCs, Running, Truncated
  <2>6. TypeOK'
    BY <1>b, <2>2, <2>4, <2>5 DEF TypeOK, NumbersOK, FlagsOK, SequencesOK
  <2>7. ControlInv'
    BY <1>17, <1>a, <2>0 DEF ControlInv, Running, Truncated
  <2>8. PositionInv'
    <3>1. /\ pc' = "read"
          /\ UNCHANGED <<fi, fd, hi, newfi, misopened>>
      BY <1>17 DEF Truncated
    <3>2. CASE UNCHANGED off
      BY <3>1, <3>2, PositionKept
    <3>3. CASE UNCHANGED fsVars
      <4>1. First(fd)' = First(fd)
        BY <3>1, <3>3 DEF First, fsVars
      <4> QED BY <1>a, <2>0, <3>1, <4>1 DEF PositionInv
    <3> QED BY <1>17, <3>2, <3>3 DEF Truncated
  <2> QED BY <1>b, <2>2, <2>6, <2>7, <2>8 DEF IInv
<1>18. CASE Flush
  <2>1. lo' \in Nat /\ lo <= lo' /\ UNCHANGED misopened
    BY <1>18, <1>a, Bytes DEF Flush
  <2>2. OrderInv' /\ SequencesOK'
    <3>1. CASE SendLine
      BY <1>a, <2>1, <3>1, OrderSent DEF SequencesOK
    <3>2. CASE UNCHANGED <<lines, partial>>
      BY <1>a, <2>1, <3>2, OrderKept, TypeParts DEF SequencesOK
    <3> QED BY <1>18, <3>1, <3>2 DEF Flush, FlushPartial
  <2>3. NumbersOK'
    BY <1>18, <1>a, TypeParts DEF NumbersOK, Flush
  <2>4. FlagsOK'
    BY <1>18, <1>a, TypeParts DEF FlagsOK, PCs, Flush
  <2>5. TypeOK'
    BY <1>b, <2>2, <2>3, <2>4 DEF TypeOK, NumbersOK, FlagsOK, SequencesOK
  <2>6. ControlInv'
    BY <1>18 DEF ControlInv, Running, Flush
  <2>7. PositionInv'
    BY <1>18, PositionKept DEF Flush
  <2> QED BY <1>b, <2>2, <2>5, <2>6, <2>7 DEF IInv
<1> QED
  BY <1>1, <1>2, <1>3, <1>4, <1>5, <1>6, <1>7, <1>8, <1>9, <1>10, <1>11, <1>12,
     <1>13, <1>14, <1>15, <1>16, <1>17, <1>18
  DEF Next, Step

-----------------------------------------------------------------------------
(* The inductive invariant is an invariant of the stream.                  *)
THEOREM FileStreamIInv == Spec => []IInv
<1>1. Init => IInv
  BY InitIInv
<1>2. IInv /\ [Next]_vars => IInv'
  BY NextIInv
<1> QED BY <1>1, <1>2, PTL DEF Spec

(* Type correctness, among it that the offset never passes the bytes       *)
(* written and that the decoder stays inside what was read.                *)
THEOREM FileStreamTypeOK == Spec => []TypeOK
<1>1. IInv => TypeOK
  BY DEF IInv
<1> QED BY <1>1, FileStreamIInv, PTL

(* Lines arrive in the order they were written and none twice, for any     *)
(* number of rotations, truncations and failed calls, as long as no rename *)
(* falls between a Stat and its OpenFile (filestream.go:65-241).           *)
THEOREM FileStreamInOrderOnce == Spec => []InOrderOnce
<1>1. IInv => InOrderOnce
  BY DEF IInv, OrderInv, InOrderOnce
<1> QED BY <1>1, FileStreamIInv, PTL

(* A step that sends is made by a goroutine that is counted.               *)
LEMMA StepSenderCounted ==
  IInv /\ [Next]_vars => (lines' # lines => wg > 0 /\ wg' > 0)
<1> SUFFICES ASSUME IInv, [Next]_vars, lines' # lines
             PROVE  wg > 0 /\ wg' > 0
  OBVIOUS
<1>1. pc \in Running => wg > 0
  BY DEF IInv, ControlInv
<1>2. pc \in Running /\ wg' = wg
  BY DEF Next, Step, vars, streamVars, New, Open, Read, ReadError,
         DecodeAndSend, Decoded, StatAtEOF, Reopen, Truncated, Sleep, Wait,
         Flush, RoutineDone, Stop, Cancel, Environment, Truncate, Running
<1> QED BY <1>1, <1>2

(* Whoever sends is counted in the WaitGroup when it sends, so the channel *)
(* cannot be closed under it (filestream.go:88-90, tail.go:159-174).       *)
THEOREM FileStreamSenderCounted == Spec => SenderCounted
<1>1. IInv /\ [Next]_vars => [lines' # lines => wg > 0 /\ wg' > 0]_vars
  BY StepSenderCounted
<1> QED BY <1>1, FileStreamIInv, PTL DEF Spec, SenderCounted

(* sendLine adds one line at the end.                                      *)
LEMMA SendsOneLine ==
  ASSUME SequencesOK, SendLine
  PROVE  Contract!OneMoreLine
BY DEF SequencesOK, SendLine, Contract!OneMoreLine

(* Each step of the stream is a step of the contract or leaves all that    *)
(* the contract speaks of unchanged.                                       *)
LEMMA StepImplementsLogStream ==
  IInv /\ [Next]_vars => [Contract!Next]_(Contract!vars)
<1> SUFFICES ASSUME IInv, [Next]_vars
             PROVE  Contract!Next \/ UNCHANGED Contract!vars
  OBVIOUS
<1> USE DEF Contract!vars
<1>a. TypeOK /\ ControlInv /\ wg \in Nat /\ SequencesOK
  BY DEF IInv, TypeOK, SequencesOK
<1>1. CASE UNCHANGED vars
  BY <1>1 DEF vars, streamVars
<1>2. CASE New \/ Read \/ ReadError \/ Decoded \/ StatAtEOF \/ Sleep \/ Wait
  BY <1>2 DEF New, Read, ReadError, Decoded, StatAtEOF, Sleep, Wait
<1>3. CASE Cancel \/ Environment \/ Truncate
  BY <1>3 DEF Cancel, Environment, Truncate, streamVars
<1>4. CASE Stop
  BY <1>4 DEF Stop, Contract!Stop, Contract!Next
<1>5. CASE RoutineDone
  <2>1. wg > 0
    BY <1>5, <1>a DEF RoutineDone
  <2> QED BY <1>5, <2>1 DEF RoutineDone, Contract!Done, Contract!Next
<1>6. CASE Open
  <2>1. wg = 0 /\ lines = <<>> /\ ~completed
    BY <1>6, <1>a DEF Open, ControlInv
  <2> QED BY <1>6, <2>1
          DEF Open, StartRoutine, Contract!Start, Contract!Next
<1>7. CASE Reopen
  <2>1. wg > 0 /\ ~completed
    BY <1>7, <1>a DEF Reopen, ControlInv, Running
  <2> QED BY <1>7, <2>1
          DEF Reopen, StartRoutine, Contract!Handover, Contract!Next
<1>8. CASE DecodeAndSend \/ Truncated
  <2>1. wg > 0 /\ ~completed
    BY <1>8, <1>a DEF DecodeAndSend, Truncated, ControlInv, Running
  <2>2. UNCHANGED <<wg, completed, stopped>>
    BY <1>8 DEF DecodeAndSend, Truncated
  <2>3. SendLine \/ UNCHANGED lines
    BY <1>8 DEF DecodeAndSend, Truncated, FlushPartial
  <2> QED BY <1>a, <2>1, <2>2, <2>3, SendsOneLine
          DEF Contract!Send, Contract!Next
<1>9. CASE Flush
  <2>1. wg > 0 /\ ~completed
    BY <1>9, <1>a DEF Flush, ControlInv, Running
  <2>2. SendLine \/ UNCHANGED lines
    BY <1>9 DEF Flush, FlushPartial
  <2> QED BY <1>9, <1>a, <2>1, <2>2, SendsOneLine
          DEF Flush, Contract!Finish, Contract!Next
<1> QED
  BY <1>1, <1>2, <1>3, <1>4, <1>5, <1>6, <1>7, <1>8, <1>9 DEF Next, Step

(* fileStream implements the LogStream contract, so what the Tailer is     *)
(* shown to do with any such stream it does with this one.                 *)
THEOREM FileStreamImplementsLogStream == Spec => ImplementsLogStream
<1>1. Init => Contract!Init
  BY DEF Init, Contract!Init
<1>2. IInv /\ [Next]_vars => [Contract!Next]_(Contract!vars)
  BY StepImplementsLogStream
<1> QED BY <1>1, <1>2, FileStreamIInv, PTL
        DEF Spec, ImplementsLogStream, Contract!Spec

-----------------------------------------------------------------------------
(* Where the reader is in its file, also when an open was of another file  *)
(* than its Stat: the next byte it reads is the one behind those decoded,  *)
(* unless the file was truncated and it has not noticed; and it takes a    *)
(* file for truncated only when that is so.                                *)
PlaceInv ==
  fd # NoInode =>
    /\ fi <= fd
    /\ pc # "decode" => lo = hi
    /\ pc = "trunc" => hi <= First(fd)
    /\ hi <= First(fd) \/ (hi = First(fd) + off /\ off <= Size(fd))
    /\ truncPending \/ off = 0 \/ (hi = First(fd) + off /\ off <= Size(fd))

(* From the read that meets the end of the file on, all that is due has    *)
(* been read.                                                              *)
Drained == truncPending \/ hi >= due \/ First(fd) >= due
DrainInv ==
  /\ fd # NoInode => due <= End(fd)
  /\ completed => pc = "done" /\ partial = <<>> /\ fd # NoInode
  /\ pc \in {"stat", "flush"} \/ (pc = "sleep" /\ eof) \/ completed => cancelled \/ Drained

LEMMA Numbers ==
  ASSUME IInv, fd # NoInode
  PROVE  /\ fd \in Inodes /\ First(fd) \in Nat /\ End(fd) \in Nat /\ written \in Nat
         /\ First(fd) <= End(fd) /\ Size(fd) = End(fd) - First(fd) /\ First(fd) <= written
         /\ lo \in Nat /\ hi \in Nat /\ off \in Nat /\ lo <= hi /\ hi <= written
         /\ from \in Nat /\ due \in Nat /\ fi \in Nat
<1>1. fd \in Inodes /\ TypeOK /\ FilesInv
  BY BoundsAssumption DEF IInv, TypeOK, FsTypeOK, Inodes, NoInode
<1>2. /\ First(fd) \in 0..written /\ End(fd) \in 0..written /\ First(fd) <= End(fd)
  BY <1>1, Intervals
<1>3. written \in Nat /\ inodes \in Nat
  BY <1>1 DEF TypeOK, FsTypeOK, Inodes
<1>4. /\ lo \in Nat /\ hi \in Nat /\ off \in Nat /\ lo <= hi /\ hi <= written
      /\ from \in Nat /\ due \in Nat /\ fi \in Nat
  BY <1>1, <1>3 DEF TypeOK
<1> QED BY <1>1, <1>2, <1>3, <1>4 DEF Size

(* The first byte of a file that holds something moves in a truncation     *)
(* only, and what is a newline remains one.                                *)
LEMMA FirstKept ==
  ASSUME TypeOK, FilesInv, [Next]_vars, NEW i \in Inodes
  PROVE  /\ Size(i) > 0 => First(i)' = First(i) \/ (Truncate /\ i = path)
         /\ nl \subseteq nl'
<1> USE BoundsAssumption DEF TypeOK, FsTypeOK, Inodes, NoInode
<1>1. CASE UNCHANGED fsVars
  BY <1>1 DEF First, fsVars
<1>2. ASSUME NEW newline \in BOOLEAN, Append1(newline)
      PROVE  (Size(i) > 0 => First(i)' = First(i)) /\ nl \subseteq nl'
  BY <1>2 DEF First, End, Size, Append1
<1>3. CASE Create
  BY <1>3 DEF First, Create
<1>4. CASE Remove
  BY <1>4 DEF First, Remove
<1>5. CASE WriterReopen
  BY <1>5 DEF First, End, Size, WriterReopen
<1>6. CASE Truncate
  BY <1>6 DEF First, TruncateFile, Truncate
<1>7. CASE SyscallFails
  BY <1>7 DEF First, SyscallFails
<1>8. \/ UNCHANGED fsVars \/ Create \/ Remove \/ WriterReopen
      \/ Truncate \/ SyscallFails
      \/ \E newline \in BOOLEAN : Append1(newline)
  BY DEF Next, Step, New, Open, Read, ReadError, DecodeAndSend, Decoded,
         StatAtEOF, Reopen, Truncated, Sleep, Wait, Flush, RoutineDone, Stop,
         Cancel, Environment, vars
<1> QED BY <1>1, <1>2, <1>3, <1>4, <1>5, <1>6, <1>7, <1>8

(* What has been decoded is in a line or in the accumulator.               *)
LEMMA HeldIs ==
  ASSUME NEW b
  PROVE  b \in Held <=> \/ \E i \in DOMAIN lines : \E j \in DOMAIN lines[i] : lines[i][j] = b
                        \/ \E j \in DOMAIN partial : partial[j] = b
BY DEF Held, Sent

LEMMA HeldSent ==
  ASSUME TypeOK, SendLine
  PROVE  Held \subseteq Held'
<1>1. /\ Len(lines) \in Nat /\ DOMAIN lines = 1..Len(lines)
      /\ DOMAIN lines' = 1..(Len(lines) + 1) /\ lines'[Len(lines) + 1] = partial
      /\ \A i \in 1..Len(lines) : lines'[i] = lines[i]
  BY DEF TypeOK, SendLine
<1>2. ASSUME NEW i \in DOMAIN lines, NEW j \in DOMAIN lines[i] PROVE lines[i][j] \in Held'
  <2>1. i \in DOMAIN lines' /\ lines'[i] = lines[i]
    BY <1>1
  <2> QED BY <2>1 DEF Held, Sent
<1>3. ASSUME NEW j \in DOMAIN partial PROVE partial[j] \in Held'
  <2>1. Len(lines) + 1 \in DOMAIN lines'
    BY <1>1
  <2> QED BY <1>1, <2>1 DEF Held, Sent
<1> QED BY <1>2, <1>3, HeldIs

LEMMA HeldAppended ==
  ASSUME TypeOK, partial' = Append(partial, lo), UNCHANGED lines
  PROVE  Held \subseteq Held' /\ lo \in Held'
<1>1. /\ Len(partial) \in Nat /\ DOMAIN partial = 1..Len(partial)
      /\ DOMAIN partial' = 1..(Len(partial) + 1) /\ partial'[Len(partial) + 1] = lo
      /\ \A j \in 1..Len(partial) : partial'[j] = partial[j]
  BY DEF TypeOK
<1>2. ASSUME NEW i \in DOMAIN lines, NEW j \in DOMAIN lines[i] PROVE lines[i][j] \in Held'
  BY DEF Held, Sent
<1>3. ASSUME NEW j \in DOMAIN partial PROVE partial[j] \in Held'
  <2>1. j \in DOMAIN partial' /\ partial'[j] = partial[j]
    BY <1>1
  <2> QED BY <2>1 DEF Held
<1>4. lo \in Held'
  <2>1. Len(partial) + 1 \in DOMAIN partial'
    BY <1>1
  <2> QED BY <1>1, <2>1 DEF Held
<1> QED BY <1>2, <1>3, <1>4, HeldIs

-----------------------------------------------------------------------------
(* A step that leaves the position alone, whatever happens to the file.    *)
LEMMA PlaceKept ==
  ASSUME IInv, PlaceInv, NothingSkipped, [Next]_vars,
         UNCHANGED <<fi, fd, off, lo, hi, from>>, Held \subseteq Held',
         truncPending => truncPending',
         pc' # "decode" => pc # "decode" \/ lo = hi,
         pc' = "trunc" => pc = "trunc" \/ hi <= First(fd)
  PROVE  PlaceInv' /\ NothingSkipped'
<1> SUFFICES ASSUME fd # NoInode PROVE PlaceInv' /\ NothingSkipped'
  BY DEF PlaceInv, NothingSkipped
<1> DEFINE F == First(fd)
           G == First(fd)'
           E == End(fd)
           H == End(fd)'
<1>1. /\ fd \in Inodes /\ F \in Nat /\ E \in Nat /\ written \in Nat
      /\ F <= E /\ Size(fd) = E - F /\ F <= written
      /\ lo \in Nat /\ hi \in Nat /\ off \in Nat /\ lo <= hi /\ hi <= written
      /\ from \in Nat
  BY Numbers
<1>2. TypeOK /\ FilesInv
  BY DEF IInv
<1>3. /\ G = F \/ G >= written
      /\ F <= G /\ E <= H /\ FsTypeOK'
  BY <1>1, <1>2, FilesStep
<1>4. /\ Size(fd) > 0 => G = F \/ (Truncate /\ fd = path)
      /\ nl \subseteq nl'
  BY <1>1, <1>2, FirstKept
<1>5. G \in Nat /\ H \in Nat /\ Size(fd)' = H - G
  BY <1>1, <1>3 DEF FsTypeOK, First, End, Size
<1>6. Truncate /\ fd = path /\ off > 0 => truncPending'
  BY DEF Truncate
<1>7. /\ fi <= fd /\ (pc # "decode" => lo = hi) /\ (pc = "trunc" => hi <= F)
      /\ hi <= F \/ (hi = F + off /\ off <= E - F)
      /\ truncPending \/ off = 0 \/ (hi = F + off /\ off <= E - F)
  BY <1>1 DEF PlaceInv
<1> HIDE DEF F, G, E, H
<1>8. hi <= G \/ (hi = G + off /\ off <= H - G)
  BY <1>1, <1>3, <1>5, <1>7
<1>9. truncPending' \/ off = 0 \/ (G = F /\ hi = G + off /\ off <= H - G)
  BY <1>1, <1>3, <1>4, <1>5, <1>6, <1>7
<1>10. PlaceInv'
  <2>1. pc' = "trunc" => hi <= G
    BY <1>1, <1>3, <1>5, <1>7 DEF F
  <2> QED BY <1>5, <1>7, <1>8, <1>9, <2>1 DEF PlaceInv, G
<1>11. NothingSkipped'
  <2> SUFFICES ASSUME ~truncPending', NEW b \in G..(lo - 1), b >= from
               PROVE  b \in nl' \cup Held'
    BY DEF NothingSkipped, G
  <2>1. CASE off = 0
    <3>1. hi <= G
      BY <1>1, <1>5, <1>8, <2>1
    <3> QED BY <1>1, <1>5, <3>1
  <2>2. CASE off # 0
    <3>1. ~truncPending /\ G = F
      BY <1>9, <2>2
    <3>2. b \in nl \cup Held
      BY <3>1 DEF NothingSkipped, F
    <3> QED BY <1>4, <3>2
  <2> QED BY <2>1, <2>2
<1> QED BY <1>10, <1>11

(* A goroutine starts at the start or the end of the file that has the     *)
(* name, which is the latest.                                              *)
LEMMA PlaceStarted ==
  ASSUME IInv, NEW f \in 0..inodes, NEW i \in Inodes, i = inodes, NEW o \in {0, Size(i)},
         StartRoutine(f, i, o), UNCHANGED fsVars
  PROVE  PlaceInv' /\ NothingSkipped'
<1>1. /\ First(i) \in 0..written /\ End(i) \in 0..written /\ First(i) <= End(i)
      /\ written \in Nat /\ Size(i) = End(i) - First(i)
  <2>1. TypeOK /\ FilesInv
    BY DEF IInv
  <2> QED BY <2>1, Intervals DEF TypeOK, FsTypeOK, Size
<1>2. /\ fi' = f /\ fd' = i /\ off' = o /\ lo' = First(i) + o /\ hi' = First(i) + o
      /\ from' = First(i) + o /\ pc' = "read" /\ ~truncPending'
  BY DEF StartRoutine
<1>3. First(fd)' = First(i) /\ Size(fd)' = Size(i)
  BY <1>2 DEF First, End, Size, fsVars
<1>4. PlaceInv'
  <2>1. f <= i /\ o <= Size(i)
    BY <1>1, BoundsAssumption DEF Inodes
  <2> QED BY <1>2, <1>3, <2>1 DEF PlaceInv
<1>5. NothingSkipped'
  <2>1. \A b \in First(i)..(First(i) + o - 1) : ~(b >= First(i) + o)
    BY <1>1
  <2> QED BY <1>2, <1>3, <2>1 DEF NothingSkipped
<1> QED BY <1>4, <1>5

(* Every step preserves the reader's place and skips nothing.              *)
LEMMA NextPlace ==
  IInv /\ PlaceInv /\ NothingSkipped /\ [Next]_vars => PlaceInv' /\ NothingSkipped'
<1> SUFFICES ASSUME IInv, PlaceInv, NothingSkipped, [Next]_vars
             PROVE  PlaceInv' /\ NothingSkipped'
  OBVIOUS
<1> USE DEF ghostVars
<1>a. TypeOK /\ FilesInv /\ ControlInv
  BY DEF IInv
<1>b. UNCHANGED <<lines, partial>> => Held \subseteq Held'
  BY DEF Held, Sent
<1>c. path \in {0, inodes} /\ (path # NoInode => path \in Inodes) /\ fi \in 0..inodes /\ newfi \in 0..inodes
  BY <1>a, BoundsAssumption DEF TypeOK, FsTypeOK, FilesInv, NoInode, Inodes
<1>1. CASE ReadError \/ Sleep \/ Wait \/ RoutineDone \/ Stop \/ Cancel \/ UNCHANGED vars
  <2>1. /\ UNCHANGED <<fi, fd, off, lo, hi, from, lines, partial, truncPending>>
        /\ pc' # "decode" => pc # "decode"
        /\ pc' = "trunc" => pc = "trunc"
    BY <1>1 DEF ReadError, Sleep, Wait, RoutineDone, Stop, Cancel, vars, streamVars
  <2> QED BY <1>b, <2>1, PlaceKept
<1>2. CASE Environment \/ Truncate
  <2>1. /\ UNCHANGED <<fi, fd, off, lo, hi, from, lines, partial, pc>>
    BY <1>2 DEF Environment, Truncate, streamVars
  <2>2. truncPending => truncPending'
    <3>1. CASE Environment
      <4>1. truncPending' = truncPending
        BY <3>1 DEF Environment
      <4> QED BY <4>1
    <3>2. CASE Truncate
      BY <3>2 DEF Truncate
    <3> QED BY <1>2, <3>1, <3>2
  <2> QED BY <1>b, <2>1, <2>2, PlaceKept
<1>3. CASE Decoded
  <2>1. /\ UNCHANGED <<fi, fd, off, lo, hi, from, lines, partial, truncPending>>
        /\ lo = hi /\ pc' # "trunc"
    BY <1>3 DEF Decoded
  <2> QED BY <1>b, <2>1, PlaceKept
<1>4. CASE Flush
  <2>1. /\ UNCHANGED <<fi, fd, off, lo, hi, from, truncPending>>
        /\ pc # "decode" /\ pc' # "trunc"
        /\ SendLine \/ UNCHANGED <<lines, partial>>
    BY <1>4 DEF Flush, FlushPartial
  <2>2. Held \subseteq Held'
    BY <1>a, <1>b, <2>1, HeldSent
  <2> QED BY <2>1, <2>2, PlaceKept
<1>5. CASE New
  <2>1. fd = NoInode /\ UNCHANGED fd
    BY <1>5, <1>a DEF New, ControlInv
  <2> QED BY <2>1 DEF PlaceInv, NothingSkipped
<1>6. CASE StatAtEOF
  <2>1. /\ UNCHANGED <<fi, fd, off, lo, hi, from, lines, partial, truncPending>>
        /\ pc = "stat"
        /\ pc' = "trunc" => path # NoInode /\ path = fi /\ Size(path) < off
    BY <1>6 DEF StatAtEOF
  <2>2. pc' = "trunc" => hi <= First(fd)
    <3> SUFFICES ASSUME path # NoInode, path = fi, Size(path) < off PROVE hi <= First(fd)
      BY <2>1
    <3>1. fd # NoInode
      BY <1>a, <2>1 DEF ControlInv, Running
    <3>2. fi <= fd /\ (hi <= First(fd) \/ (hi = First(fd) + off /\ off <= Size(fd)))
      BY <3>1 DEF PlaceInv
    <3>3. fd = path
      BY <1>a, <1>c, <3>1, <3>2, BoundsAssumption DEF TypeOK, FsTypeOK, Inodes, NoInode
    <3>4. off \in Nat /\ Size(fd) \in Int
      BY <3>1, Numbers
    <3> QED BY <3>2, <3>3, <3>4
  <2> QED BY <1>b, <2>1, <2>2, PlaceKept
<1>7. CASE Open
  <2>1. CASE path # NoInode /\ StartRoutine(fi, path, IF FromStart THEN 0 ELSE Size(path))
             /\ UNCHANGED fsVars
    BY <1>c, <2>1, PlaceStarted DEF NoInode
  <2>2. CASE pc' = "failed" /\ UNCHANGED <<fi, fd, lo, hi, partial, ghostVars>>
    <3>1. fd = NoInode /\ UNCHANGED fd
      BY <1>7, <1>a, <2>2 DEF Open, ControlInv
    <3> QED BY <3>1 DEF PlaceInv, NothingSkipped
  <2> QED BY <1>7, <2>1, <2>2 DEF Open
<1>8. CASE Reopen
  <2>1. CASE path # NoInode /\ StartRoutine(newfi, path, 0) /\ UNCHANGED fsVars
    BY <1>c, <2>1, PlaceStarted DEF NoInode
  <2>2. CASE /\ pc' = "done"
             /\ UNCHANGED <<fi, fd, off, lo, hi, partial, wg, ghostVars>>
    <3>1. pc = "reopen" /\ UNCHANGED <<lines, partial, from, truncPending>>
      BY <1>8, <2>2 DEF Reopen
    <3> QED BY <1>b, <2>2, <3>1, PlaceKept
  <2> QED BY <1>8, <2>1, <2>2 DEF Reopen
<1>9. CASE Truncated
  <2>0. /\ pc = "trunc" /\ pc' = "read" /\ UNCHANGED <<fi, fd, lo, hi>>
        /\ SendLine \/ UNCHANGED <<lines, partial>>
    BY <1>9 DEF Truncated, FlushPartial
  <2>1. Held \subseteq Held'
    BY <1>a, <1>b, <2>0, HeldSent
  <2>2. CASE UNCHANGED <<off, truncPending, from>>
    BY <2>0, <2>1, <2>2, PlaceKept
  <2>3. CASE off' = 0 /\ ~truncPending' /\ from' = First(fd) /\ UNCHANGED fsVars
    <3>1. fd # NoInode
      BY <1>a, <2>0 DEF ControlInv, Running
    <3>2. First(fd)' = First(fd)
      BY <2>0, <2>3 DEF First, fsVars
    <3>3. fi <= fd /\ lo = hi /\ hi <= First(fd)
      BY <2>0, <3>1 DEF PlaceInv
    <3>4. lo \in Nat /\ First(fd) \in Nat
      BY <3>1, Numbers
    <3>5. PlaceInv'
      BY <2>0, <2>3, <3>2, <3>3 DEF PlaceInv
    <3>6. First(fd)..(lo - 1) = {}
      BY <3>3, <3>4
    <3> QED BY <2>0, <3>2, <3>5, <3>6 DEF NothingSkipped
  <2> QED BY <1>9, <2>2, <2>3 DEF Truncated
<1>10. CASE Read
  <2>0. /\ pc = "read" /\ UNCHANGED <<fsVars, fi, fd, partial, lines, from, truncPending>>
        /\ Held \subseteq Held' /\ fd # NoInode
    BY <1>10, <1>a, <1>b DEF Read, ControlInv, Running
  <2> DEFINE F == First(fd)
             z == Size(fd)
             count == IF z - off > BufSize THEN BufSize ELSE z - off
  <2>1. /\ F \in Nat /\ z \in Int /\ lo \in Nat /\ hi \in Nat /\ off \in Nat
        /\ BufSize \in Nat /\ BufSize > 0
    BY <2>0, Numbers, StreamAssumption
  <2>2. First(fd)' = F /\ Size(fd)' = z
    BY <2>0 DEF First, End, Size, fsVars
  <2>3. CASE UNCHANGED <<lo, hi, off>> /\ pc' = "stat"
    BY <2>0, <2>3, PlaceKept
  <2>4. CASE z - off > 0 /\ lo' = F + off /\ hi' = F + off + count /\ off' = off + count
             /\ pc' = "decode"
    <3>1. /\ fi <= fd /\ lo = hi
          /\ hi <= F \/ (hi = F + off /\ off <= z)
          /\ truncPending \/ off = 0 \/ (hi = F + off /\ off <= z)
      BY <2>0 DEF PlaceInv
    <3>2. count \in Nat /\ off + count <= z
      BY <2>1, <2>4
    <3> HIDE DEF count, F, z
    <3>3. hi' = F + off' /\ off' <= z
      BY <2>1, <2>4, <3>2
    <3>4. PlaceInv'
      BY <2>0, <2>2, <2>4, <3>1, <3>3 DEF PlaceInv
    <3>5. NothingSkipped'
      <4>0. nl' = nl
        BY <2>0 DEF fsVars
      <4> SUFFICES ASSUME ~truncPending, NEW b \in F..(lo' - 1), b >= from
                   PROVE  b \in nl \cup Held
        BY <2>0, <2>2, <4>0 DEF NothingSkipped
      <4>1. off # 0
        BY <2>1, <2>4
      <4>2. lo' = lo
        BY <2>1, <2>4, <3>1, <4>1
      <4> QED BY <2>0, <4>2 DEF NothingSkipped, F
    <3> QED BY <3>4, <3>5
  <2> QED BY <1>10, <2>3, <2>4 DEF Read
<1>11. CASE DecodeAndSend
  <2>0. /\ pc = "decode" /\ lo < hi /\ lo' = lo + 1 /\ fd # NoInode
        /\ UNCHANGED <<fsVars, pc, fi, fd, off, hi, from, truncPending>>
    BY <1>11, <1>a DEF DecodeAndSend, ControlInv, Running
  <2>1. First(fd)' = First(fd) /\ Size(fd)' = Size(fd) /\ nl' = nl
    BY <2>0 DEF First, End, Size, fsVars
  <2>2. PlaceInv'
    BY <2>0, <2>1 DEF PlaceInv
  <2>3. Held \subseteq Held' /\ lo \in nl \cup Held'
    <3>1. CASE lo \in nl
      BY <1>11, <1>a, <3>1, HeldSent DEF DecodeAndSend
    <3>2. CASE lo \notin nl
      BY <1>11, <1>a, <3>2, HeldAppended DEF DecodeAndSend
    <3> QED BY <3>1, <3>2
  <2>4. NothingSkipped'
    <3> SUFFICES ASSUME ~truncPending, NEW b \in First(fd)..lo, b >= from
                 PROVE  b \in nl \cup Held'
      <4>1. lo' - 1 = lo
        BY <2>0, Numbers
      <4> QED BY <2>0, <2>1, <4>1 DEF NothingSkipped
    <3>1. CASE b = lo
      BY <2>3, <3>1
    <3>2. CASE b # lo
      <4>1. b \in First(fd)..(lo - 1)
        BY <2>0, <3>2, Numbers
      <4> QED BY <2>0, <2>3, <4>1 DEF NothingSkipped
    <3> QED BY <3>1, <3>2
  <2> QED BY <2>2, <2>4
<1> QED
  BY <1>1, <1>2, <1>3, <1>4, <1>5, <1>6, <1>7, <1>8, <1>9, <1>10, <1>11 DEF Next, Step

(* Nothing between where reading of the file began and the decoder is      *)
(* skipped, for any sizes of reads, failed calls, wakeups and rotations,   *)
(* unless a truncation went unnoticed (filestream.go:101-188, decode.go).  *)
THEOREM FileStreamNothingSkipped == Spec => []NothingSkipped
<1>1. Init => PlaceInv /\ NothingSkipped
  BY DEF Init, PlaceInv, NothingSkipped
<1>2. IInv /\ PlaceInv /\ NothingSkipped /\ [Next]_vars => PlaceInv' /\ NothingSkipped'
  BY NextPlace
<1> QED BY <1>1, <1>2, FileStreamIInv, PTL DEF Spec

-----------------------------------------------------------------------------
(* A step that reads nothing and asks for no more keeps what is due.       *)
LEMMA DueKept ==
  ASSUME IInv, DrainInv, [Next]_vars, UNCHANGED <<fd, hi, due>>, truncPending => truncPending'
  PROVE  (fd # NoInode => due <= End(fd)') /\ (fd # NoInode /\ Drained => Drained')
<1> SUFFICES ASSUME fd # NoInode
             PROVE  due <= End(fd)' /\ (Drained => Drained')
  OBVIOUS
<1>1. /\ fd \in Inodes /\ First(fd) \in Nat /\ End(fd) \in Nat /\ due \in Nat
  BY Numbers
<1>2. TypeOK /\ FilesInv
  BY DEF IInv
<1>3. First(fd) <= First(fd)' /\ End(fd) <= End(fd)' /\ FsTypeOK'
  BY <1>1, <1>2, FilesStep
<1>4. First(fd)' \in Nat /\ End(fd)' \in Nat
  BY <1>1, <1>3 DEF FsTypeOK, First, End
<1>5. due <= End(fd)
  BY DEF DrainInv
<1>6. due <= End(fd)'
  BY <1>1, <1>3, <1>4, <1>5
<1>7. ASSUME Drained PROVE Drained'
  <2>1. CASE First(fd) >= due
    <3>1. First(fd)' >= due
      BY <1>1, <1>3, <1>4, <2>1
    <3> QED BY <3>1 DEF Drained
  <2>2. CASE truncPending \/ hi >= due
    BY <2>2 DEF Drained
  <2> QED BY <1>7, <2>1, <2>2 DEF Drained
<1> QED BY <1>6, <1>7

(* Every step preserves that what is due has been read when the stream     *)
(* leaves.                                                                 *)
LEMMA NextDrain ==
  IInv /\ PlaceInv /\ DrainInv /\ [Next]_vars => DrainInv'
<1> SUFFICES ASSUME IInv, PlaceInv, DrainInv, [Next]_vars PROVE DrainInv'
  OBVIOUS
<1> USE DEF ghostVars
<1>a. TypeOK /\ FilesInv /\ ControlInv
  BY DEF IInv
<1>b. pc \in Running => fd # NoInode /\ ~completed
  BY <1>a DEF ControlInv
<1>c. completed => pc = "done" /\ partial = <<>>
  BY DEF DrainInv
<1>d. pc \in {"new", "open"} => fd = NoInode /\ ~completed
  BY <1>a DEF ControlInv
<1>1. CASE New
  BY <1>1, <1>d DEF New, DrainInv
<1>2. CASE Open
  <2>1. CASE path # NoInode /\ pc' = "read" /\ fd' = path /\ due' = End(path)
             /\ UNCHANGED <<fsVars, completed>>
    <3>1. End(fd)' = End(path) /\ End(path) \in Nat
      <4>1. path \in Inodes
        BY <1>a, <2>1, BoundsAssumption DEF TypeOK, FsTypeOK, Inodes, NoInode
      <4>2. End(path) \in 0..written /\ written \in Nat
        BY <1>a, <4>1, Intervals DEF TypeOK, FsTypeOK
      <4> QED BY <2>1, <4>2 DEF End, fsVars
    <3> QED BY <1>2, <1>d, <2>1, <3>1 DEF Open, DrainInv
  <2>2. CASE pc' = "failed" /\ UNCHANGED <<fd, completed>>
    BY <1>2, <1>d, <2>2 DEF Open, DrainInv
  <2> QED BY <1>2, <2>1, <2>2 DEF Open, StartRoutine
<1>3. CASE Reopen
  <2>0. pc = "reopen" /\ fd # NoInode /\ ~completed /\ UNCHANGED completed
    BY <1>3, <1>b DEF Reopen, Running
  <2>1. CASE path # NoInode /\ StartRoutine(newfi, path, 0) /\ UNCHANGED <<fsVars, due>>
    <3>1. fd' = path /\ pc' = "read"
      BY <2>1 DEF StartRoutine
    <3>2. fd \in Inodes /\ path \in Inodes /\ fd <= path
      BY <1>a, <2>0, <2>1, BoundsAssumption
         DEF TypeOK, FsTypeOK, FilesInv, Inodes, NoInode
    <3>3. /\ End(fd) \in Nat /\ End(path) \in Nat /\ due \in Nat /\ First(path) \in Nat
          /\ First(path) <= End(path)
      <4>1. /\ First(path) \in 0..written /\ End(path) \in 0..written
            /\ First(path) <= End(path) /\ written \in Nat
        BY <1>a, <3>2, Intervals DEF TypeOK, FsTypeOK
      <4> QED BY <2>0, <4>1, Numbers
    <3>4. End(fd) <= End(path)
      <4>1. CASE fd = path
        BY <3>3, <4>1
      <4>2. CASE fd # path
        <5>1. fd < path
          BY <3>2, <4>2 DEF Inodes
        <5>2. End(fd) <= First(path)
          BY <1>a, <3>2, <5>1, Intervals
        <5> QED BY <3>3, <5>2
      <4> QED BY <4>1, <4>2
    <3>5. End(fd)' = End(path)
      BY <2>1, <3>1 DEF End, fsVars
    <3>6. due' <= End(fd)'
      BY <2>0, <2>1, <3>3, <3>4, <3>5 DEF DrainInv
    <3> QED BY <2>0, <3>1, <3>6 DEF DrainInv
  <2>2. CASE /\ pc' = "done"
             /\ UNCHANGED <<fi, fd, off, lo, hi, partial, wg, ghostVars>>
    <3>1. due <= End(fd)'
      BY <2>0, <2>2, DueKept
    <3> QED BY <2>0, <2>2, <3>1 DEF DrainInv
  <2> QED BY <1>3, <2>1, <2>2 DEF Reopen
<1>4. CASE Read
  <2>0. /\ pc = "read" /\ fd # NoInode /\ ~completed
        /\ UNCHANGED <<fsVars, fd, due, completed, truncPending>>
    BY <1>4, <1>b DEF Read, Running
  <2>1. /\ First(fd) \in Nat /\ End(fd) \in Nat /\ Size(fd) = End(fd) - First(fd)
        /\ hi \in Nat /\ off \in Nat /\ due \in Nat
    BY <2>0, Numbers
  <2>2. First(fd)' = First(fd) /\ End(fd)' = End(fd)
    BY <2>0 DEF First, End, fsVars
  <2>3. due <= End(fd)
    BY <2>0 DEF DrainInv
  <2>4. CASE pc' = "decode"
    BY <2>0, <2>2, <2>3, <2>4 DEF DrainInv
  <2>5. CASE Size(fd) - off <= 0 /\ hi' = hi
    <3>1. truncPending \/ off = 0 \/ (hi = First(fd) + off /\ off <= Size(fd))
      BY <2>0 DEF PlaceInv
    <3>2. truncPending \/ hi >= due \/ First(fd) >= due
      BY <2>1, <2>3, <2>5, <3>1
    <3>3. Drained'
      BY <2>0, <2>2, <2>5, <3>2 DEF Drained
    <3> QED BY <2>0, <2>2, <2>3, <3>3 DEF DrainInv
  <2> QED BY <1>4, <2>4, <2>5 DEF Read
<1>5. CASE Stop
  <2>0. /\ pc \in Running /\ fd # NoInode /\ ~completed
        /\ UNCHANGED <<fsVars, pc, fd, hi, eof, cancelled, completed, partial, truncPending>>
        /\ due' = IF pc \in {"read", "decode", "wait"} THEN End(fd) ELSE due
    BY <1>5, <1>b DEF Stop
  <2>1. CASE pc \in {"read", "decode", "wait"}
    <3>1. End(fd)' = End(fd) /\ End(fd) \in Nat
      BY <2>0, Numbers DEF End, fsVars
    <3> QED BY <2>0, <2>1, <3>1 DEF DrainInv
  <2>2. CASE pc \notin {"read", "decode", "wait"}
    <3>1. UNCHANGED due
      BY <2>0, <2>2
    <3>2. due <= End(fd)' /\ (Drained => Drained')
      BY <2>0, <3>1, DueKept
    <3> QED BY <2>0, <3>1, <3>2 DEF DrainInv
  <2> QED BY <2>1, <2>2
<1>6. CASE Flush
  <2>0. /\ pc = "flush" /\ fd # NoInode /\ ~completed /\ pc' = "done" /\ completed'
        /\ UNCHANGED <<fd, hi, due, truncPending, cancelled>>
    BY <1>6, <1>b DEF Flush, Running
  <2>1. partial' = <<>>
    BY <1>6 DEF Flush, FlushPartial, SendLine
  <2>2. due <= End(fd)' /\ (Drained => Drained')
    BY <2>0, DueKept
  <2>3. cancelled \/ Drained
    BY <2>0 DEF DrainInv
  <2> QED BY <2>0, <2>1, <2>2, <2>3 DEF DrainInv
<1>7. CASE ReadError \/ DecodeAndSend \/ Decoded \/ StatAtEOF \/ Sleep \/ Wait
  <2>0. /\ pc \in {"read", "decode", "stat", "sleep", "wait"} /\ fd # NoInode /\ ~completed
        /\ UNCHANGED <<fd, hi, due, truncPending, cancelled, completed>>
    BY <1>7, <1>b DEF ReadError, DecodeAndSend, Decoded, StatAtEOF, Sleep, Wait, Running
  <2>1. due <= End(fd)' /\ (Drained => Drained')
    BY <2>0, DueKept
  <2>2. pc' \in {"stat", "flush"} \/ (pc' = "sleep" /\ eof') =>
          pc = "stat" \/ (pc = "sleep" /\ eof) \/ cancelled
    BY <1>7 DEF ReadError, DecodeAndSend, Decoded, StatAtEOF, Sleep, Wait
  <2>3. pc = "stat" \/ (pc = "sleep" /\ eof) => cancelled \/ Drained
    BY DEF DrainInv
  <2> QED BY <2>0, <2>1, <2>2, <2>3 DEF DrainInv
<1>8. CASE Truncated
  <2>0. /\ pc = "trunc" /\ fd # NoInode /\ ~completed /\ pc' = "read"
        /\ UNCHANGED <<fd, hi, due, completed>>
    BY <1>8, <1>b DEF Truncated, Running
  <2>1. due <= End(fd)
    BY <2>0 DEF DrainInv
  <2>2. End(fd) <= End(fd)' /\ FsTypeOK' /\ fd \in Inodes /\ End(fd) \in Nat /\ due \in Nat
    <3>1. fd \in Inodes /\ End(fd) \in Nat /\ due \in Nat
      BY <2>0, Numbers
    <3> QED BY <1>a, <2>0, <3>1, FilesStep
  <2>3. End(fd)' \in Nat
    BY <2>0, <2>2 DEF FsTypeOK, End
  <2>4. due' <= End(fd)'
    BY <2>0, <2>1, <2>2, <2>3
  <2> QED BY <2>0, <2>4 DEF DrainInv
<1>9. CASE RoutineDone \/ Cancel \/ Environment \/ Truncate \/ UNCHANGED vars
  <2>0. /\ UNCHANGED <<pc, fd, hi, due, eof, completed, partial>>
        /\ cancelled => cancelled'
    BY <1>9 DEF RoutineDone, Cancel, Environment, Truncate, vars, streamVars
  <2>1. truncPending => truncPending'
    <3>1. CASE Truncate
      BY <3>1 DEF Truncate
    <3>2. CASE ~Truncate
      <4>1. truncPending' = truncPending
        BY <1>9, <3>2 DEF RoutineDone, Cancel, Environment, vars
      <4> QED BY <4>1
    <3> QED BY <3>1, <3>2
  <2>2. fd # NoInode => due <= End(fd)' /\ (Drained => Drained')
    BY <2>0, <2>1, DueKept
  <2>3. pc \in {"stat", "flush", "sleep"} => fd # NoInode
    BY <1>b DEF Running
  <2>4. CASE fd # NoInode
    BY <2>0, <2>2, <2>4 DEF DrainInv
  <2>5. CASE fd = NoInode
    <3>1. pc \notin {"stat", "flush", "sleep"} /\ ~completed
      BY <2>3, <2>5 DEF DrainInv
    <3> QED BY <2>0, <2>5, <3>1 DEF DrainInv
  <2> QED BY <2>4, <2>5
<1> QED
  BY <1>1, <1>2, <1>3, <1>4, <1>5, <1>6, <1>7, <1>8, <1>9 DEF Next, Step

(* A stream that has ended by a graceful Stop, or because its file is      *)
(* gone, has read all that was due and sent all it had (filestream.go:     *)
(* 134-143, 189-211).                                                      *)
THEOREM FileStreamStopDrains == Spec => []StopDrains
<1>1. Init => PlaceInv /\ NothingSkipped /\ DrainInv
  BY DEF Init, PlaceInv, NothingSkipped, DrainInv
<1>2. IInv /\ PlaceInv /\ NothingSkipped /\ [Next]_vars => PlaceInv' /\ NothingSkipped'
  BY NextPlace
<1>3. IInv /\ PlaceInv /\ DrainInv /\ [Next]_vars => DrainInv'
  BY NextDrain
<1>4. DrainInv => StopDrains
  BY DEF DrainInv, Drained, StopDrains
<1> QED BY <1>1, <1>2, <1>3, <1>4, FileStreamIInv, PTL DEF Spec

(* Only the handover after a rotation may drop what is in the accumulator. *)
LEMMA StepDecodedKept == IInv /\ [Next]_vars => Held \subseteq Held' \/ pc = "reopen"
<1> SUFFICES ASSUME IInv, [Next]_vars, pc # "reopen" PROVE Held \subseteq Held'
  OBVIOUS
<1>a. TypeOK /\ ControlInv
  BY DEF IInv
<1>1. CASE UNCHANGED <<lines, partial>>
  BY <1>1 DEF Held, Sent
<1>2. CASE SendLine
  BY <1>2, <1>a, HeldSent
<1>3. CASE partial' = Append(partial, lo) /\ UNCHANGED lines
  BY <1>3, <1>a, HeldAppended
<1>4. CASE Open
  <2>1. lines = <<>> /\ partial = <<>> /\ UNCHANGED lines
    BY <1>4, <1>a DEF Open, ControlInv
  <2>2. partial' = <<>>
    BY <1>4, <2>1 DEF Open, StartRoutine
  <2> QED BY <1>1, <2>1, <2>2
<1>5. CASE DecodeAndSend \/ Truncated \/ Flush
  BY <1>1, <1>2, <1>3, <1>5 DEF DecodeAndSend, Truncated, Flush, FlushPartial
<1>6. CASE \/ New \/ Read \/ ReadError \/ Decoded \/ StatAtEOF \/ Sleep \/ Wait
           \/ RoutineDone \/ Stop \/ Cancel \/ Truncate \/ Environment \/ UNCHANGED vars
  BY <1>1, <1>6 DEF New, Read, ReadError, Decoded, StatAtEOF, Sleep, Wait, RoutineDone,
                    Stop, Cancel, Truncate, Environment, vars, streamVars
<1> QED BY <1>4, <1>5, <1>6 DEF Next, Step, Reopen

(* A byte leaves the accumulator only into a line that is sent, except     *)
(* where a rotation hands over (filestream.go:147-154).                    *)
THEOREM FileStreamDecodedKept == Spec => DecodedKept
<1>1. IInv /\ [Next]_vars => [Held \subseteq Held' \/ pc = "reopen"]_vars
  BY StepDecodedKept
<1> QED BY <1>1, FileStreamIInv, PTL DEF Spec, DecodedKept
=============================================================================
