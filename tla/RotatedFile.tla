---------------------------- MODULE RotatedFile ----------------------------
(***************************************************************************)
(* The file system as internal/tailer/logstream sees it: one pathname, the *)
(* files (inodes) that successively carry it, the process that writes log  *)
(* lines, and the one that rotates or truncates them.  None of it is mtail *)
(* code; it is modelled from the system calls filestream.go makes (Stat,   *)
(* OpenFile, Read, Seek, SameFile).                                        *)
(*                                                                         *)
(* The bytes of the log are numbered 0, 1, 2, ... in the order the writer  *)
(* writes them, so a file is an interval [First(i), End(i)) of byte        *)
(* numbers.  A byte is a newline or it is not: nothing else about it       *)
(* matters.  Files are numbered in the order they are created.             *)
(***************************************************************************)
EXTENDS Integers

CONSTANTS
  MaxBytes,    (* bound on the bytes the writer writes                     *)
  MaxInodes,   (* bound on the files created under the pathname            *)
  MaxErrors    (* bound on the system calls that fail                      *)

ASSUME BoundsAssumption ==
  /\ MaxBytes \in Nat
  /\ MaxInodes \in Nat \ {0}
  /\ MaxErrors \in Nat

VARIABLES
  path,        (* the file the pathname refers to, NoInode if none         *)
  inodes,      (* how many files have been created                         *)
  writer,      (* the file the writing process has open                    *)
  written,     (* the number of bytes written, over all files              *)
  nl,          (* the byte numbers that are newlines                       *)
  first,       (* number of the first byte of a file the writer has opened *)
  end,         (* end of a file the writer has left                        *)
  errors       (* how many system calls have failed                        *)

fsVars == <<path, inodes, writer, written, nl, first, end, errors>>

NoInode == 0
Inodes == 1..MaxInodes

(* A file the writer has not opened yet is empty: it starts where the next *)
(* byte will be.  The file the writer has open ends there.                 *)
First(i) == IF i > writer THEN written ELSE first[i]
End(i) == IF i >= writer THEN written ELSE end[i]
Size(i) == End(i) - First(i)

FsInit ==
  /\ path = 1
  /\ inodes = 1
  /\ writer = 1
  /\ written = 0
  /\ nl = {}
  /\ first = [i \in Inodes |-> 0]
  /\ end = [i \in Inodes |-> 0]
  /\ errors = 0

(* The writer appends one byte to the file it has open, which may have     *)
(* lost its name already.                                                  *)
Append1(newline) ==
  /\ written < MaxBytes
  /\ written' = written + 1
  /\ nl' = IF newline THEN nl \cup {written} ELSE nl
  /\ UNCHANGED <<path, inodes, writer, first, end, errors>>

(* A new, empty file takes the name: rotation when the name is in use (the *)
(* old file is renamed away), creation when it is not.                     *)
Create ==
  /\ inodes < MaxInodes
  /\ inodes' = inodes + 1
  /\ path' = inodes + 1
  /\ UNCHANGED <<writer, written, nl, first, end, errors>>

(* The file is deleted, or renamed away with no successor yet.             *)
Remove ==
  /\ path # NoInode
  /\ path' = NoInode
  /\ UNCHANGED <<inodes, writer, written, nl, first, end, errors>>

(* The writer notices the rotation, closes its file and opens the new one. *)
WriterReopen ==
  /\ writer < path
  /\ writer' = path
  /\ first' = [i \in Inodes |->
                 IF writer < i /\ i <= path THEN written ELSE first[i]]
  /\ end' = [i \in Inodes |->
               IF writer <= i /\ i < path THEN written ELSE end[i]]
  /\ UNCHANGED <<path, inodes, written, nl, errors>>

(* The named file is cut to length zero in place (copytruncate).           *)
TruncateFile ==
  /\ path = writer
  /\ Size(path) > 0
  /\ first' = [first EXCEPT ![path] = written]
  /\ UNCHANGED <<path, inodes, writer, written, nl, end, errors>>

(* A system call fails for a reason that is not the state of the file.     *)
SyscallFails ==
  /\ errors < MaxErrors
  /\ errors' = errors + 1
  /\ UNCHANGED <<path, inodes, writer, written, nl, first, end>>

FsTypeOK ==
  /\ inodes \in Inodes
  /\ path \in 0..inodes
  /\ writer \in 1..inodes
  /\ written \in 0..MaxBytes
  /\ nl \subseteq 0..(written - 1)
  /\ first \in [Inodes -> 0..written]
  /\ end \in [Inodes -> 0..written]
  /\ errors \in 0..MaxErrors
=============================================================================
