------------------------------- MODULE Loader -------------------------------
(***************************************************************************)
(* internal/vm/loader.go: the Loader compiles the programs of a directory, *)
(* runs a virtual machine for each, hands every log line to every machine, *)
(* replaces a machine when SIGHUP asks for a reload and its program has    *)
(* changed, and shuts all down when the Tailer closes the channel of lines.*)
(*                                                                         *)
(* The goroutines are: the caller of NewLoader, which loads all programs   *)
(* once; the consumer, which takes lines off the channel; the reload       *)
(* goroutine; the waiter; and one for each virtual machine (VM.Run).       *)
(* handleMu is held for reading by the consumer while it hands out a line  *)
(* (consumer = "send") and for writing within Swap and Finish; a writer    *)
(* that waits (load = "lock") keeps new readers out, as sync.RWMutex does. *)
(* A program's text is one of Versions.                                    *)
(***************************************************************************)
EXTENDS Integers, Sequences

CONSTANTS
  NProgs,      (* programs are 1..NProgs in the order of ReadDir           *)
  Versions,    (* texts of a program                                       *)
  Broken,      (* the versions that do not compile                         *)
  Clashing,    (* the versions a metric of which the store refuses         *)
  Absent,      (* there is no such file                                    *)
  ErrorsAbort, (* l.errorsAbort                                            *)
  CompileOnly, (* l.compileOnly                                            *)
  MaxLines,    (* bound on log lines                                       *)
  MaxEdits,    (* bound on changes to the directory                        *)
  MaxHups,     (* bound on SIGHUPs                                         *)
  MaxUnloads   (* bound on calls of UnloadProgram                          *)

Progs == 1..NProgs
NoVM == 0
VMs == 1..(NProgs * (MaxHups + 1))

ASSUME LoaderAssumption ==
  /\ NProgs \in Nat /\ MaxLines \in Nat /\ MaxEdits \in Nat
  /\ MaxHups \in Nat /\ MaxUnloads \in Nat
  /\ Broken \subseteq Versions /\ Clashing \subseteq Versions
  /\ Absent \notin Versions
  /\ ErrorsAbort \in BOOLEAN /\ CompileOnly \in BOOLEAN
  /\ CompileOnly => ErrorsAbort

VARIABLES
  disk,        (* what the directory holds for each program                *)
  main,        (* NewLoader: "loading", "returned", "error"                *)
  reload,      (* the reload goroutine: "init", "select", "busy", "gone"   *)
  hup,         (* a signal is in the channel n, of capacity 1              *)
  load,        (* LoadAllPrograms: "idle", "stat", "next", or "lock" when  *)
               (* it waits in CompileAndRun for handleMu                   *)
  todo,        (* programs of the directory listing not looked at yet      *)
  cur, text,   (* the program being loaded, and its text                   *)
  consumer,    (* "init", "recv", "rlock", "send", "end", "gone"           *)
  sending,     (* programs that have not got the current line yet          *)
  received,    (* lines taken off the channel                              *)
  inputClosed, (* the channel of lines is closed                           *)
  signalQuit,  (* l.signalQuit is closed                                   *)
  handles,     (* program -> its VM, NoVM if there is no entry             *)
  nvms,        (* how many VMs have been made                              *)
  prog, ver,   (* a VM's program and its text                              *)
  open,        (* the VMs whose channel is open                            *)
  busy,        (* the VMs in ProcessLogLine                                *)
  running,     (* the VMs whose goroutine has not ended                    *)
  wg,          (* l.wg: how many goroutines were added and are not done    *)
  waiter,      (* the goroutine that waits for l.wg: "wait", "gone"        *)
  programErrors, (* program -> "none" when there is no entry, "ok", "error"*)
  edits, hups, unloads   (* count against the bounds                       *)

(* History variables: no action is guarded by them.                        *)
VARIABLES
  got,         (* VM -> the lines it was given                             *)
  since,       (* VM -> the lines handed out before it was loaded          *)
  unloaded     (* VMs taken out of handles by UnloadProgram                *)

dirVars == <<disk, edits, hups, unloads>>
loadVars == <<main, load, todo, cur, text, programErrors>>
reloadVars == <<reload, hup>>
lineVars == <<consumer, sending, received, inputClosed, signalQuit>>
vmVars == <<handles, nvms, prog, ver, open, busy, running, wg, got, since,
            unloaded>>
vars == <<dirVars, loadVars, reloadVars, lineVars, vmVars, waiter>>

Listing == {p \in Progs : disk[p] # Absent}
Loaded == {p \in Progs : handles[p] # NoVM}

(* NewLoader has counted and started the consumer and the reload goroutine *)
(* and is about to load.  Both, and the waiter, wait for it to return.     *)
(* Without a programPath it returns at once, and there is no reload        *)
(* goroutine.                                                              *)
Init ==
  /\ disk \in [Progs -> Versions \cup {Absent}]
  /\ \/ main = "loading" /\ load = "stat" /\ reload = "init" /\ wg = 2
     \/ main = "returned" /\ load = "idle" /\ reload = "gone" /\ wg = 1
  /\ hup = FALSE
  /\ todo = {} /\ cur = 0 /\ text = Absent
  /\ consumer = "init" /\ sending = {} /\ received = 0
  /\ inputClosed = FALSE /\ signalQuit = FALSE
  /\ handles = [p \in Progs |-> NoVM]
  /\ nvms = 0
  /\ prog = [v \in VMs |-> 0] /\ ver = [v \in VMs |-> Absent]
  /\ open = {} /\ busy = {} /\ running = {}
  /\ waiter = "wait"
  /\ programErrors = [p \in Progs |-> "none"]
  /\ edits = 0 /\ hups = 0 /\ unloads = 0
  /\ got = [v \in VMs |-> <<>>] /\ since = [v \in VMs |-> 0]
  /\ unloaded = {}

-----------------------------------------------------------------------------
BadLoadReturns(ok) ==                       \* reload goroutine left waiting
  /\ load' = "idle"
  /\ todo' = {}
  /\ main' = IF main # "loading" THEN main
             ELSE IF ok THEN "returned" ELSE "error"
  /\ UNCHANGED reload

(* LoadAllPrograms returns, to NewLoader or to the reload goroutine.  When *)
(* NewLoader fails the process exits: nothing follows main = "error".      *)
LoadReturns(ok) ==
  /\ load' = "idle"
  /\ todo' = {}
  /\ IF main = "loading"
     THEN /\ main' = IF ok THEN "returned" ELSE "error"
          /\ UNCHANGED reload
     ELSE /\ reload' = "select"
          /\ UNCHANGED main

(* LoadAllPrograms: Stat and ReadDir.  A directory with nothing in it may  *)
(* as well be gone, which is an error.                                     *)
LoadAllPrograms ==
  /\ load = "stat"
  /\ \/ /\ todo' = Listing
        /\ load' = "next"
        /\ UNCHANGED <<main, reload>>
     \/ /\ Listing = {}
        /\ LoadReturns(FALSE)
  /\ UNCHANGED <<dirVars, cur, text, programErrors, hup, lineVars, vmVars,
                 waiter>>

LoadedAll ==
  /\ load = "next"
  /\ todo = {}
  /\ LoadReturns(TRUE)
  /\ UNCHANGED <<dirVars, cur, text, programErrors, hup, lineVars, vmVars,
                 waiter>>

BadLoadFails(p) == LoadReturns(FALSE)       \* errorsAbort not asked

(* The program p has failed to load: an error ends the whole load if       *)
(* errorsAbort is set.                                                     *)
LoadFails(p) ==
  IF ErrorsAbort THEN LoadReturns(FALSE)
  ELSE /\ todo' = todo \ {p}
       /\ UNCHANGED <<load, main, reload>>

BadUnchanged(p) == handles[p] # NoVM        \* contentHash not compared

(* CompileAndRun finds the text that is running already.                   *)
Unchanged(p) == handles[p] # NoVM /\ ver[handles[p]] = disk[p]

BadKeepHandle ==                            \* a broken program loses its VM
  /\ load = "next"
  /\ \E p \in todo :
       /\ \A q \in todo : p <= q
       /\ disk[p] # Absent
       /\ IF disk[p] \in Broken \cup Clashing
          THEN /\ programErrors' = [programErrors EXCEPT ![p] = "error"]
               /\ open' = open \ {handles[p]}
               /\ handles' = [handles EXCEPT ![p] = NoVM]
               /\ LoadFails(p)
               /\ UNCHANGED <<cur, text>>
          ELSE /\ load' = "lock" /\ cur' = p /\ text' = disk[p]
               /\ UNCHANGED <<todo, main, reload, programErrors, open, handles>>
  /\ UNCHANGED <<dirVars, hup, lineVars, nvms, prog, ver, busy, running, wg,
                 got, since, unloaded, waiter>>

(* LoadProgram of the next one, up to where CompileAndRun takes handleMu   *)
(* to replace the VM: the file may be gone since ReadDir, may be unchanged,*)
(* may not compile, may have a metric the store refuses.                   *)
LoadProgram ==
  /\ load = "next"
  /\ \E p \in todo :
       /\ \A q \in todo : p <= q
       /\ \/ /\ disk[p] = Absent
             /\ LoadFails(p)
             /\ UNCHANGED <<cur, text, programErrors>>
          \/ /\ disk[p] # Absent
             /\ Unchanged(p) \/ (CompileOnly /\ disk[p] \notin Broken \cup Clashing)
             /\ programErrors' = [programErrors EXCEPT ![p] = "ok"]
             /\ todo' = todo \ {p}
             /\ UNCHANGED <<load, main, reload, cur, text>>
          \/ /\ disk[p] \in Broken \cup Clashing
             /\ ~Unchanged(p)
             /\ programErrors' = [programErrors EXCEPT ![p] = "error"]
             /\ LoadFails(p)
             /\ UNCHANGED <<cur, text>>
          \/ /\ disk[p] \in Versions \ (Broken \cup Clashing)
             /\ ~Unchanged(p)
             /\ ~CompileOnly
             /\ load' = "lock"
             /\ cur' = p
             /\ text' = disk[p]
             /\ UNCHANGED <<todo, main, reload, programErrors>>
  /\ UNCHANGED <<dirVars, hup, lineVars, vmVars, waiter>>

BadSwap ==                                  \* handleMu not taken
  /\ load = "lock"
  /\ LET v == nvms + 1
     IN /\ open' = (open \ {handles[cur]}) \cup {v}
        /\ handles' = [handles EXCEPT ![cur] = v]
        /\ prog' = [prog EXCEPT ![v] = cur] /\ ver' = [ver EXCEPT ![v] = text]
        /\ since' = [since EXCEPT ![v] =
                       IF consumer \in {"rlock", "send"}
                       THEN received - 1 ELSE received]
        /\ running' = running \cup {v}
        /\ wg' = wg + 1
        /\ nvms' = v
  /\ programErrors' = [programErrors EXCEPT ![cur] = "ok"]
  /\ todo' = todo \ {cur}
  /\ load' = "next"
  /\ cur' = 0 /\ text' = Absent
  /\ UNCHANGED <<dirVars, main, reloadVars, lineVars, busy, got, unloaded,
                 waiter>>

(* The end of CompileAndRun, under handleMu: close the channel of the VM   *)
(* there is, make a new one and start it, counted in l.wg.                 *)
Swap ==
  /\ load = "lock"
  /\ consumer # "send"
  /\ LET v == nvms + 1
     IN /\ open' = (open \ {handles[cur]}) \cup {v}
        /\ handles' = [handles EXCEPT ![cur] = v]
        /\ prog' = [prog EXCEPT ![v] = cur]
        /\ ver' = [ver EXCEPT ![v] = text]
        /\ since' = [since EXCEPT ![v] =
                       IF consumer = "rlock" THEN received - 1 ELSE received]
        /\ running' = running \cup {v}
        /\ wg' = wg + 1
        /\ nvms' = v
  /\ programErrors' = [programErrors EXCEPT ![cur] = "ok"]
  /\ todo' = todo \ {cur}
  /\ load' = "next"
  /\ cur' = 0 /\ text' = Absent
  /\ UNCHANGED <<dirVars, main, reloadVars, lineVars, busy, got, unloaded,
                 waiter>>

(* UnloadProgram, under handleMu: the entry goes, the VM's channel stays.  *)
UnloadProgram ==
  /\ main = "returned"
  /\ consumer # "send"
  /\ unloads < MaxUnloads
  /\ unloads' = unloads + 1
  /\ \E p \in Loaded :
       /\ handles' = [handles EXCEPT ![p] = NoVM]
       /\ unloaded' = unloaded \cup {handles[p]}
  /\ UNCHANGED <<disk, edits, hups, loadVars, reloadVars, lineVars, nvms,
                 prog, ver, open, busy, running, wg, got, since, waiter>>

-----------------------------------------------------------------------------
BadReload ==                                \* wg.Done before the reload
  /\ \/ /\ reload = "init" /\ main = "returned"
        /\ reload' = "select"
        /\ UNCHANGED <<hup, load, wg>>
     \/ /\ reload = "select" /\ hup
        /\ reload' = "busy" /\ hup' = FALSE /\ load' = "stat"
        /\ wg' = wg - 1
  /\ UNCHANGED <<dirVars, main, todo, cur, text, programErrors, lineVars,
                 handles, nvms, prog, ver, open, busy, running, got, since,
                 unloaded, waiter>>

(* The reload goroutine, once NewLoader has returned.                      *)
Reload ==
  /\ \/ /\ reload = "init"
        /\ main = "returned"
        /\ reload' = "select"
        /\ UNCHANGED <<hup, load, wg>>
     \/ /\ reload = "select" /\ hup
        /\ reload' = "busy"
        /\ hup' = FALSE
        /\ load' = "stat"
        /\ UNCHANGED wg
     \/ /\ reload = "select" /\ signalQuit
        /\ reload' = "gone"
        /\ wg' = wg - 1
        /\ UNCHANGED <<hup, load>>
  /\ UNCHANGED <<dirVars, main, todo, cur, text, programErrors, lineVars,
                 handles, nvms, prog, ver, open, busy, running, got, since,
                 unloaded, waiter>>

(* SIGHUP, once signal.Notify has been called.                             *)
Hup ==
  /\ reload \in {"select", "busy"}
  /\ hups < MaxHups
  /\ hups' = hups + 1
  /\ hup' = TRUE
  /\ UNCHANGED <<disk, edits, unloads, loadVars, reload, lineVars, vmVars,
                 waiter>>

-----------------------------------------------------------------------------
(* The consumer starts when NewLoader has returned, and takes a line.      *)
Receive ==
  /\ \/ /\ consumer = "init"
        /\ main = "returned"
        /\ consumer' = "recv"
        /\ UNCHANGED received
     \/ /\ consumer = "recv"
        /\ ~inputClosed
        /\ received < MaxLines
        /\ received' = received + 1
        /\ consumer' = "rlock"
  /\ UNCHANGED <<dirVars, loadVars, reloadVars, sending, inputClosed,
                 signalQuit, vmVars, waiter>>

(* handleMu.RLock(): not while a writer waits.                             *)
RLock ==
  /\ consumer = "rlock"
  /\ load # "lock"
  /\ consumer' = "send"
  /\ sending' = Loaded
  /\ UNCHANGED <<dirVars, loadVars, reloadVars, received, inputClosed,
                 signalQuit, vmVars, waiter>>

(* One send on an unbuffered channel: the VM must have come to receive.    *)
Send ==
  /\ consumer = "send"
  /\ \E p \in sending :
       /\ handles[p] \notin busy
       /\ sending' = sending \ {p}
       /\ busy' = busy \cup {handles[p]}
       /\ got' = [got EXCEPT ![handles[p]] = Append(@, received)]
  /\ UNCHANGED <<dirVars, loadVars, reloadVars, consumer, received,
                 inputClosed, signalQuit, handles, nvms, prog, ver, open,
                 running, wg, since, unloaded, waiter>>

(* The line has been given to all: RUnlock, next line.  A VM that takes    *)
(* its time holds the consumer up only at the next line.                   *)
Sent ==
  /\ consumer = "send"
  /\ sending = {}
  /\ consumer' = "recv"
  /\ UNCHANGED <<dirVars, loadVars, reloadVars, sending, received,
                 inputClosed, signalQuit, vmVars, waiter>>

(* END OF LINE: close signalQuit.                                          *)
EndOfLine ==
  /\ consumer = "recv"
  /\ inputClosed
  /\ signalQuit' = TRUE
  /\ consumer' = "end"
  /\ UNCHANGED <<dirVars, loadVars, reloadVars, sending, received,
                 inputClosed, vmVars, waiter>>

BadFinish ==                                \* handles left out of the loop
  /\ consumer = "end"
  /\ handles' = [p \in Progs |-> NoVM]
  /\ consumer' = "gone"
  /\ wg' = wg - 1
  /\ UNCHANGED <<dirVars, loadVars, reloadVars, sending, received,
                 inputClosed, signalQuit, nvms, prog, ver, open, busy, running,
                 got, since, unloaded, waiter>>

(* Then, under handleMu, all channels are closed and the handles deleted.  *)
Finish ==
  /\ consumer = "end"
  /\ open' = open \ {handles[p] : p \in Progs}
  /\ handles' = [p \in Progs |-> NoVM]
  /\ consumer' = "gone"
  /\ wg' = wg - 1
  /\ UNCHANGED <<dirVars, loadVars, reloadVars, sending, received,
                 inputClosed, signalQuit, nvms, prog, ver, busy, running,
                 got, since, unloaded, waiter>>

-----------------------------------------------------------------------------
(* VM.Run: a line is processed; a closed channel ends the goroutine.       *)
VMStep(v) ==
  /\ \/ /\ v \in busy
        /\ busy' = busy \ {v}
        /\ UNCHANGED <<running, wg>>
     \/ /\ v \in running \ (open \cup busy)
        /\ running' = running \ {v}
        /\ wg' = wg - 1
        /\ UNCHANGED busy
  /\ UNCHANGED <<dirVars, loadVars, reloadVars, lineVars, handles, nvms,
                 prog, ver, open, got, since, unloaded, waiter>>

(* The waiter: l.wg.Wait(), then the server's wg.Done().                   *)
Waiter ==
  /\ waiter = "wait"
  /\ main = "returned"
  /\ wg = 0
  /\ waiter' = "gone"
  /\ UNCHANGED <<dirVars, loadVars, reloadVars, lineVars, vmVars>>

(* The Tailer closes the channel of lines.                                 *)
CloseInput ==
  /\ ~inputClosed
  /\ inputClosed' = TRUE
  /\ UNCHANGED <<dirVars, loadVars, reloadVars, consumer, sending, received,
                 signalQuit, vmVars, waiter>>

(* Somebody writes or deletes a program.                                   *)
Edit ==
  /\ edits < MaxEdits
  /\ edits' = edits + 1
  /\ \E p \in Progs, t \in Versions \cup {Absent} :
       disk' = [disk EXCEPT ![p] = t]
  /\ UNCHANGED <<hups, unloads, loadVars, reloadVars, lineVars, vmVars,
                 waiter>>

-----------------------------------------------------------------------------
LoadStep == LoadAllPrograms \/ LoadProgram \/ Swap \/ LoadedAll
ConsumerStep == Receive \/ RLock \/ Send \/ Sent \/ EndOfLine \/ Finish

Next ==
  \/ LoadStep
  \/ Reload
  \/ ConsumerStep
  \/ \E v \in VMs : VMStep(v)
  \/ Waiter
  \/ Hup \/ Edit \/ CloseInput \/ UnloadProgram

Spec == Init /\ [][Next]_vars

(* Every goroutine that can run does, and a program ends on every line     *)
(* (byte code has no loops).  Nothing is assumed of signals, edits and the *)
(* end of input.                                                           *)
FairSpec ==
  /\ Spec
  /\ WF_vars(LoadStep) /\ WF_vars(Reload) /\ WF_vars(ConsumerStep)
  /\ \A v \in VMs : WF_vars(VMStep(v))
  /\ WF_vars(Waiter)

-----------------------------------------------------------------------------
TypeOK ==
  /\ disk \in [Progs -> Versions \cup {Absent}]
  /\ main \in {"loading", "returned", "error"}
  /\ reload \in {"init", "select", "busy", "gone"}
  /\ hup \in BOOLEAN /\ inputClosed \in BOOLEAN /\ signalQuit \in BOOLEAN
  /\ load \in {"idle", "stat", "next", "lock"}
  /\ load # "idle" <=> main = "loading" \/ reload = "busy"
  /\ todo \subseteq Progs
  /\ cur \in Progs \cup {0} /\ text \in Versions \cup {Absent}
  /\ load = "lock" => cur \in Progs
  /\ consumer \in {"init", "recv", "rlock", "send", "end", "gone"}
  /\ sending \subseteq Progs
  /\ received \in 0..MaxLines
  /\ handles \in [Progs -> VMs \cup {NoVM}]
  /\ nvms \in VMs \cup {0}
  /\ prog \in [VMs -> Progs \cup {0}]
  /\ ver \in [VMs -> Versions \cup {Absent}]
  /\ open \subseteq VMs /\ busy \subseteq VMs
  /\ running \subseteq VMs /\ wg \in Nat
  /\ waiter \in {"wait", "gone"}
  /\ programErrors \in [Progs -> {"none", "ok", "error"}]
  /\ edits \in Nat /\ hups \in 0..MaxHups /\ unloads \in Nat
  /\ got \in [VMs -> Seq(1..MaxLines)]
  /\ since \in [VMs -> 0..MaxLines]
  /\ unloaded \subseteq VMs

(* The consumer never sends on a closed channel, nor to a VM that is gone: *)
(* what is in handles is open and running, also while a reload is half way *)
(* and after one that failed (the comment on CompileAndRun, loader.go:     *)
(* 196-200).                                                               *)
HandlesRun == \A p \in Loaded : handles[p] \in open \cap running

(* A VM that is out of handles has had its channel closed, so that it      *)
(* ends, unless UnloadProgram took it out.                                 *)
NoOrphan ==
  \A v \in open \ unloaded : prog[v] \in Progs /\ handles[prog[v]] = v

(* When the wait for l.wg is over all goroutines have ended, and no VM is  *)
(* started after it, not even by a reload that races with the end of input *)
(* (loader.go:392-400).                                                    *)
WaitIsFinal ==
  waiter = "gone" => consumer = "gone" /\ reload = "gone" /\ running = {}

(* The VMs are accounted for, in handles while they run and in the         *)
(* WaitGroup until they have ended: the three parts above.                 *)
VMsAccounted == HandlesRun /\ NoOrphan /\ WaitIsFinal

(* The lines handed out to all programs so far, and those p has got.       *)
HandedTo(p) ==
  IF consumer = "rlock" \/ (consumer = "send" /\ p \in sending)
  THEN received - 1 ELSE received

(* Each VM has got every line handed out since it was loaded, once and in  *)
(* order: a reload takes place between two lines, never within one, so     *)
(* that a program sees no line twice and misses none over a reload.        *)
EveryLine ==
  \A p \in Loaded :
    LET v == handles[p]
    IN got[v] = [i \in 1..(HandedTo(p) - since[v]) |-> since[v] + i]

(* WriteStatusHTML looks up the handle of each of these, and panics over   *)
(* one without.                                                            *)
WriteStatusHTML == {p \in Progs : programErrors[p] # "none"}

(* The status page can show every program until the end of input, whatever *)
(* failed to compile and was reloaded meanwhile: a name in programErrors   *)
(* has a handle, unless the program was unloaded or no version of it ever  *)
(* compiled (loader.go:191 does not look whether there is one).            *)
StatusShown ==
  consumer # "gone" /\ ~CompileOnly =>
    \A p \in WriteStatusHTML \ Loaded :
      p \in {prog[v] : v \in unloaded} \/ p \notin {prog[v] : v \in VMs}

(* When the Tailer has closed the channel, all goroutines of the loader    *)
(* end.  What can prevent it is a VM that Finish did not find in handles:  *)
(* one unloaded before, or started by a reload that was under way.         *)
ShutsDown ==
  inputClosed /\ main = "returned"
    ~> waiter = "gone" \/ (consumer = "gone" /\ open # {})

(* A load under errorsAbort comes to a program that cannot be loaded, or    *)
(* is gone since the directory was listed: the load ends there, and those   *)
(* behind it are not looked at (loader.go:77-80).                           *)
CutOff(p) ==
  /\ ErrorsAbort
  /\ load = "next"
  /\ \E q \in todo : q < p /\ disk[q] \in Broken \cup Clashing \cup {Absent}

(* A SIGHUP brings in the program that is on disk then, if it is good,     *)
(* whatever signals were merged while a reload was under way, and whatever *)
(* other programs do not compile, but for the ones before it under         *)
(* errorsAbort.                                                            *)
ReloadTakes ==
  \A p \in Progs, t \in Versions \ (Broken \cup Clashing) :
    hup /\ disk[p] = t
      ~> \/ handles[p] # NoVM /\ ver[handles[p]] = t
         \/ disk[p] # t
         \/ CutOff(p)
         \/ signalQuit
=============================================================================
