---------------------------- MODULE LoaderProofs ----------------------------
(***************************************************************************)
(* Proofs about the Loader, for any number of programs, any texts of them, *)
(* either setting of errorsAbort and compileOnly, and any bounds.          *)
(***************************************************************************)
EXTENDS Loader, FiniteSetTheorems, TLAPS

(* Nothing but the load itself happens before NewLoader returns, and a     *)
(* program that waits for handleMu is still on the list of the load.       *)
LoadInv ==
  /\ main # "returned" => reload = "init" /\ consumer = "init" /\ ~hup
  /\ load \notin {"next", "lock"} => todo = {}
  /\ load = "lock" => cur \in todo

(* How many VMs the loads still to come can make: a load makes one for     *)
(* each program on its list, and each signal gives at most one load.       *)
LoadsLeft == MaxHups - hups + (IF hup THEN 1 ELSE 0)
ListLeft == IF load = "stat" THEN NProgs ELSE Cardinality(todo)
BudgetInv == nvms + ListLeft + NProgs * LoadsLeft <= NProgs * (MaxHups + 1)

(* VMs are numbered in the order they are made, and a VM in handles is one *)
(* of its program that was not unloaded.                                   *)
NumberedInv ==
  /\ \A v \in VMs : prog[v] \in Progs <=> v <= nvms
  /\ \A v \in open \cup running \cup unloaded : v <= nvms
  /\ \A v \in VMs : v > nvms => got[v] = <<>>
  /\ \A p \in Loaded : prog[handles[p]] = p /\ handles[p] \notin unloaded

(* l.wg counts the goroutines of the VMs, the consumer and the reload.     *)
CountInv ==
  wg = Cardinality(running) + (IF consumer = "gone" THEN 0 ELSE 1)
                            + (IF reload = "gone" THEN 0 ELSE 1)

(* While a line is handed out, it goes to VMs in handles and to no other.  *)
LineInv ==
  /\ consumer \in {"rlock", "send"} => received >= 1
  /\ sending \subseteq Loaded
  /\ consumer # "send" => sending = {}
  /\ \A p \in Loaded : since[handles[p]] <= HandedTo(p)

(* Until the consumer has ended, a program that had a VM and has no handle *)
(* was unloaded.                                                           *)
HandleLostInv ==
  consumer # "gone" =>
    \A v \in VMs : prog[v] \in Progs /\ handles[prog[v]] = NoVM
                     => \E u \in unloaded : prog[u] = prog[v]

IInv ==
  /\ TypeOK /\ LoadInv /\ BudgetInv /\ NumberedInv /\ CountInv /\ LineInv
  /\ HandleLostInv /\ HandlesRun /\ NoOrphan /\ WaitIsFinal /\ EveryLine

-----------------------------------------------------------------------------
(* Sets of programs and sets of VMs are finite, so that they can be        *)
(* counted.                                                                *)
LEMMA ProgsFinite ==
  ASSUME NEW S, S \subseteq Progs
  PROVE  IsFiniteSet(S) /\ Cardinality(S) \in Nat /\ Cardinality(S) <= NProgs
<1>1. IsFiniteSet(Progs) /\ Cardinality(Progs) = NProgs
  BY LoaderAssumption, FS_Interval DEF Progs
<1> QED BY <1>1, FS_Subset, FS_CardinalityType

LEMMA VMsFinite ==
  ASSUME NEW S, S \subseteq VMs
  PROVE  IsFiniteSet(S) /\ Cardinality(S) \in Nat
<1>1. NProgs * (MaxHups + 1) \in Int
  BY LoaderAssumption
<1>2. IsFiniteSet(VMs)
  BY <1>1, FS_Interval DEF VMs
<1> QED BY <1>2, FS_Subset, FS_CardinalityType

(* A load makes at most NProgs VMs, and one more load costs as much again. *)
LEMMA OneMoreLoad ==
  ASSUME NEW n \in Nat
  PROVE  /\ NProgs * n \in Nat
         /\ NProgs * (n + 1) = NProgs * n + NProgs
  BY LoaderAssumption

LEMMA BudgetTypes ==
  TypeOK => /\ LoadsLeft \in Nat /\ NProgs * LoadsLeft \in Nat
            /\ ListLeft \in Nat /\ NProgs * (MaxHups + 1) \in Nat
<1> SUFFICES ASSUME TypeOK PROVE LoadsLeft \in Nat /\ ListLeft \in Nat
  BY OneMoreLoad, LoaderAssumption
<1>1. LoadsLeft \in Nat
  BY LoaderAssumption DEF TypeOK, LoadsLeft
<1>2. ListLeft \in Nat
  BY ProgsFinite, LoaderAssumption DEF TypeOK, ListLeft
<1> QED BY <1>1, <1>2

(* The lines a VM has got, before the first and after one more.            *)
LEMMA NoLines ==
  ASSUME NEW a \in Nat
  PROVE  [i \in 1..(a - a) |-> a + i] = <<>>
  OBVIOUS

LEMMA OneMoreLine ==
  ASSUME NEW a \in Nat, NEW n \in Nat, NEW s \in Seq(Nat),
         s = [i \in 1..n |-> a + i]
  PROVE  Append(s, a + n + 1) = [i \in 1..(n + 1) |-> a + i]
<1>1. Len(s) = n
  OBVIOUS
<1>2. /\ DOMAIN Append(s, a + n + 1) = 1..(n + 1)
      /\ \A i \in 1..(n + 1) : Append(s, a + n + 1)[i] = a + i
  BY <1>1
<1> QED BY <1>2

-----------------------------------------------------------------------------
(* The initial states satisfy the inductive invariant.                     *)
LEMMA InitIInv == Init => IInv
<1> SUFFICES ASSUME Init PROVE IInv
  OBVIOUS
<1> USE LoaderAssumption DEF Init, NoVM
<1>1. TypeOK
  <2>1. got \in [VMs -> Seq(1..MaxLines)] /\ since \in [VMs -> 0..MaxLines]
    OBVIOUS
  <2>2. /\ nvms \in VMs \cup {0} /\ wg \in Nat
        /\ received \in 0..MaxLines /\ hups \in 0..MaxHups
        /\ edits \in Nat /\ unloads \in Nat
    OBVIOUS
  <2>3. /\ handles \in [Progs -> VMs \cup {NoVM}]
        /\ prog \in [VMs -> Progs \cup {0}]
        /\ ver \in [VMs -> Versions \cup {Absent}]
        /\ programErrors \in [Progs -> {"none", "ok", "error"}]
    OBVIOUS
  <2> QED BY <2>1, <2>2, <2>3 DEF TypeOK
<1>2. LoadInv /\ NumberedInv /\ LineInv /\ HandleLostInv
  BY DEF LoadInv, NumberedInv, LineInv, HandleLostInv, Loaded, Progs, VMs
<1>3. BudgetInv /\ CountInv
  <2>1. /\ NProgs * MaxHups \in Nat
        /\ NProgs * (MaxHups + 1) = NProgs * MaxHups + NProgs
    BY OneMoreLoad
  <2> QED BY <2>1, FS_EmptySet DEF BudgetInv, LoadsLeft, ListLeft, CountInv
<1>4. HandlesRun /\ NoOrphan /\ WaitIsFinal /\ EveryLine
  BY DEF HandlesRun, NoOrphan, WaitIsFinal, EveryLine, Loaded
<1> QED BY <1>1, <1>2, <1>3, <1>4 DEF IInv

(* Every step preserves the inductive invariant.                           *)
LEMMA NextIInv == IInv /\ [Next]_vars => IInv'
<1> SUFFICES ASSUME IInv, [Next]_vars PROVE IInv'
  OBVIOUS
<1> USE LoaderAssumption
    DEF IInv, dirVars, loadVars, reloadVars, lineVars, vmVars, vars
<1>1. CASE LoadAllPrograms
  <2>1. CountInv'
    BY <1>1 DEF TypeOK, CountInv, LoadAllPrograms, LoadReturns
  <2>2. TypeOK'
    BY <1>1 DEF TypeOK, LoadInv, Listing, LoadAllPrograms, LoadReturns
  <2>3. LoadInv' /\ WaitIsFinal'
    BY <1>1 DEF TypeOK, LoadInv, WaitIsFinal, CountInv, LoadAllPrograms,
        LoadReturns
  <2>4. BudgetInv'
    <3>1. LoadsLeft' = LoadsLeft /\ nvms' = nvms
      BY <1>1 DEF LoadsLeft, LoadAllPrograms
    <3>2. todo' \subseteq Progs
      BY <1>1 DEF LoadAllPrograms, LoadReturns, Listing
    <3>3. ListLeft' \in Nat /\ ListLeft' <= ListLeft
      BY <1>1, <3>2, ProgsFinite DEF ListLeft, LoadAllPrograms, LoadReturns
    <3>4. nvms \in Nat
      BY DEF TypeOK, VMs
    <3> QED BY <3>1, <3>3, <3>4, BudgetTypes DEF BudgetInv
  <2>5. NumberedInv' /\ HandlesRun' /\ NoOrphan' /\ HandleLostInv'
    BY <1>1 DEF TypeOK, LoadInv, NumberedInv, HandlesRun, NoOrphan,
        HandleLostInv, Loaded, NoVM, LoadAllPrograms, LoadReturns
  <2>6. LineInv'
    BY <1>1 DEF TypeOK, LineInv, HandedTo, Loaded, LoadAllPrograms, LoadReturns
  <2>7. EveryLine'
    BY <1>1 DEF TypeOK, LineInv, EveryLine, HandedTo, Loaded,
        LoadAllPrograms, LoadReturns
  <2> QED BY <2>1, <2>2, <2>3, <2>4, <2>5, <2>6, <2>7
<1>2. CASE LoadedAll
  <2>1. CountInv'
    BY <1>2 DEF TypeOK, CountInv, LoadedAll, LoadReturns
  <2>2. TypeOK'
    BY <1>2 DEF TypeOK, LoadInv, LoadedAll, LoadReturns
  <2>3. LoadInv' /\ WaitIsFinal'
    BY <1>2 DEF TypeOK, LoadInv, WaitIsFinal, CountInv, LoadedAll, LoadReturns
  <2>4. BudgetInv'
    BY <1>2 DEF TypeOK, LoadInv, BudgetInv, LoadsLeft, ListLeft, LoadedAll,
        LoadReturns
  <2>5. NumberedInv' /\ HandlesRun' /\ NoOrphan' /\ HandleLostInv'
    BY <1>2 DEF TypeOK, LoadInv, NumberedInv, HandlesRun, NoOrphan,
        HandleLostInv, Loaded, NoVM, LoadedAll, LoadReturns
  <2>6. LineInv'
    BY <1>2 DEF TypeOK, LineInv, HandedTo, Loaded, LoadedAll, LoadReturns
  <2>7. EveryLine'
    BY <1>2 DEF TypeOK, LineInv, EveryLine, HandedTo, Loaded, LoadedAll,
        LoadReturns
  <2> QED BY <2>1, <2>2, <2>3, <2>4, <2>5, <2>6, <2>7
<1>3. CASE LoadProgram
  <2>1. CountInv'
    BY <1>3 DEF TypeOK, CountInv, LoadProgram, LoadReturns, LoadFails
  <2>2. TypeOK'
    <3>1. programErrors' \in [Progs -> {"none", "ok", "error"}]
      BY <1>3 DEF TypeOK, LoadProgram
    <3>2. /\ todo' \subseteq Progs
          /\ cur' \in Progs \cup {0} /\ text' \in Versions \cup {Absent}
          /\ load' = "lock" => cur' \in Progs
      BY <1>3 DEF TypeOK, LoadProgram, LoadReturns, LoadFails
    <3>3. /\ load' # "idle" <=> main' = "loading" \/ reload' = "busy"
          /\ load' \in {"idle", "stat", "next", "lock"}
          /\ main' \in {"loading", "returned", "error"}
          /\ reload' \in {"init", "select", "busy", "gone"}
      <4>1. CASE LoadReturns(FALSE)
        BY <1>3, <4>1 DEF TypeOK, LoadInv, LoadProgram, LoadReturns
      <4>2. CASE UNCHANGED <<main, reload>> /\ load' \in {"next", "lock"}
        BY <1>3, <4>2 DEF TypeOK, LoadProgram
      <4> QED BY <1>3, <4>1, <4>2 DEF LoadProgram, LoadFails
    <3> QED BY <1>3, <3>1, <3>2, <3>3 DEF TypeOK, LoadProgram
  <2>3. LoadInv' /\ WaitIsFinal'
    BY <1>3 DEF TypeOK, LoadInv, WaitIsFinal, CountInv, LoadProgram,
        LoadReturns, LoadFails
  <2>4. BudgetInv'
    <3>1. LoadsLeft' = LoadsLeft /\ nvms' = nvms
      BY <1>3 DEF LoadsLeft, LoadProgram
    <3>2. load = "next" /\ load' # "stat" /\ todo' \subseteq todo
      BY <1>3 DEF LoadProgram, LoadReturns, LoadFails
    <3>3. ListLeft' \in Nat /\ ListLeft' <= ListLeft
      BY <3>2, ProgsFinite, FS_Subset DEF TypeOK, ListLeft
    <3>4. nvms \in Nat
      BY DEF TypeOK, VMs
    <3> QED BY <3>1, <3>3, <3>4, BudgetTypes DEF BudgetInv
  <2>5. NumberedInv' /\ HandlesRun' /\ NoOrphan' /\ HandleLostInv'
    BY <1>3 DEF TypeOK, LoadInv, NumberedInv, HandlesRun, NoOrphan,
        HandleLostInv, Loaded, NoVM, LoadProgram, LoadReturns, LoadFails
  <2>6. LineInv'
    BY <1>3 DEF TypeOK, LineInv, HandedTo, Loaded, LoadProgram, LoadReturns,
        LoadFails
  <2>7. EveryLine'
    BY <1>3 DEF TypeOK, LineInv, EveryLine, HandedTo, Loaded, LoadProgram,
        LoadReturns, LoadFails
  <2> QED BY <2>1, <2>2, <2>3, <2>4, <2>5, <2>6, <2>7
<1>4. CASE Swap
  <2> DEFINE v == nvms + 1
  <2>a. /\ cur \in todo /\ cur \in Progs
        /\ Cardinality(todo) \in Nat
        /\ Cardinality(todo \ {cur}) = Cardinality(todo) - 1
        /\ Cardinality(todo \ {cur}) \in Nat
    BY <1>4, ProgsFinite, FS_RemoveElement DEF TypeOK, LoadInv, Swap
  <2>b. nvms \in Nat /\ v \in VMs /\ v # NoVM
    <3>1. nvms \in Nat
      BY DEF TypeOK, VMs
    <3>2. nvms + Cardinality(todo) <= NProgs * (MaxHups + 1)
      BY <1>4, <2>a, <3>1, BudgetTypes DEF BudgetInv, ListLeft, Swap
    <3>3. NProgs * (MaxHups + 1) \in Nat
      BY BudgetTypes
    <3> QED BY <2>a, <3>1, <3>2, <3>3 DEF VMs, NoVM
  <2>c. /\ v \notin running /\ v \notin open /\ v \notin unloaded
        /\ got[v] = <<>>
        /\ \A p \in Loaded : handles[p] # v
    BY <2>b DEF TypeOK, NumberedInv, Loaded, NoVM
  <2>d. /\ open' = (open \ {handles[cur]}) \cup {v}
        /\ handles' = [handles EXCEPT ![cur] = v]
        /\ prog' = [prog EXCEPT ![v] = cur]
        /\ ver' = [ver EXCEPT ![v] = text]
        /\ since' = [since EXCEPT ![v] = IF consumer = "rlock"
                                        THEN received - 1 ELSE received]
        /\ running' = running \cup {v}
        /\ wg' = wg + 1 /\ nvms' = v
        /\ load' = "next" /\ todo' = todo \ {cur} /\ cur' = 0
        /\ UNCHANGED <<dirVars, main, reloadVars, lineVars, got, unloaded,
                       waiter>>
    BY <1>4 DEF Swap
  <2>e. Loaded' = Loaded \cup {cur}
    BY <2>a, <2>b, <2>d DEF Loaded, NoVM, TypeOK, VMs
  <2> HIDE DEF v
  <2>1. CountInv'
    <3>1. /\ Cardinality(running \cup {v}) = Cardinality(running) + 1
          /\ Cardinality(running) \in Nat
      BY <2>c, VMsFinite, FS_AddElement DEF TypeOK
    <3> QED BY <2>d, <3>1 DEF TypeOK, CountInv
  <2>2. TypeOK'
    <3>1. /\ handles' \in [Progs -> VMs \cup {NoVM}]
          /\ prog' \in [VMs -> Progs \cup {0}]
          /\ ver' \in [VMs -> Versions \cup {Absent}]
          /\ open' \subseteq VMs /\ running' \subseteq VMs
      BY <2>a, <2>b, <2>d DEF TypeOK
    <3>2. since' \in [VMs -> 0..MaxLines] /\ wg' \in Nat /\ nvms' \in VMs
      BY <2>b, <2>d DEF TypeOK, LineInv
    <3>3. programErrors' \in [Progs -> {"none", "ok", "error"}]
      BY <1>4, <2>a DEF TypeOK, Swap
    <3>4. /\ todo' \subseteq Progs /\ cur' = 0 /\ text' = Absent /\ load' = "next"
          /\ load = "lock"
          /\ UNCHANGED <<dirVars, main, reloadVars, lineVars, busy, got, unloaded,
                         waiter>>
      BY <1>4 DEF TypeOK, Swap
    <3> QED BY <3>1, <3>2, <3>3, <3>4 DEF TypeOK, dirVars, reloadVars, lineVars
  <2>3. LoadInv' /\ WaitIsFinal'
    BY <1>4 DEF TypeOK, LoadInv, WaitIsFinal, CountInv, Swap
  <2>4. BudgetInv'
    <3>1. LoadsLeft' = LoadsLeft
      BY <2>d DEF LoadsLeft
    <3>2. ListLeft = Cardinality(todo) /\ ListLeft' = Cardinality(todo) - 1
      BY <1>4, <2>a, <2>d DEF ListLeft, Swap
    <3> QED BY <2>a, <2>b, <2>d, <3>1, <3>2, BudgetTypes DEF BudgetInv, v
  <2>5. NumberedInv' /\ HandlesRun' /\ NoOrphan' /\ HandleLostInv'
    <3>1. NumberedInv'
      BY <2>a, <2>b, <2>c, <2>d, <2>e DEF TypeOK, NumberedInv, Loaded, v
    <3>2. HandlesRun'
      BY <2>a, <2>b, <2>c, <2>d, <2>e DEF TypeOK, NumberedInv, HandlesRun,
         Loaded
    <3>3. NoOrphan'
      BY <2>a, <2>b, <2>c, <2>d DEF TypeOK, NoOrphan
    <3>4. HandleLostInv'
      BY <2>a, <2>b, <2>c, <2>d DEF TypeOK, HandleLostInv
    <3> QED BY <3>1, <3>2, <3>3, <3>4
  <2>6. LineInv'
    <3>1. \A p \in Progs : HandedTo(p)' = HandedTo(p)
      BY <2>d DEF HandedTo
    <3>2. since'[v] = HandedTo(cur)
      BY <1>4, <2>a, <2>b, <2>d DEF TypeOK, LineInv, HandedTo, Swap
    <3>3. HandedTo(cur) \in Nat
      BY DEF TypeOK, LineInv, HandedTo
    <3>4. sending = {}
      BY <1>4 DEF LineInv, Swap
    <3> QED BY <2>a, <2>b, <2>c, <2>d, <2>e, <3>1, <3>2, <3>3, <3>4
            DEF TypeOK, LineInv, Loaded
  <2>7. EveryLine'
    <3>1. \A p \in Progs : HandedTo(p)' = HandedTo(p)
      BY <2>d DEF HandedTo
    <3>2. since'[v] = HandedTo(cur) /\ HandedTo(cur) \in Nat
      BY <1>4, <2>a, <2>b, <2>d DEF TypeOK, LineInv, HandedTo, Swap
    <3>3. got'[v] = [i \in 1..(HandedTo(cur) - HandedTo(cur))
                       |-> HandedTo(cur) + i]
      BY <2>c, <2>d, <3>2, NoLines
    <3>4. ASSUME NEW p \in Loaded'
          PROVE  got'[handles'[p]]
                   = [i \in 1..(HandedTo(p)' - since'[handles'[p]])
                        |-> since'[handles'[p]] + i]
      <4>1. CASE p = cur
        BY <2>a, <2>b, <2>d, <3>1, <3>2, <3>3, <4>1 DEF TypeOK
      <4>2. CASE p # cur
        BY <2>b, <2>c, <2>d, <2>e, <3>1, <4>2 DEF TypeOK, EveryLine, Loaded
      <4> QED BY <4>1, <4>2
    <3> QED BY <3>4 DEF EveryLine
  <2> QED BY <2>1, <2>2, <2>3, <2>4, <2>5, <2>6, <2>7
<1>5. CASE UnloadProgram
  <2>1. CountInv'
    BY <1>5 DEF TypeOK, CountInv, UnloadProgram
  <2>2. TypeOK'
    BY <1>5 DEF TypeOK, LoadInv, Loaded, NoVM, UnloadProgram
  <2>3. LoadInv' /\ WaitIsFinal'
    BY <1>5 DEF TypeOK, LoadInv, WaitIsFinal, CountInv, UnloadProgram
  <2>4. BudgetInv'
    BY <1>5 DEF TypeOK, LoadInv, BudgetInv, LoadsLeft, ListLeft, UnloadProgram
  <2>5. NumberedInv' /\ HandlesRun' /\ NoOrphan' /\ HandleLostInv'
    BY <1>5 DEF TypeOK, LoadInv, NumberedInv, HandlesRun, NoOrphan,
        HandleLostInv, Loaded, NoVM, UnloadProgram
  <2>6. LineInv'
    BY <1>5 DEF TypeOK, LineInv, HandedTo, Loaded, UnloadProgram
  <2>7. EveryLine'
    BY <1>5 DEF TypeOK, LineInv, EveryLine, HandedTo, Loaded, UnloadProgram
  <2> QED BY <2>1, <2>2, <2>3, <2>4, <2>5, <2>6, <2>7
<1>6. CASE Reload
  <2>1. CountInv'
    BY <1>6, VMsFinite DEF TypeOK, CountInv, Reload
  <2>2. TypeOK'
    <3>1. running' \subseteq VMs
      BY <1>6 DEF TypeOK, Reload
    <3>2. wg' \in Nat
      BY <2>1, <3>1, VMsFinite DEF CountInv
    <3>3. /\ reload' \in {"init", "select", "busy", "gone"}
          /\ load' \in {"idle", "stat", "next", "lock"} /\ hup' \in BOOLEAN
      BY <1>6 DEF TypeOK, Reload
    <3>4. load' # "idle" <=> main' = "loading" \/ reload' = "busy"
      BY <1>6 DEF TypeOK, Reload
    <3>5. load' = "lock" => cur' \in Progs
      BY <1>6 DEF TypeOK, Reload
    <3>6. UNCHANGED <<dirVars, main, todo, cur, text, programErrors, lineVars,
                      handles, nvms, prog, ver, open, busy, running, got, since,
                      unloaded, waiter>>
      BY <1>6 DEF Reload
    <3> QED BY <3>2, <3>3, <3>4, <3>5, <3>6 DEF TypeOK, dirVars, lineVars
  <2>3. LoadInv' /\ WaitIsFinal'
    BY <1>6 DEF TypeOK, LoadInv, WaitIsFinal, CountInv, Reload
  <2>4. BudgetInv'
    <3>1. nvms' = nvms /\ Cardinality({}) = 0 /\ nvms \in Nat
      BY <1>6, FS_EmptySet DEF Reload, TypeOK, VMs
    <3>2. CASE UNCHANGED <<hup, load>>
      BY <1>6, <3>2, BudgetTypes DEF BudgetInv, LoadsLeft, ListLeft, Reload
    <3>3. CASE hup /\ ~hup' /\ load' = "stat" /\ reload = "select"
      <4>1. load = "idle" /\ todo = {}
        BY <3>3 DEF TypeOK, LoadInv
      <4>2. ListLeft = 0 /\ ListLeft' = NProgs
        BY <3>1, <3>3, <4>1 DEF ListLeft
      <4>3. LoadsLeft = LoadsLeft' + 1 /\ LoadsLeft' \in Nat
        BY <1>6, <3>3 DEF TypeOK, LoadsLeft, Reload
      <4>4. NProgs * LoadsLeft = NProgs * LoadsLeft' + NProgs
        BY <4>3, OneMoreLoad
      <4>5. NProgs * LoadsLeft' \in Nat
        BY <4>3, OneMoreLoad
      <4> QED BY <3>1, <4>2, <4>4, <4>5, BudgetTypes DEF BudgetInv
    <3> QED BY <1>6, <3>2, <3>3 DEF Reload
  <2>5. NumberedInv' /\ HandlesRun' /\ NoOrphan' /\ HandleLostInv'
    BY <1>6 DEF TypeOK, LoadInv, NumberedInv, HandlesRun, NoOrphan,
        HandleLostInv, Loaded, NoVM, Reload
  <2>6. LineInv'
    BY <1>6 DEF TypeOK, LineInv, HandedTo, Loaded, Reload
  <2>7. EveryLine'
    BY <1>6 DEF TypeOK, LineInv, EveryLine, HandedTo, Loaded, Reload
  <2> QED BY <2>1, <2>2, <2>3, <2>4, <2>5, <2>6, <2>7
<1>7. CASE Hup
  <2>1. CountInv'
    BY <1>7 DEF TypeOK, CountInv, Hup
  <2>2. TypeOK'
    BY <1>7 DEF TypeOK, LoadInv, Hup
  <2>3. LoadInv' /\ WaitIsFinal'
    BY <1>7 DEF TypeOK, LoadInv, WaitIsFinal, CountInv, Hup
  <2>4. BudgetInv'
    <3>1. nvms' = nvms /\ ListLeft' = ListLeft
      BY <1>7 DEF ListLeft, Hup
    <3>2. LoadsLeft' \in Nat /\ LoadsLeft \in Nat
      BY <1>7 DEF TypeOK, LoadsLeft, Hup
    <3>3. LoadsLeft' = LoadsLeft \/ LoadsLeft = LoadsLeft' + 1
      BY <1>7 DEF TypeOK, LoadsLeft, Hup
    <3>4. /\ NProgs * LoadsLeft' <= NProgs * LoadsLeft
          /\ NProgs * LoadsLeft' \in Nat
      <4>1. NProgs * LoadsLeft' \in Nat
        BY <3>2, OneMoreLoad
      <4>2. CASE LoadsLeft = LoadsLeft' + 1
        <5>1. NProgs * (LoadsLeft' + 1) = NProgs * LoadsLeft' + NProgs
          BY <3>2, OneMoreLoad
        <5> QED BY <4>1, <4>2, <5>1
      <4> QED BY <3>3, <4>1, <4>2
    <3>5. nvms \in Nat
      BY DEF TypeOK, VMs
    <3> QED BY <3>1, <3>4, <3>5, BudgetTypes DEF BudgetInv
  <2>5. NumberedInv' /\ HandlesRun' /\ NoOrphan' /\ HandleLostInv'
    BY <1>7 DEF TypeOK, LoadInv, NumberedInv, HandlesRun, NoOrphan,
        HandleLostInv, Loaded, NoVM, Hup
  <2>6. LineInv'
    BY <1>7 DEF TypeOK, LineInv, HandedTo, Loaded, Hup
  <2>7. EveryLine'
    BY <1>7 DEF TypeOK, LineInv, EveryLine, HandedTo, Loaded, Hup
  <2> QED BY <2>1, <2>2, <2>3, <2>4, <2>5, <2>6, <2>7
<1>8. CASE Receive
  <2>1. CountInv'
    BY <1>8 DEF TypeOK, CountInv, Receive
  <2>2. TypeOK'
    BY <1>8 DEF TypeOK, LoadInv, Receive
  <2>3. LoadInv' /\ WaitIsFinal'
    BY <1>8 DEF TypeOK, LoadInv, WaitIsFinal, CountInv, Receive
  <2>4. BudgetInv'
    BY <1>8 DEF TypeOK, LoadInv, BudgetInv, LoadsLeft, ListLeft, Receive
  <2>5. NumberedInv' /\ HandlesRun' /\ NoOrphan' /\ HandleLostInv'
    BY <1>8 DEF TypeOK, LoadInv, NumberedInv, HandlesRun, NoOrphan,
        HandleLostInv, Loaded, NoVM, Receive
  <2>6. LineInv'
    BY <1>8 DEF TypeOK, LineInv, HandedTo, Loaded, Receive
  <2>7. EveryLine'
    BY <1>8 DEF TypeOK, LineInv, EveryLine, HandedTo, Loaded, Receive
  <2> QED BY <2>1, <2>2, <2>3, <2>4, <2>5, <2>6, <2>7
<1>9. CASE RLock
  <2>1. CountInv'
    BY <1>9 DEF TypeOK, CountInv, RLock
  <2>2. TypeOK'
    BY <1>9 DEF TypeOK, LoadInv, Loaded, RLock
  <2>3. LoadInv' /\ WaitIsFinal'
    BY <1>9 DEF TypeOK, LoadInv, WaitIsFinal, CountInv, RLock
  <2>4. BudgetInv'
    BY <1>9 DEF TypeOK, LoadInv, BudgetInv, LoadsLeft, ListLeft, RLock
  <2>5. NumberedInv' /\ HandlesRun' /\ NoOrphan' /\ HandleLostInv'
    BY <1>9 DEF TypeOK, LoadInv, NumberedInv, HandlesRun, NoOrphan,
        HandleLostInv, Loaded, NoVM, RLock
  <2>6. LineInv'
    BY <1>9 DEF TypeOK, LineInv, HandedTo, Loaded, RLock
  <2>7. EveryLine'
    BY <1>9 DEF TypeOK, LineInv, EveryLine, HandedTo, Loaded, RLock
  <2> QED BY <2>1, <2>2, <2>3, <2>4, <2>5, <2>6, <2>7
<1>10. CASE Send
  <2>a. PICK p \in sending :
          /\ handles[p] \notin busy
          /\ sending' = sending \ {p}
          /\ busy' = busy \cup {handles[p]}
          /\ got' = [got EXCEPT ![handles[p]] = Append(@, received)]
    BY <1>10 DEF Send
  <2>b. /\ p \in Loaded /\ p \in Progs /\ handles[p] \in VMs
        /\ handles[p] <= nvms
        /\ consumer = "send" /\ received \in 1..MaxLines
    BY <1>10 DEF TypeOK, LineInv, NumberedInv, Loaded, NoVM, Send
  <2>1. CountInv'
    BY <1>10 DEF TypeOK, CountInv, Send
  <2>2. TypeOK'
    <3>1. got' \in [VMs -> Seq(1..MaxLines)]
      BY <2>a, <2>b DEF TypeOK
    <3> QED BY <1>10, <2>a, <2>b, <3>1 DEF TypeOK, LoadInv, Send
  <2>3. LoadInv' /\ WaitIsFinal'
    BY <1>10 DEF TypeOK, LoadInv, WaitIsFinal, CountInv, Send
  <2>4. BudgetInv'
    BY <1>10 DEF TypeOK, LoadInv, BudgetInv, LoadsLeft, ListLeft, Send
  <2>5. NumberedInv' /\ HandlesRun' /\ NoOrphan' /\ HandleLostInv'
    <3>1. \A v \in VMs : v > nvms => got'[v] = <<>>
      <4>1. \A v \in VMs : v > nvms => v # handles[p]
        <5>1. nvms \in Int /\ \A v \in VMs : v \in Int
          BY DEF TypeOK, VMs
        <5> QED BY <2>b, <5>1
      <4> QED BY <2>a, <4>1 DEF TypeOK, NumberedInv
    <3> QED BY <1>10, <3>1 DEF TypeOK, NumberedInv, HandlesRun, NoOrphan,
            HandleLostInv, Loaded, NoVM, Send
  <2>6. LineInv'
    BY <1>10 DEF TypeOK, LineInv, HandedTo, Loaded, Send
  <2>7. EveryLine'
    <3>1. Loaded' = Loaded /\ UNCHANGED <<handles, since, received, consumer>>
      BY <1>10 DEF Send, Loaded
    <3>2. HandedTo(p) = received - 1 /\ HandedTo(p)' = received
      BY <1>10, <2>a, <2>b DEF HandedTo, Send
    <3>3. \A q \in Loaded \ {p} :
            HandedTo(q)' = HandedTo(q) /\ handles[q] # handles[p]
      BY <1>10, <2>a, <2>b DEF HandedTo, NumberedInv, Send
    <3>4. ASSUME NEW q \in Loaded
          PROVE  got'[handles[q]]
                   = [i \in 1..(HandedTo(q)' - since[handles[q]])
                        |-> since[handles[q]] + i]
      <4>1. CASE q # p
        <5>1. got'[handles[q]] = got[handles[q]]
          BY <2>a, <3>3, <4>1 DEF TypeOK, Loaded, NoVM
        <5> QED BY <3>3, <4>1, <5>1 DEF EveryLine
      <4>2. CASE q = p
        <5> DEFINE a == since[handles[p]]
                   n == received - 1 - a
        <5>1. a \in Nat /\ n \in Nat /\ received = a + n + 1
          BY <2>b, <3>2 DEF TypeOK, LineInv
        <5>2. got[handles[p]] = [i \in 1..n |-> a + i]
          BY <2>b, <3>2 DEF EveryLine
        <5>3. got[handles[p]] \in Seq(Nat)
          BY <2>b DEF TypeOK
        <5>4. got'[handles[p]] = Append(got[handles[p]], received)
          BY <2>a, <2>b DEF TypeOK
        <5> HIDE DEF a, n
        <5>5. got'[handles[p]] = [i \in 1..(n + 1) |-> a + i]
          BY <5>1, <5>2, <5>3, <5>4, OneMoreLine
        <5>6. n + 1 = received - a
          BY <5>1, <2>b
        <5> QED BY <3>2, <4>2, <5>5, <5>6 DEF a
      <4> QED BY <4>1, <4>2
    <3> QED BY <3>1, <3>4 DEF EveryLine
  <2> QED BY <2>1, <2>2, <2>3, <2>4, <2>5, <2>6, <2>7
<1>11. CASE Sent
  <2>1. CountInv'
    BY <1>11 DEF TypeOK, CountInv, Sent
  <2>2. TypeOK'
    BY <1>11 DEF TypeOK, LoadInv, Sent
  <2>3. LoadInv' /\ WaitIsFinal'
    BY <1>11 DEF TypeOK, LoadInv, WaitIsFinal, CountInv, Sent
  <2>4. BudgetInv'
    BY <1>11 DEF TypeOK, LoadInv, BudgetInv, LoadsLeft, ListLeft, Sent
  <2>5. NumberedInv' /\ HandlesRun' /\ NoOrphan' /\ HandleLostInv'
    BY <1>11 DEF TypeOK, LoadInv, NumberedInv, HandlesRun, NoOrphan,
        HandleLostInv, Loaded, NoVM, Sent
  <2>6. LineInv'
    BY <1>11 DEF TypeOK, LineInv, HandedTo, Loaded, Sent
  <2>7. EveryLine'
    <3>1. \A p \in Loaded : HandedTo(p)' = HandedTo(p)
      BY <1>11 DEF LineInv, HandedTo, Sent
    <3> QED BY <1>11, <3>1 DEF EveryLine, Loaded, Sent
  <2> QED BY <2>1, <2>2, <2>3, <2>4, <2>5, <2>6, <2>7
<1>12. CASE EndOfLine
  <2>1. CountInv'
    BY <1>12 DEF TypeOK, CountInv, EndOfLine
  <2>2. TypeOK'
    BY <1>12 DEF TypeOK, LoadInv, EndOfLine
  <2>3. LoadInv' /\ WaitIsFinal'
    BY <1>12 DEF TypeOK, LoadInv, WaitIsFinal, CountInv, EndOfLine
  <2>4. BudgetInv'
    BY <1>12 DEF TypeOK, LoadInv, BudgetInv, LoadsLeft, ListLeft, EndOfLine
  <2>5. NumberedInv' /\ HandlesRun' /\ NoOrphan' /\ HandleLostInv'
    BY <1>12 DEF TypeOK, LoadInv, NumberedInv, HandlesRun, NoOrphan,
        HandleLostInv, Loaded, NoVM, EndOfLine
  <2>6. LineInv'
    BY <1>12 DEF TypeOK, LineInv, HandedTo, Loaded, EndOfLine
  <2>7. EveryLine'
    <3>1. \A p \in Loaded : HandedTo(p)' = HandedTo(p)
      BY <1>12 DEF LineInv, HandedTo, EndOfLine
    <3> QED BY <1>12, <3>1 DEF EveryLine, Loaded, EndOfLine
  <2> QED BY <2>1, <2>2, <2>3, <2>4, <2>5, <2>6, <2>7
<1>13. CASE Finish
  <2>1. CountInv'
    <3>1. Cardinality(running) \in Nat
      BY VMsFinite DEF TypeOK
    <3>2. /\ consumer = "end" /\ consumer' = "gone" /\ wg' = wg - 1
          /\ UNCHANGED <<running, reload>>
      BY <1>13 DEF Finish
    <3> QED BY <3>1, <3>2 DEF CountInv
  <2>2. TypeOK'
    <3>1. running' \subseteq VMs
      BY <1>13 DEF TypeOK, Finish
    <3>2. wg' \in Nat
      BY <2>1, <3>1, VMsFinite DEF CountInv
    <3> QED BY <1>13, <3>2 DEF TypeOK, LoadInv, Finish
  <2>3. LoadInv' /\ WaitIsFinal'
    BY <1>13 DEF TypeOK, LoadInv, WaitIsFinal, CountInv, Finish
  <2>4. BudgetInv'
    BY <1>13 DEF TypeOK, LoadInv, BudgetInv, LoadsLeft, ListLeft, Finish
  <2>5. NumberedInv' /\ HandlesRun' /\ NoOrphan' /\ HandleLostInv'
    BY <1>13 DEF TypeOK, LoadInv, NumberedInv, HandlesRun, NoOrphan,
        HandleLostInv, Loaded, NoVM, Finish
  <2>6. LineInv'
    BY <1>13 DEF TypeOK, LineInv, HandedTo, Loaded, Finish
  <2>7. EveryLine'
    BY <1>13 DEF TypeOK, LineInv, EveryLine, HandedTo, Loaded, Finish
  <2> QED BY <2>1, <2>2, <2>3, <2>4, <2>5, <2>6, <2>7
<1>14. ASSUME NEW v \in VMs, VMStep(v) PROVE IInv'
  <2>1. CountInv'
    <3>1. Cardinality(running) \in Nat /\ IsFiniteSet(running)
      BY VMsFinite DEF TypeOK
    <3>2. CASE UNCHANGED <<running, wg>>
      BY <1>14, <3>2 DEF CountInv, VMStep
    <3>3. CASE v \in running /\ running' = running \ {v} /\ wg' = wg - 1
      <4>1. Cardinality(running') = Cardinality(running) - 1
        BY <3>1, <3>3, FS_RemoveElement
      <4> QED BY <1>14, <3>1, <3>3, <4>1 DEF CountInv, VMStep
    <3> QED BY <1>14, <3>2, <3>3 DEF VMStep
  <2>2. TypeOK'
    <3>1. running' \subseteq VMs
      BY <1>14 DEF TypeOK, VMStep
    <3>2. wg' \in Nat
      BY <2>1, <3>1, VMsFinite DEF CountInv
    <3> QED BY <1>14, <3>2 DEF TypeOK, LoadInv, VMStep
  <2>3. LoadInv' /\ WaitIsFinal'
    BY <1>14 DEF TypeOK, LoadInv, WaitIsFinal, CountInv, VMStep
  <2>4. BudgetInv'
    BY <1>14 DEF TypeOK, LoadInv, BudgetInv, LoadsLeft, ListLeft, VMStep
  <2>5. NumberedInv' /\ HandlesRun' /\ NoOrphan' /\ HandleLostInv'
    BY <1>14 DEF TypeOK, LoadInv, NumberedInv, HandlesRun, NoOrphan,
        HandleLostInv, Loaded, NoVM, VMStep
  <2>6. LineInv'
    BY <1>14 DEF TypeOK, LineInv, HandedTo, Loaded, VMStep
  <2>7. EveryLine'
    BY <1>14 DEF TypeOK, LineInv, EveryLine, HandedTo, Loaded, VMStep
  <2> QED BY <2>1, <2>2, <2>3, <2>4, <2>5, <2>6, <2>7
<1>15. CASE Waiter
  <2>1. CountInv'
    BY <1>15 DEF TypeOK, CountInv, Waiter
  <2>2. TypeOK'
    BY <1>15 DEF TypeOK, LoadInv, Waiter
  <2>3. LoadInv' /\ WaitIsFinal'
    <3>1. running = {} /\ consumer = "gone" /\ reload = "gone"
      <4>1. Cardinality(running) \in Nat /\ IsFiniteSet(running)
        BY VMsFinite DEF TypeOK
      <4>2. Cardinality(running) = 0 /\ consumer = "gone" /\ reload = "gone"
        BY <1>15, <4>1 DEF CountInv, Waiter
      <4> QED BY <4>1, <4>2, FS_EmptySet
    <3> QED BY <1>15, <3>1 DEF TypeOK, LoadInv, WaitIsFinal, Waiter
  <2>4. BudgetInv'
    BY <1>15 DEF TypeOK, LoadInv, BudgetInv, LoadsLeft, ListLeft, Waiter
  <2>5. NumberedInv' /\ HandlesRun' /\ NoOrphan' /\ HandleLostInv'
    BY <1>15 DEF TypeOK, LoadInv, NumberedInv, HandlesRun, NoOrphan,
        HandleLostInv, Loaded, NoVM, Waiter
  <2>6. LineInv'
    BY <1>15 DEF TypeOK, LineInv, HandedTo, Loaded, Waiter
  <2>7. EveryLine'
    BY <1>15 DEF TypeOK, LineInv, EveryLine, HandedTo, Loaded, Waiter
  <2> QED BY <2>1, <2>2, <2>3, <2>4, <2>5, <2>6, <2>7
<1>16. CASE CloseInput
  <2>1. CountInv'
    BY <1>16 DEF TypeOK, CountInv, CloseInput
  <2>2. TypeOK'
    BY <1>16 DEF TypeOK, LoadInv, CloseInput
  <2>3. LoadInv' /\ WaitIsFinal'
    BY <1>16 DEF TypeOK, LoadInv, WaitIsFinal, CountInv, CloseInput
  <2>4. BudgetInv'
    BY <1>16 DEF TypeOK, LoadInv, BudgetInv, LoadsLeft, ListLeft, CloseInput
  <2>5. NumberedInv' /\ HandlesRun' /\ NoOrphan' /\ HandleLostInv'
    BY <1>16 DEF TypeOK, LoadInv, NumberedInv, HandlesRun, NoOrphan,
        HandleLostInv, Loaded, NoVM, CloseInput
  <2>6. LineInv'
    BY <1>16 DEF TypeOK, LineInv, HandedTo, Loaded, CloseInput
  <2>7. EveryLine'
    BY <1>16 DEF TypeOK, LineInv, EveryLine, HandedTo, Loaded, CloseInput
  <2> QED BY <2>1, <2>2, <2>3, <2>4, <2>5, <2>6, <2>7
<1>17. CASE Edit
  <2>1. CountInv'
    BY <1>17 DEF TypeOK, CountInv, Edit
  <2>2. TypeOK'
    BY <1>17 DEF TypeOK, LoadInv, Edit
  <2>3. LoadInv' /\ WaitIsFinal'
    BY <1>17 DEF TypeOK, LoadInv, WaitIsFinal, CountInv, Edit
  <2>4. BudgetInv'
    BY <1>17 DEF TypeOK, LoadInv, BudgetInv, LoadsLeft, ListLeft, Edit
  <2>5. NumberedInv' /\ HandlesRun' /\ NoOrphan' /\ HandleLostInv'
    BY <1>17 DEF TypeOK, LoadInv, NumberedInv, HandlesRun, NoOrphan,
        HandleLostInv, Loaded, NoVM, Edit
  <2>6. LineInv'
    BY <1>17 DEF TypeOK, LineInv, HandedTo, Loaded, Edit
  <2>7. EveryLine'
    BY <1>17 DEF TypeOK, LineInv, EveryLine, HandedTo, Loaded, Edit
  <2> QED BY <2>1, <2>2, <2>3, <2>4, <2>5, <2>6, <2>7
<1>18. CASE UNCHANGED vars
  <2>1. CountInv'
    BY <1>18 DEF TypeOK, CountInv, vars
  <2>2. TypeOK'
    BY <1>18 DEF TypeOK, LoadInv, vars
  <2>3. LoadInv' /\ WaitIsFinal'
    BY <1>18 DEF TypeOK, LoadInv, WaitIsFinal, CountInv, vars
  <2>4. BudgetInv'
    BY <1>18 DEF TypeOK, LoadInv, BudgetInv, LoadsLeft, ListLeft, vars
  <2>5. NumberedInv' /\ HandlesRun' /\ NoOrphan' /\ HandleLostInv'
    BY <1>18 DEF TypeOK, LoadInv, NumberedInv, HandlesRun, NoOrphan,
        HandleLostInv, Loaded, NoVM, vars
  <2>6. LineInv'
    BY <1>18 DEF TypeOK, LineInv, HandedTo, Loaded, vars
  <2>7. EveryLine'
    BY <1>18 DEF TypeOK, LineInv, EveryLine, HandedTo, Loaded, vars
  <2> QED BY <2>1, <2>2, <2>3, <2>4, <2>5, <2>6, <2>7
<1> QED
  BY <1>1, <1>2, <1>3, <1>4, <1>5, <1>6, <1>7, <1>8, <1>9, <1>10, <1>11,
      <1>12, <1>13, <1>14, <1>15, <1>16, <1>17, <1>18
  DEF Next, LoadStep, ConsumerStep

-----------------------------------------------------------------------------
(* The inductive invariant is an invariant of the Loader.                  *)
THEOREM LoaderIInv == Spec => []IInv
<1>1. Init => IInv
  BY InitIInv
<1>2. IInv /\ [Next]_vars => IInv'
  BY NextIInv
<1> QED BY <1>1, <1>2, PTL DEF Spec

(* Type correctness.  That there is always a number left for a VM is not   *)
(* plain: a load goes through each program once, signals that arrive       *)
(* during a load are merged into one, and so no more than NProgs VMs are   *)
(* made for each signal and for NewLoader (CompileAndRun, loader.go).      *)
THEOREM LoaderTypeOK == Spec => []TypeOK
<1>1. IInv => TypeOK
  BY DEF IInv
<1> QED BY <1>1, LoaderIInv, PTL

(* The consumer never sends on a closed channel, no VM is left open        *)
(* outside handles unless it was unloaded, and when the wait for l.wg is   *)
(* over no goroutine of the loader is left and none is started: a reload   *)
(* that races with the end of input is counted in l.wg until it is done.   *)
THEOREM LoaderVMsAccounted == Spec => []VMsAccounted
<1>1. IInv => VMsAccounted
  BY DEF IInv, VMsAccounted
<1> QED BY <1>1, LoaderIInv, PTL

(* Each VM has got every line handed out since it was loaded, once and in  *)
(* order, whatever reloads take place between the lines.                   *)
THEOREM LoaderEveryLine == Spec => []EveryLine
<1>1. IInv => EveryLine
  BY DEF IInv
<1> QED BY <1>1, LoaderIInv, PTL

(* Until the end of input, WriteStatusHTML finds the handle of every       *)
(* program that was loaded once and not unloaded: a reload that fails, at  *)
(* any step, leaves the handle alone.                                      *)
THEOREM LoaderStatusShown == Spec => []StatusShown
<1>1. IInv => StatusShown
  BY DEF IInv, TypeOK, HandleLostInv, StatusShown, WriteStatusHTML, Loaded
<1> QED BY <1>1, LoaderIInv, PTL
=============================================================================
