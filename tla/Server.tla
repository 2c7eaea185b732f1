------------------------------- MODULE Server -------------------------------
(***************************************************************************)
(* cmd/mtail and internal/mtail: one process from its options to its exit. *)
(* main makes a Server, whose New starts an Exporter, a Loader, a Tailer   *)
(* and the http server, in this order, and waits in Run for the goroutines *)
(* counted in wg: the Loader's waiter and, if there are logs, the Tailer's *)
(* closer.  The exporter and the http server are not waited for.           *)
(*                                                                         *)
(* The Tailer is here one stream with lines to read (see Tailer,           *)
(* FileStream), the Loader has loaded for good when NewLoader returns (see *)
(* Loader for reloads), and a program changes one metric of its own name.  *)
(***************************************************************************)
EXTENDS Exporter

CONSTANTS
  Directories, (* the program directories: the programs they list, in the  *)
               (* order of ReadDir, and which of those compile             *)
  MaxLines     (* directory -> bound on the lines of the log               *)

ASSUME ServerAssumption ==
  /\ "none" \notin Metrics /\ MaxLines \in [Directories -> Nat]
  /\ \A d \in Directories : d.listing \in Seq(Metrics) /\ d.good \subseteq ToSet(d.listing)

Progs == Metrics

VARIABLES
  opt,         (* the flags one_shot, compile_only and whether there are   *)
               (* logs                                                     *)
  dir,         (* the program directory                                    *)
  main,        (* the main goroutine: "options", "exporter", "load" and    *)
               (* "insert" in NewLoader, "tailer", "http", "wait" in Run,  *)
               (* "write", "exit"                                          *)
  status,      (* the status of the exit, 2 for a crash                    *)
  wg,          (* m.wg                                                     *)
  cancelled,   (* ctx is done                                              *)
  todo,        (* the programs left to load                                *)
  handles,     (* the programs with a handle                               *)
  vm,          (* program -> "none", "recv", "busy", "lock", "observe" or  *)
               (* "gone"                                                   *)
  consumer,    (* "init", "recv", "send", "end", "gone"                    *)
  sending,     (* the programs that wait for the current line              *)
  waiter,      (* the Loader's waiter: "none", "wait", "gone"              *)
  stream,      (* "none", "read" when it is to read or waits for a reason  *)
               (* to, "send" when it has lines in its buffer, "eof" when   *)
               (* it found no more, "gone"                                 *)
  written,     (* lines of the log, in tail mode those since it was opened *)
  fetched,     (* of these, the ones the stream has read into its buffer   *)
  read,        (* and the ones it has sent                                 *)
  closer,      (* "none", "wait", "gone"                                   *)
  linesClosed  (* the channel of lines is closed                           *)

(* History variables: no action is guarded by them.                        *)
VARIABLES
  done,        (* program -> lines it has processed                        *)
  due          (* the lines that are to be read before the stream ends     *)

mainVars == <<opt, dir, main, status, wg, todo>>
lineVars == <<handles, vm, consumer, sending, waiter, done>>
logVars == <<stream, written, fetched, read, closer, linesClosed, due>>
vars == <<exportVars, mainVars, cancelled, lineVars, logVars>>

\* main has parsed its flags; there may be no logs only if it is told to compile
\* only or to dump a program, which goes with any mode.
Init ==
  /\ ExporterInit
  /\ opt \in [oneShot : BOOLEAN, compileOnly : BOOLEAN, logs : BOOLEAN]
  /\ dir \in Directories
  /\ main = "options" /\ status = 0 /\ wg = 0 /\ todo = dir.listing
  /\ cancelled = FALSE
  /\ handles = {} /\ vm = [p \in Progs |-> "none"]
  /\ consumer = "init" /\ sending = {} /\ waiter = "none"
  /\ stream = "none" /\ written \in 0 .. MaxLines[dir] /\ fetched = 0 /\ read = 0
  /\ closer = "none" /\ linesClosed = FALSE
  /\ done = [p \in Progs |-> 0] /\ due = 0

-----------------------------------------------------------------------------
(* The main goroutine. *)

Exit(code) == main' = "exit" /\ status' = code

\* SetOption, which also binds the listener: New fails with it.
SetOption ==
  /\ main = "options"
  /\ \/ main' = "exporter" /\ UNCHANGED status
     \/ Exit(1)
  /\ UNCHANGED <<exportVars, opt, dir, wg, todo, cancelled, lineVars, logVars>>

\* initExporter, and NewLoader up to LoadAllPrograms: the name of the host or
\* the directory may not be had.
InitExporter ==
  /\ main = "exporter"
  /\ \/ Exit(1) /\ UNCHANGED wg
     \/ main' = "load" /\ wg' = wg + 1 /\ UNCHANGED status
  /\ UNCHANGED <<exportVars, opt, dir, todo, cancelled, lineVars, logVars>>

\* LoadAllPrograms: when all are loaded NewLoader returns, and its goroutines
\* begin.  A program that does not compile ends the load if errorsAbort is set.
LoadProgram ==
  /\ main = "load"
  /\ \/ /\ todo = <<>>
        /\ main' = "tailer" /\ waiter' = "wait" /\ consumer' = "recv"
        /\ UNCHANGED <<status, todo, inserting>>
     \/ /\ todo # <<>> /\ Head(todo) \notin dir.good
        /\ \/ (opt.oneShot \/ opt.compileOnly) /\ Exit(1) /\ UNCHANGED todo
           \/ ~opt.oneShot /\ ~opt.compileOnly /\ todo' = Tail(todo) /\ UNCHANGED <<main, status>>
        /\ UNCHANGED <<waiter, consumer, inserting>>
     \/ /\ todo # <<>> /\ Head(todo) \in dir.good
        /\ main' = "insert" /\ inserting' = Head(todo)
        /\ UNCHANGED <<status, todo, waiter, consumer>>
  /\ UNCHANGED <<lockVars, store, lvs, buckets, locking, observed, countVars, proc, scraped, out, opt, dir,
                 wg, cancelled, handles, vm, sending, done, logVars>>

\* Store.Add and the rest of CompileAndRun.
StartVM ==
  /\ main = "insert" /\ Insert(Head(todo))
  /\ main' = "load" /\ todo' = Tail(todo)
  /\ IF opt.compileOnly THEN UNCHANGED <<handles, vm>>
     ELSE handles' = handles \cup {Head(todo)} /\ vm' = [vm EXCEPT ![Head(todo)] = "recv"]
  /\ UNCHANGED <<opt, dir, status, wg, cancelled, consumer, sending, waiter, done, logVars>>

\* What a stream at this place reads although the context is done: the rest of
\* its buffer, or one more read if it was to read or was waiting.
StillRead(at, n, total) == IF at = "read" /\ n < total THEN n + 1 ELSE n

\* initTailer: without patterns the channel of lines is closed at once.  A log is
\* opened at its end, in one-shot mode at its beginning.
InitTailer ==
  /\ main = "tailer"
  /\ \/ Exit(1) /\ UNCHANGED <<wg, stream, written, closer, linesClosed, due>>
     \/ /\ opt.logs
        /\ main' = "http" /\ wg' = wg + 1 /\ stream' = "read" /\ closer' = "wait"
        /\ written' = IF opt.oneShot THEN written ELSE 0
        /\ due' = IF cancelled THEN StillRead("read", 0, written') ELSE written'
        /\ UNCHANGED <<status, linesClosed>>
     \/ /\ ~opt.logs
        /\ main' = "http" /\ linesClosed' = TRUE
        /\ UNCHANGED <<status, wg, stream, written, closer, due>>
  /\ UNCHANGED <<exportVars, opt, dir, todo, cancelled, lineVars, fetched, read>>

InitHttpServer ==
  /\ main = "http"
  /\ main' = "wait"
  /\ UNCHANGED <<exportVars, opt, dir, status, wg, todo, cancelled, lineVars, logVars>>

\* Run returns; one_shot then writes the metrics, under searchMu.
Run ==
  /\ \/ /\ main = "wait" /\ wg = 0
        /\ IF opt.oneShot THEN main' = "write" /\ UNCHANGED status ELSE Exit(0)
     \/ main = "write" /\ inserting = "none" /\ Exit(1)
  /\ UNCHANGED <<exportVars, opt, dir, wg, todo, cancelled, lineVars, logVars>>

\* SIGINT or SIGTERM.
Cancel ==
  /\ ~cancelled
  /\ cancelled' = TRUE
  /\ due' = IF stream \in {"read", "send", "eof"} THEN StillRead(stream, fetched, written) ELSE due
  /\ UNCHANGED <<exportVars, mainVars, lineVars, stream, written, fetched, read, closer, linesClosed>>

-----------------------------------------------------------------------------
(* The Loader. *)

\* A line goes from the stream to the consumer.
Take ==
  /\ consumer = "recv" /\ stream = "send" /\ read < fetched
  /\ read' = read + 1
  /\ consumer' = "send" /\ sending' = handles
  /\ UNCHANGED <<exportVars, mainVars, cancelled, handles, vm, waiter, done, stream, written, fetched,
                 closer, linesClosed, due>>

\* The consumer gives the line to each machine.  When the channel is closed it
\* closes theirs.
Consume ==
  /\ \/ /\ consumer = "send"
        /\ \E p \in sending : /\ vm[p] = "recv"
                              /\ vm' = [vm EXCEPT ![p] = "busy"]
                              /\ sending' = sending \ {p}
        /\ UNCHANGED <<handles, consumer>>
     \/ /\ consumer = "send" /\ sending = {}
        /\ consumer' = "recv" /\ UNCHANGED <<handles, vm, sending>>
     \/ /\ consumer = "recv" /\ linesClosed
        /\ consumer' = "end" /\ UNCHANGED <<handles, vm, sending>>
     \/ /\ consumer = "end"
        /\ consumer' = "gone" /\ handles' = {} /\ UNCHANGED <<vm, sending>>
  /\ UNCHANGED <<exportVars, mainVars, cancelled, waiter, done, logVars>>

Processed(p) == vm' = [vm EXCEPT ![p] = "recv"] /\ done' = [done EXCEPT ![p] = @ + 1]

\* A machine processes a line, which may change its metric, and ends when its
\* channel is closed.
VMStep(p) ==
  /\ \/ /\ vm[p] = "busy"
        /\ \/ vm' = [vm EXCEPT ![p] = "lock"] /\ locking' = locking \cup {p} /\ UNCHANGED done
           \/ Processed(p) /\ UNCHANGED locking
        /\ UNCHANGED <<lockVars, store, lvs, buckets, inserting, observed, countVars, proc, scraped, out>>
     \/ /\ vm[p] = "lock" /\ GetDatum(p)
        /\ \/ Kind[p] = "Histogram" /\ vm' = [vm EXCEPT ![p] = "observe"] /\ UNCHANGED done
           \/ Kind[p] # "Histogram" /\ Processed(p)
     \/ vm[p] = "observe" /\ Observe(p) /\ Processed(p)
     \/ /\ vm[p] = "recv" /\ consumer = "gone"
        /\ vm' = [vm EXCEPT ![p] = "gone"]
        /\ UNCHANGED <<exportVars, done>>
  /\ UNCHANGED <<mainVars, cancelled, handles, consumer, sending, waiter, logVars>>

\* The machines are not waited for.
BadWaiter ==
  /\ waiter = "wait" /\ consumer = "gone"
  /\ waiter' = "gone" /\ wg' = wg - 1
  /\ UNCHANGED <<exportVars, opt, dir, main, status, todo, cancelled, handles, vm, consumer, sending, done,
                 logVars>>

\* l.wg.Wait(), then wg.Done().
Waiter ==
  /\ waiter = "wait" /\ consumer = "gone"
  /\ \A p \in Progs : vm[p] \in {"none", "gone"}
  /\ waiter' = "gone" /\ wg' = wg - 1
  /\ UNCHANGED <<exportVars, opt, dir, main, status, todo, cancelled, handles, vm, consumer, sending, done,
                 logVars>>

-----------------------------------------------------------------------------
(* The Tailer. *)

Write ==
  /\ written < MaxLines[dir]
  /\ written' = written + 1
  /\ UNCHANGED <<exportVars, mainVars, cancelled, lineVars, stream, fetched, read, closer, linesClosed, due>>

\* The stream reads as many of the lines that are there as its buffer takes, or
\* finds that it is at the end of the log.
Fetch ==
  /\ stream = "read"
  /\ \/ (\E n \in fetched + 1 .. written : fetched' = n) /\ stream' = "send"
     \/ fetched = written /\ stream' = "eof" /\ UNCHANGED fetched
  /\ UNCHANGED <<exportVars, mainVars, cancelled, lineVars, written, read, closer, linesClosed, due>>

\* Behind the lines of its buffer the stream ends if the context is done, with
\* the log at its end or not, and otherwise reads on.  After an EOF it ends if it
\* was stopped too, as it is in one-shot mode, although the log may have grown
\* since; otherwise it waits and reads again.
Sleep ==
  /\ \/ stream = "send" /\ read = fetched /\ stream' = IF cancelled THEN "gone" ELSE "read"
     \/ stream = "eof" /\ stream' = IF opt.oneShot \/ cancelled THEN "gone" ELSE "read"
  /\ UNCHANGED <<exportVars, mainVars, cancelled, lineVars, written, fetched, read, closer, linesClosed, due>>

\* The context is waited for in one-shot mode too.
BadCloser ==
  /\ closer = "wait" /\ stream = "gone" /\ cancelled
  /\ closer' = "gone" /\ linesClosed' = TRUE
  /\ wg' = wg - 1
  /\ UNCHANGED <<exportVars, opt, dir, main, status, todo, cancelled, lineVars, stream, written, fetched,
                 read, due>>

\* The closer waits for the context, but not in one-shot mode, and for the
\* streams.
Closer ==
  /\ closer = "wait" /\ stream = "gone"
  /\ opt.oneShot \/ cancelled
  /\ closer' = "gone" /\ linesClosed' = TRUE
  /\ wg' = wg - 1
  /\ UNCHANGED <<exportVars, opt, dir, main, status, todo, cancelled, lineVars, stream, written, fetched,
                 read, due>>

-----------------------------------------------------------------------------
(* The exporter and the http server. *)

\* The loop of StartMetricPush.  When the context is done it ends at some
\* time; there may be no further tick before that either.
PushLoop ==
  /\ ~opt.oneShot /\ main \notin {"options", "exporter"}
  /\ Tick
  /\ UNCHANGED <<mainVars, cancelled, lineVars, logVars>>

\* The http server serves from initHttpServer on; when the context is done it
\* takes no new request at some time, and does not break off the one it
\* serves.  In one-shot mode m.e is nil: it is not registered with Prometheus,
\* and the other handlers panic, which net/http recovers.
Serving == main \in {"wait", "write"}
Serve ==
  /\ Serving /\ ~opt.oneShot
  /\ \E as \in {"prom", "varz", "json"} : Request(as)
  /\ UNCHANGED <<mainVars, cancelled, lineVars, logVars>>

\* The status page reads l.handles without handleMu: if the consumer empties
\* the map at the same time, the runtime may end the process.
ServeHTTP ==
  /\ Serving /\ consumer = "end" /\ handles # {}
  /\ Exit(2)
  /\ UNCHANGED <<exportVars, opt, dir, wg, todo, cancelled, lineVars, logVars>>

ExportStep(x) == Export(x) /\ UNCHANGED <<mainVars, cancelled, lineVars, logVars>>

-----------------------------------------------------------------------------
MainStep == SetOption \/ InitExporter \/ LoadProgram \/ StartVM \/ InitTailer \/ InitHttpServer \/ Run
LoaderStep == Take \/ Consume \/ Waiter
TailerStep == Fetch \/ Sleep \/ Closer

Next ==
  /\ main # "exit"
  /\ \/ MainStep \/ LoaderStep \/ TailerStep
     \/ PushLoop \/ Serve \/ ServeHTTP
     \/ Cancel \/ Write
     \/ \E p \in Progs : VMStep(p)
     \/ \E x \in Procs : ExportStep(x)

Spec == Init /\ [][Next]_vars

(* Every goroutine that can run does (of the consumer and the waiter, and  *)
(* of the stream and the closer, one can at a time); dials and writes have *)
(* a deadline (metric_push_write_deadline).  Nothing is assumed of         *)
(* signals, requests, ticks and of who writes the log.                     *)
Alive(A) == main # "exit" /\ A
FairSpec ==
  /\ Spec
  /\ WF_vars(Alive(MainStep)) /\ WF_vars(Alive(LoaderStep)) /\ WF_vars(Alive(TailerStep))
  /\ \A p \in Progs : WF_vars(Alive(VMStep(p)))
  /\ \A x \in Procs : WF_vars(Alive(ExportStep(x)))

-----------------------------------------------------------------------------
(* A read lock that is not given back is one that a return out of the loop *)
(* over the label sets has left behind: after a push that failed           *)
(* (export.go:176) or for a metric that Prometheus refuses                 *)
(* (prometheus.go:82).  No other way through an export keeps a lock, and   *)
(* none at all keeps searchMu.                                             *)
LocksReturned ==
  /\ searching = Cardinality({x \in Procs : proc[x].at \in {"next", "lock", "emit", "count"}})
  /\ \A m \in Metrics :
       /\ readers[m] = leaked[m] + Cardinality({x \in Procs : proc[x].at \in {"emit", "count"} /\ proc[x].m = m})
       /\ leaked[m] > 0 => failures > 0 \/ m \notin Valid

(* The label sets that an export writes for a metric are those it had when *)
(* the lock was taken: EmitLabelSets runs in a goroutine of its own, and   *)
(* no program adds a label before the last of them is written.             *)
Snapshot ==
  \A x \in Procs :
    proc[x].at \in {"emit", "count"} /\ ~Skipped(x) =>
      out[x] \cup ToSet(proc[x].left) = ToSet(lvs[proc[x].m])

(* An export holds the locks it needs as long as it needs them and no      *)
(* longer: the two parts above.                                            *)
ExportLocks == LocksReturned /\ Snapshot

(* A histogram that is scraped while it changes: each bucket counts all    *)
(* the observations up to and with its bound (buckets.go:26) of one        *)
(* moment, and the count is that of an earlier moment, never of a later    *)
(* one.  An observation that is not above the lowest bound is in no        *)
(* bucket, so that the last bucket may stay below the count.               *)
(* docs/Programming-Guide.md:256 has the ranges the other way round.       *)
HistogramScraped ==
  LET seen == {i \in 1 .. scraped.upto : observed[scraped.m][i] > Edges[1]}
  IN  DOMAIN scraped.cum # {} =>
        /\ scraped.count <= scraped.upto
        /\ \A b \in DOMAIN scraped.cum :
             scraped.cum[b] = Cardinality({i \in seen : observed[scraped.m][i] <= b})

(* When Run has returned, every line that the stream has read from the log *)
(* has been sent and processed by every program.  In one-shot mode these   *)
(* are all the lines that the log had when it was opened, so that what is  *)
(* printed is complete; a signal leaves lines of the log unread, but not   *)
(* those in the buffer and, if the stream was to read or waiting, not all  *)
(* of those behind it (filestream.go:225-229).  A crash of the status page *)
(* leaves each program at most the last line.                              *)
AllProcessed ==
  main = "write" \/ (main = "exit" /\ status \in {0, 2}) =>
    /\ read = fetched /\ read >= due
    /\ \A p \in Progs : vm[p] # "none" =>
         done[p] = read \/ (status = 2 /\ done[p] = read - 1)

Leaking == \E m \in Metrics : leaked[m] > 0

(* After SIGINT or SIGTERM the process exits, whatever it was doing, unless *)
(* a read lock was lost: then a program, and with it the consumer, the     *)
(* streams and Run, may wait for ever.                                     *)
ShutsDown == cancelled ~> main = "exit" \/ Leaking

(* The process exits when it is told to, and in one-shot mode, and without *)
(* logs to follow, by itself.                                              *)
Exits == ShutsDown /\ ((opt.oneShot \/ ~opt.logs) ~> main = "exit")

(* A push or a request that has begun ends, whatever the programs do       *)
(* meanwhile, unless a read lock was lost.                                 *)
ExportEnds == \A x \in Procs : ~At(x, "idle") ~> At(x, "idle") \/ Leaking \/ main = "exit"
=============================================================================
