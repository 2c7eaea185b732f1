# A verification project for mtail

mtail reads log files, hands every line to a set of small programs, and
exports the metrics the programs keep.  This directory holds TLA+ models of it,
from the reading of files to the meaning of programs and the shutdown of the
process, translated from the Go source, the TLC configurations that check them on
small instances, and TLAPS proofs for all instances.  Paths below are relative
to `src/internal/` unless they start with `cmd/` or `docs/`.

## 1. The system

    writer, logrotate                SIGHUP, program directory        scrapers
          |                                   |                           |
      files, pipes, sockets                   v                           v
          |                               Loader  ---- Add ----->  metrics.Store
          v                              /  |  \                   ^   ^      |
      LogStream (one per pathname)      VM  VM  VM -- GetDatum ----+   Gc  exporter
          |                             ^   ^   ^     RemoveDatum
          |  unbuffered channel `lines` |   |   |     ExpireDatum
          +---------------------> consumer of the Loader
      Tailer: finds pathnames, starts, stops, forgets streams, closes `lines`

| Component | State | Operations | What is hard | What makes it correct |
|---|---|---|---|---|
| `tailer/logstream` fileStream, decode | file descriptor, FileInfo of a Stat, accumulator, `completed`, `stopChan` | read, decode, Stat at EOF, reopen on rotation, truncate, Stop, cancel | the file changes between any two system calls; one goroutine hands over to the next | lines in order and once; nothing read is lost; Stop drains and ends; every sender is counted |
| pipeStream, socketStream | connection, accumulator | open, read with deadline, decode, Stop, cancel | reads cut runes and lines anywhere; a timeout races a stop | the LogStream contract; text kept; what was there is read before the end |
| `tailer` | map of streams, `wg`, `log_count`, patterns | New, Poll, TailPath, Gc, shutdown | polls, gc, streams and shutdown interleave | one reader per pathname; the channel is closed after the last sender, and closed in the end |
| `waker` | tick channel, wakees | Wake, the alarm | wakees against ticks | every waiter is woken |
| `vm/loader.go` Loader | `handles`, `programErrors`, `wg`, `signalQuit` | NewLoader, LoadAllPrograms, CompileAndRun, UnloadProgram, dispatch, shutdown | reload against dispatch and end of input; failing compiles | each VM gets each line once; no send on a closed channel; shutdown ends |
| `metrics` Store, Metric | `Metrics`, `LabelValues`, `Expiry`, two mutexes | Add, Gc, GetDatum, RemoveDatum, ExpireDatum | slices that alias, iteration without the metric's lock | one value per label, one metric per declaration, values survive a reload |
| `metrics/datum` | atomic value and time, buckets | Set, Inc, Observe | boundaries of buckets | counts agree with the observations |
| `vm/vm.go` | stack, registers, time memo | one for each instruction | values of several types on one stack; a runtime error ends a line | no instruction meets a value it cannot use; a line ends |
| `vm/checker`, `types`, `symbol`, `ast`, `codegen`, `code` | symbol table, type variables, labels | compile | inference in the middle of a walk; jumps patched afterwards; registers shared by nested blocks | the byte code does what the program says |
| `vm/parser` | scanner and LALR tables | text to tree | sequential | |
| `exporter` | push targets, locks it holds | push to sockets, HTTP, Prometheus collect | locks held over I/O, errors in the middle | an export ends, returns its locks, and reports what was there |
| `mtail`, `cmd/mtail` | the parts above, mode, `wg` | main, New, Run, HTTP status, signal | the order of start and end in each mode | the process exits when it should, not before all is processed |

The list in `PROJECT.json` names every component with its status, and under
`hazards` each place where something can go wrong that a test would hardly
reach, with the properties that watch it.

## 2. Plan

Done, in this order: FileStream over RotatedFile, its contract LogStream and the
proofs; Tailer over that contract and its proofs; Loader; MetricStore; the
language from checked tree to machine (Types to Language); PipeStream and
SocketStream as further implementations of LogStream; Exporter, and Server,
which composes it with the start, the modes and the end of the process; then the
proofs for Loader, Streams, Server and MetricStore, and the rest of the safety
properties of FileStream and Tailer; last the two properties that need induction
over data, `TextKept` and `HistogramScraped`.

What could follow is to show that Tailer and Loader implement what Server reduces
them to, instead of reducing them by hand.

The language modules use RECURSIVE operators on trees, and their property is
about what recursive definitions compute: they stay with TLC.

## 3. The modules

**RotatedFile** is the file system: one pathname, the files that successively
carry it, a process that appends bytes, and rotation, removal and truncation.
It is not mtail code.  The bytes of the log are numbered in the order they are
written, so a file is an interval of numbers and "in order, once" is a
statement about numbers.

**FileStream** (`filestream.go`, `decode.go`, `logstream.New`) adds the reading
goroutine.  `pc` names the places between system calls, so that the file can
change between any two of them; decoding is one action for each byte, and a send
happens when the consumer takes the line.  `fi` is the file that Stat saw and
`fd` the one that OpenFile opened: they are two system calls and may differ.
After a rotation the new goroutine is modelled on; what is left of the old one
is its deferred `wg.Done` (RoutineDone).  `misopened`, `truncPending`, `from`
and `due` are history variables.

**LogStream** is the abstract specification: what the Tailer relies on in any
stream.  FileStream implements it (`ImplementsLogStream`, checked and proved).

**Tailer** (`tail.go`) has the caller of New, the two loops, the closer and,
for each stream, the contract of LogStream: it runs, hands over, completes, or
is lost in a rotation that fails.  TailPath, PollLogStreams and Gc hold
`logstreamsMu` and are one action each; a poll takes an action for each
pattern, each match and each TailPath.  A WaitGroup is the set of goroutines
added and not done.

**Loader** (`loader.go`, `VM.Run`) has the caller of NewLoader, the reload
goroutine, the consumer, the waiter and the VMs.  `handleMu` is not a variable:
the consumer holds it for reading while it sends, Swap and Finish hold it for
writing within one action, and a writer that waits (`load = "lock"`) keeps a new
reader out as `sync.RWMutex` does.  Sends are rendezvous.  A program's text is a
member of a small set, some of which do not compile and some of which the store
refuses.  An empty `programPath` is one of the initial states: nothing is loaded
and there is no reload goroutine.

**MetricStore** (`store.go`, `metric.go`, and the calls of `vm.go`) has the
loader that adds the metrics of a program one after the other, the VMs and Gc.
Add's copy and Gc's scan are one action for each element, because they range
over `LabelValues` without the metric's lock.  A Go `range` evaluates its slice
once but reads its array as the loop proceeds, and RemoveDatum shifts that array
in place: the operators View, Seen and SeenAppend model this, including that an
append may or may not move the slice to a new array.

**ByteStream** (`decode.go`, the parts that `pipestream.go` and
`socketstream.go` have in common), **PipeStream** and **SocketStream** model
streams that are not files; **Streams** is either of them.  A byte is a letter, a
newline, or one of the two halves of a longer rune, because `decodeAndSend`
works on one read at a time and a read may end between the halves.  A read with a
deadline returns bytes, a timeout, the end or an error.  A second half alone is
a byte that is no rune.  A datagram longer than the buffer is cut off; an empty
one is a read of no bytes without an error.  `cut`, `lost`, `due`, `left` and `taken` are history
variables.

**Types**, **Ast**, **Symtab**, **Checker** (`types.go`, `ast.go`, `symtab.go`,
`checker.go`) are the front end behind the parser: unification over a table of
type variables, scopes, and the walk of the checker, which returns the tree with
the conversions it inserts.  The checker's state (scopes, decorator scopes, type
variables, errors) is a record that is passed along.

**CodeGen** (`codegen.go`, `code`) emits the instructions and resolves labels.
**Datum** (`metrics/datum`) has the values of metrics with their times, and
histograms, whose last bucket ends at the constant Inf (`math.Inf(+1)`).  **VM** (`vm.go`) runs the object: an action for each instruction.  A
metric is a function from label values to data, times are numbers, a float is a
number of halves, and text is a number or a word, so that the conversions between
text and numbers are those of `strconv` on the values that occur.

**Language** says what a checked tree means, by evaluating it directly, with no
stack, registers, jumps or labels, and compares the outcome of each line with
what VM did.  It is the one module that has no code to be mapped to: it is the
reference.  The constant Quirks lists the places where the implementation departs
from its documentation; see below.

**Exporter** (`export.go`, `prometheus.go`, `varz.go`, `json.go`, with the locks
of `store.go` and `metric.go`) has the goroutine that pushes and one that serves
a request.  `searchMu` and the metrics' locks are `sync.RWMutex`es, in which a
waiting writer keeps new readers out.  Dials and writes may fail.  The buckets of
its histogram are made from the declared boundaries as the code generator makes
them (Edges, Ranges).

**Server** (`cmd/mtail/main.go`, `mtail.go`, `options.go`, `httpstatus.go`)
composes the Exporter with main, the Loader and the Tailer from flags to exit.
The Tailer is reduced to one file's stream and the closer: the stream reads as
many lines as its buffer takes (Fetch), sends them, and looks at the context and
at Stop behind them and at the end of the file (Sleep), so that a signal may leave
lines of the log unread; FileStream has all of that in detail.  The Loader is
reduced to the initial load,
the consumer, the waiter and one VM per program: what they do beyond that is the
subject of Tailer and Loader.  The end of the push loop and of the HTTP server
after cancellation only means fewer exports, and is the absence of a step.

The `MC*` modules give the constants their values.  The operators named `Bad...`
are defective variants of the definitions they are named after; each property is
known to fail when its variant takes the place of the definition.

## 4. What is checked

| Run | Shows |
|---|---|
| `FileStream.cfg` | through all interleavings of writer, rotation, removal, truncation, Stop and cancellation: order, no loss, drain, counting, refinement of LogStream |
| `FileStreamLive.cfg` | read from the start, with a system call that fails: Stop and cancellation end the goroutine; a stream left alone ends up at the end of the file that has the name |
| `Tailer.cfg` | a log beside a directory, with both loops, in both modes, with a stale stream and one lost in a rotation: one reader per pathname, nothing sent on or added after the close; cancellation, or one-shot mode, leads to the channel being closed |
| `TailerFinds.cfg` | a log that is removed and created again, once cannot be opened, and may lose a stream, behind a link to nothing that comes and goes and ends each poll: it gets a reader when polls reach it, unless a lost stream keeps its place; the exact drift of `log_count` (a log whose re-open fails is subtracted twice, against the comment at `tail.go:27`) |
| `Loader.cfg` | two programs, as in the daemon: handles are open and running, no VM is orphaned except by UnloadProgram (which leaves the channel open, against its comment at `loader.go:468`), the wait at the end is final (together VMsAccounted); each VM gets each line from its load on; the status page finds a handle for each name it looks up, except for a program that never compiled or was unloaded; a SIGHUP takes the good program whatever becomes of the other |
| `LoaderLive.cfg` | two programs, errors abort a load (one-shot and compile-only mode): a SIGHUP takes effect although signals merge, unless a program before it ends the load; the end of input ends everything, unless a VM is left that the consumer could not find in `handles` |
| `MetricStore.cfg` | one value per label while programs, a reload and Gc are at it, and a copy that is complete unless something is deleted from the old metric meanwhile; what has expired is removed in the end, although one run of Gc skips the label after each one it removes |
| `MetricStoreKinds.cfg` | two programs with scalar and keyed metrics: one kind per name, one metric per declaration, what a VM updates is exported |
| `Language.cfg` | 662 small programs of every construct, two lines each: the machine does to metrics, time and time memo what the program means and fails when that does (AsMeant); nothing the checker lets pass goes wrong on the stack beyond the listed cases (WellTyped); each line ends (LineEnds) |
| `Streams.cfg` | pipes and sockets under cut reads, errors, stop and cancellation: text is kept but for cut runes, what was there is read before the end, the goroutine ends when cancelled, and both implement LogStream |
| `Server.cfg` | every mode, a program that does not compile, a signal at any moment, pushes that fail and requests: locks come back and an export sees one state of a metric (ExportLocks); histograms are scraped consistently; before the exit each program has processed every line that was read, which in one-shot mode are all that the log had, while a signal leaves unread what was not in the buffer or in the one read that follows a wait (AllProcessed); the process exits when it should; exports end |

### Where the code disagrees with its comments and documentation

`FileStreamRotate.cfg` checks the comment at `filestream.go:152`, "We're at EOF so
there's nothing left to read here.", and TLC finds the behaviour that contradicts
it: bytes appended between the EOF and the Stat are left behind.

The others are excused by name in the property that would fail, so that the rest
of it is checked:

| Statement | What happens | Excused in |
|---|---|---|
| `logstream.go:36` on IsComplete | a rotation whose open fails (`filestream.go:149`) ends the last goroutine and the stream never says it is complete | LogStream promises that a complete stream sends nothing, not that one that ended is complete |
| `tail.go:31` on the Tailer | the stream that is lost in this way (`filestream.go:149`) keeps its place in the map, so its log is not tailed again; and a matching pathname that cannot be examined ends each poll before the logs behind it (`tail.go:343`) | EventuallyTailed: Lost, Hidden |
| `docs/Deploying.md:98` on SIGHUP | under errorsAbort a program that does not load ends the reload of those behind it (`loader.go:77-80`) | ReloadTakes: CutOff |
| `loader.go:296` on signalQuit, `mtail.go:279` "Run awaits mtail's shutdown." | a SIGHUP that is pending at the end of input may still be served (`loader.go:441`): it starts VMs that nobody closes, and Run waits for them | Loader.ShutsDown |
| `store.go:70` "copy everything into the new metric" | the expiry is not copied (`store.go:77`): a label marked by `del after` lives for ever after a reload | CopyComplete speaks of labels and values |
| `docs/Troubleshooting.md:41` on the status page | for a program that never compiled there is no handle, and `loader.go:191` dereferences nil; net/http recovers | StatusShown |
| `docs/Testing.md:14` on `--compile_only` | with `--logs` it waits for a signal, because Run waits for the Tailer (`mtail.go:282`) | Exits speaks of compile-only without logs |
| Deadline and error handling in `export.go` | after a write error (`export.go:176`), and after a metric that Prometheus refuses (`prometheus.go:82`), the metric's read lock is not released: the next program that adds a label waits for ever, with it the consumer and Run | ExportLocks, Exits, ExportEnds: Leaking |
| `docs/Programming-Guide.md:256`: `buckets 1, 2, 4, 8` makes "buckets for ranges [0-1), [1-2), [2-4), [4-8), and from 8 to positive infinity"; `buckets_test.go:18` states the same ranges (its random values are never on a bound); `buckets_test.go:41` expects `+Inf` to have all observations | `metrics/datum/buckets.go:26` includes the upper bound and excludes the lower one: an observation on a bound is in the bucket below it, and one at or below the lowest bound in none, not in that of `+Inf` either, although the count has it | HistogramScraped states the ranges of the code and speaks of the observations above the lowest bound |
| `docs/Language.md:222` on `otherwise` | the else branch of a conditional, and a decorated block, see the conditionals around them (`codegen.go:169-190`) | Quirks else, deco |
| `docs/Language.md` on `strptime`, `settime` | times are memoised by text whatever the layout, a failed parse succeeds the second time; `strptime` of digits gets the empty string; `settime` of text fails | Quirks memo, digits |
| the checker's conversions | an Int assigned to a Float variable, or the reverse, compiles and fails at run time; `+=` on anything but an Int evaluates its keys twice; strings whose type was inferred are compared as numbers | Quirks assign, twice, numbers |

Further behaviour that the models show and that no statement contradicts: in
one-shot mode the exit status is always 1; the status page reads the handles
without their lock, so that Go's runtime may end the process (status 2) at
shutdown; count and buckets of one scrape may be of different moments (the
count is the older one); a pipe that ends loses an unfinished last line; a
histogram that is read compiles and panics (recovered, the line ends); a
capture group of a decorator used inside its own block refers to the inner use.
The branch of `compare` that would ignore an integer's value (`vm.go:282`) is never
reached (WellTyped).

### Bounds

Counters are bounded in the guards, each by a named constant.

- FileStream: 3 bytes, 2 files and a buffer of 2 give a short read, a full
  buffer, an empty line, an unfinished line, and a rotation with bytes in both
  files.  The run with failures has 2 bytes, 2 files and one failure, which can
  hit each of Stat, OpenFile, Read and Seek.  The theorems lift the bounds for
  the properties they cover.
- Tailer: stream identities are reused when nobody refers to them, so two serve
  for any number of re-creations of one log.  The two runs share the causes, at any
  moment: one change to the directory, a stale and a lost stream under both loops;
  three changes (a log removed and created, a link that appears or goes), a failed
  open and a lost stream under the loop that polls.  Several logs and overlapping
  patterns are left to the theorems, which cover all safety properties of the runs.
- Loader: two programs are needed for a reload between the sends of one line and
  for one that ends the load of the other, under errorsAbort (LoaderLive), or does
  not (Loader); one reload and one unload can meet any line, and two SIGHUPs can
  merge.
- MetricStore: two labels suffice for aliasing between a copy and Gc.  Two
  programs with two metrics of two kinds give a load that fails half way.  The
  gc loop runs without a bound.
- Streams: a buffer of two bytes and texts of up to four, six bytes in all, let a
  read end in the middle of a rune and of a line, and a datagram exceed the
  buffer.  Among the texts are a byte that is no rune and the empty datagram, of
  which four texts may wait (MaxQueue), since empty ones are not bounded by the
  number of bytes.
- Language: programs are families, one for each construct (nested conditionals,
  logical and comparison operators, arithmetic on each pair of types, repeated
  assignment, keys, del, decorators, builtins), with each of the operators and
  operand types in each place; two of five lines suffice for the time memo, whose
  size is 1 so that it is full, and for metrics that exist already.
- Server: each mode, directories with a good program beside a bad one, a text
  metric and one that Prometheus refuses; an observation on a bound or below all; at
  most two exports, to one target, one failed dial or write; ExportLocks is proved for
  any number.  Where nothing is exported there are three lines and two programs: one
  line in the buffer, one in the next read and one left.  Elsewhere there is one line.

CHECK_DEADLOCK is off everywhere: each model ends when its goroutines have ended
and its bounds are used up, and a server without input waits.  That nothing hangs
before is what the liveness properties say.

### Fairness

- Go runs every goroutine that can run: weak fairness of each goroutine's steps.
- The wakers and the gc loop have tickers that never end, so a wait on one
  always ends.
- The consumer of `lines` receives until the channel is closed (Loader), so a
  send happens.
- A loop that finds its waker and the cancelled context ready chooses at random
  and so does not overlook the context for ever: strong fairness of LoopEnd.
- A program ends on every line, since its byte code has no backward jumps: shown
  in Language (LineEnds).
- Reads of pipes and sockets have deadlines and so return; dials and writes of the
  exporter have one too.
- In Server each goroutine has weak fairness until the process exits: main, the
  Loader's, the Tailer's, each VM, each export.  A lock is granted by a step of
  the goroutine that waits for it, so nothing is assumed of the order of grants.
- Nothing is assumed of writers, rotation, failures, signals, edits, and of a
  pipe's writers closing it, ticks and requests.

## 5. What is proved

Each `...Proofs` module proves an inductive invariant IInv of its component, for
every value of the constants that the named assumption admits, and derives the
properties from it.  The names of the theorems are those of the properties with
the component in front.

`Induction` has what `StreamsProofs` and `HistogramProofs` need of data.  The
library's induction theorems take an operator as a parameter, which the provers
cannot instantiate; SetInduction is induction for a set of numbers instead,
derived from the theorem that each nonempty set of natural numbers has a least
one.  From it follow that a recursion has values (Recursion) and no others
(Agree), hence that FlattenSeq, which the community modules define by recursion,
appends the sequences one after the other (FlattenEmpty, FlattenAppend), and that
a recursive sum is what its steps make it.

`FileStreamProofs`, from BoundsAssumption (the bounds are natural numbers, one
file at least) and StreamAssumption (the buffer has at least one byte):

- `FileStreamTypeOK`, `FileStreamInOrderOnce`, `FileStreamSenderCounted`,
  `FileStreamNothingSkipped`, `FileStreamStopDrains`,
  `FileStreamImplementsLogStream`, and the action property
  `FileStreamDecodedKept`.
- FilesInv: the files are disjoint intervals in the order of their creation, and
  the name belongs to the latest or to none.  ControlInv: what each `pc` says of
  the stream, among it that a running goroutine is counted and not complete.
  PositionInv: as long as each open opened the file its Stat saw, the reader is
  right behind the last byte it read or the file was truncated since, so what it
  reads next is never something it has read.  OrderInv: the bytes sent increase,
  those in the accumulator follow, the next to decode comes after both.
  InOrderOnce alone is not inductive, because a Read could return earlier bytes
  again; that it does not needs the position, and that a rotation does not needs
  the order of the files.
- PlaceInv says where the reader is also after an open of another file than the
  one its Stat saw: it has read nothing of this file yet, or is right behind the
  last byte it has read of it unless a truncation has not been noticed; and it
  takes a file for truncated only when that is so.  NothingSkipped needs it for
  the seek to the start.
- DrainInv: what was there when Stop was called ends no later than the open
  file, and from the read that meets the end of file on it has all been read.
  StopDrains alone says nothing of the states between the two.
- The refinement maps `wg`, `lines`, `completed`, `stopped` to the contract's
  variables; each step sends at most one line (SendsOneLine), and ControlInv
  gives the contract's guards.

`TailerProofs`, from TailerAssumption (pathnames, patterns and kinds of any
number; stream identities differ from the names of the loops):

- `TailerTypeOK`, `TailerNoSendOnClosed`, `TailerOneReader`,
  `TailerAddedWhileCounted`, `TailerLogCountDrift`.
- The invariant says which goroutine is where during New (StartupInv), that
  there is nothing to tail without patterns (NoPatternInv), that each goroutine
  able to start another is itself counted in the WaitGroup and that the channel
  is closed only when nobody is counted (CountedInv), and that a running stream
  is the one in the map (ReaderInv).  NoSendOnClosed follows from CountedInv: the
  argument the comment in New makes about the order of Add and Wait.
- LogCountDrift relates `log_count` to the number of entries of `logstreams`.
  It is inductive beside the invariant above; each step adds or removes one entry
  of a finite map, and the theorems on cardinality do the counting.

`LoaderProofs`, from LoaderAssumption (any number of programs and bounds;
compile-only implies that errors abort, as the option at `vm/loader.go:311` says):

- `LoaderTypeOK`, `LoaderVMsAccounted`, `LoaderEveryLine`, `LoaderStatusShown`.
- Type correctness (which no run checks) is not plain, because VMs are numbered: BudgetInv says that a
  load makes one VM for each program at most and that each signal not merged with
  another gives one load.  CountInv says what `l.wg` counts at each moment
  (running VMs, consumer, reload goroutine), from which the wait at the end is
  final.  NumberedInv: handles refer to VMs of their program.  LineInv: while a
  line is handed out, a program is either among those still to be sent to or has
  it, also when its VM is replaced meanwhile; this makes EveryLine inductive.
  HandleLostInv: until the end of input a handle disappears by UnloadProgram only.

`StreamsProofs`, from ByteAssumption (any texts, a buffer of one byte at least):

- `StreamsDrained`, `StreamsTextKept` and `StreamsImplementLogStream`, for pipes
  and sockets.
- PipeInv: the bytes written to a pipe are those taken and those in its queue.
  SocketInv: the same of a socket, whose queue holds datagrams; the sum of their
  lengths is stated by marks, one number for each datagram, so that no recursive
  sum and no induction is needed.  DueInv: a socket that pauses without being
  cancelled has found its queue empty.  ControlInv gives the contract's guards.
- TextKept speaks of the states in which all that was read is decoded; TextInv of
  those in between too.  BufInv: the buffer holds the end of what was read.
  CutInv: the end of a read is marked where it cuts a rune, no mark lies within
  the buffer, and decoding is never between the halves of a whole rune.  SentInv:
  what was sent and is held is the text of the bytes decoded so far.  The step of
  the induction is that of the code: one rune more is decoded, and the text of
  one or two bytes more has that rune more; bytes read later do not change the
  text of earlier ones, because a cut is marked when it is made (RuneKept).

`ServerProofs`, from ServerAssumption and ExporterAssumption (metrics, program
directories, targets and exports of any number):

- `ServerExportLocks` and `ServerAllProcessed`.
- ExportInv: what an export at each place holds and has written (AtMetric), and
  the two parts of ExportLocks, LocksReturned and Snapshot.  The readers of a
  lock are counted as those that hold it and those left behind by a failed push.
  A lemma on how the count changes when one goroutine moves is used by each
  action.
- RunInv: who ends after whom (EndInv), what Run's WaitGroup counts (WgInv), where
  the log is read to (ReadInv), and that each line sent is, for each program,
  processed, with its VM, or still to be sent (LineInv).  ReadInv says of each place
  of the stream how far what is due may be ahead of it: anywhere in the log, once
  the context is done not beyond the next read or the buffer, and not at all when
  an EOF was met.  What is due is, from the open of a file on, all that it had, and
  from a signal on the buffer and, where the stream will read once more, one line
  more.  AllProcessed follows, since no VM is left when Run returns; after a crash
  of the status page the consumer is behind its last send, so that a program lacks
  at most the line it is at.

`HistogramProofs`, from the same assumptions.  ExporterAssumption says of the
boundaries what the code generator checks (two at least, in increasing order),
and that infinity is above all of them and not below any value:

- `ServerHistogramScraped`.
- BucketInv: each bucket's count is the number of the observations between its
  edges, and the datum's count is their number in all.  An observation is in one
  bucket at most, the first whose range contains it, since the edges increase
  (EdgesSorted, ObserveCounts).  CumIs: the cumulative sums of the buckets are
  then the numbers of observations above the lowest edge and up to each boundary,
  by induction over the buckets.  ScrapeInv: between the reading of the count and
  that of the buckets observations are only added, and a finished scrape stays
  true of the observations it saw.  HistogramScraped alone says nothing of
  buckets that are not scraped yet.

`MetricStoreProofs`, from StoreAssumption (any number of names, labels and
programs; one name at least):

- `MetricStoreTypeOK`, `MetricStoreNoDuplicateLabels`, `MetricStoreKindsAgree`,
  `MetricStoreOncePerSource`, `MetricStoreLiveExported`,
  `MetricStoreCopyComplete`.
- ListInv is about the lists of the store while a load goes on.  PassedInv: of
  the metrics of a load, those under the names it has passed are in the store and
  the others are not.  FoundInv: what Add found when it looked through the list
  still holds at Insert, because nobody else changes lists; without it Insert
  could add a second metric of a declaration.  OwnerInv and UntouchedInv say whose
  the metrics are and that a load that has inserted nothing has taken nothing out
  of the store, which LiveExported needs.
- DistinctInv is NoDuplicateLabels, of metrics not made yet too.
- CopyInv is about the loop that copies LabelValues without the metric's lock: as
  long as nothing is deleted from the old metric, the array the loop ranges over
  is a beginning of the metric's slice, whatever was appended meanwhile, and what
  the loop has passed is in the new metric.

Only model-checked:

- all liveness properties, since the prover does not handle fairness;
- WellTyped and AsMeant: the checker, the code generator and the reference are
  RECURSIVE operators on trees, with which the prover loses its SMT solver.

## 6. What is not modelled

- Text: log wording, formats of exporters, HTML and JSON, glob syntax, flags.
  A pattern is the set of pathnames it matches.
- The scanner and the generated parser: pure functions of characters, where a
  model would be a transliteration.  Programs enter the models as trees.
- Regular expressions, time layouts and the order of strings: constants of
  Language, given by tables.  Integers do not overflow and floats are exact.
- The waker: a ticker that closes and replaces a channel.  In the models a wake
  is always possible and never required to be in time.
- LastReadTime: any stream may be found stale by the Tailer's Gc.
- Unsynchronised reads that tear: MarshalJSON reads the label values of a metric
  without its lock; the Server model has the lock of the store only for it.
- Reloads in Server, and several logs: see Loader and Tailer.
- Two metrics of one program that are exported under one name (`as`): a name of
  MetricStore is declared at one place of a program.
- The flag `syslogUseCurrentYear` is not a variable: what it adds to a time without
  a year is the constant ThisYear, 0 where it is not set.
- Profiling, tracing and the expvar counters other than `log_count`.
- Files that share an inode number after deletion, and file systems whose
  reads do not see the latest write.
- Developer tools (`cmd/mdot`, `cmd/mgen`, `cmd/mfmt`), and vendored libraries.
