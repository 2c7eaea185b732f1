--------------------------------- MODULE VM ---------------------------------
(***************************************************************************)
(* The virtual machine (internal/vm/vm.go): a stack machine that runs the  *)
(* program once for each log line.  The variables are the fields of VM and *)
(* of its thread; one action is one instruction cycle (execute).  A datum  *)
(* on the stack is a reference <<metric, labels>>.  An error ends the      *)
(* line: `runtimeError` keeps its cause, "panic" for a recovered panic.    *)
(***************************************************************************)
EXTENDS CodeGen

CONSTANTS
  Programs,            \* name -> syntax tree
  Objects,             \* name -> what Compile makes of it
  Lines,               \* the texts of the input lines
  MaxLines,            \* how many of them are read
  Submatch(_, _),      \* FindStringSubmatch(pattern, text), <<>> for nil
  ParseLayout(_, _),   \* time.Parse(layout, text): <<[time, yearless]>>, <<>> for an error
  ThisYear,            \* what AddDate adds to a time without a year; 0 unless
                       \* syslogUseCurrentYear is set (vm.go:318)
  MemoSize,            \* 64 in the code
  Before(_, _),        \* the order of strings
  Lower(_), Length(_), \* strings.ToLower and len
  Numeral(_, _)        \* ParseInt(text, base) for a base other than 10; <<>> for an error

VARIABLES
  program, input, pc, matched, matches, time, stack, timeMemos, metrics,
  running,      \* ProcessLogLine is in its loop
  runtimeError, \* the cause of the last error
  told,         \* the cause of the error that ended this line, or ""
  read          \* the number of lines read

thread == <<pc, matched, matches, time, stack>>
state  == <<thread, timeMemos, metrics, running, runtimeError, told>>
vars   == <<program, input, read, state>>

\* New: the machine of a program that compiles.
Obj      == Objects[program].obj
Compiled == {p \in DOMAIN Programs : Objects[p].ok}

Init ==
  /\ program \in Compiled
  /\ metrics = Obj.metrics
  /\ input = "" /\ read = 0 /\ running = FALSE
  /\ pc = 0 /\ matched = FALSE /\ matches = <<>> /\ time = Data!ZeroTime /\ stack = <<>>
  /\ timeMemos = <<>> /\ runtimeError = "" /\ told = ""

-----------------------------------------------------------------------------
(* The stack.  Conversions yield Ok(v) or Bad(cause).                       *)

Ok(v)     == [ok |-> TRUE, v |-> v]
NotOk(e)  == [ok |-> FALSE, cause |-> e]

\* The n-th value from the top, and what is below the first n.
Pop(n)    == stack[Len(stack) - n + 1]
Below(n)  == SubSeq(stack, 1, Len(stack) - n)

TheDatum(ref) == metrics[ref[1] + 1].data[ref[2]]

\* strconv
IsNumber(s)   == s[1] = "num"
ParseFloat(s) == IF IsNumber(s) THEN Ok(s[2]) ELSE NotOk("number")
ParseInt(s)   == IF IsNumber(s) /\ s[2] % 2 = 0 THEN Ok(s[2] \div 2) ELSE NotOk("number")

\* GetInt, GetFloat and GetString panic on a datum of another type.
Get(ref, type) == IF TheDatum(ref).type = type THEN Ok(TheDatum(ref).v) ELSE NotOk("panic")

PopInt(x) ==
  CASE x.k \in {"int64", "int"} -> Ok(x.v)
    [] x.k = "string"           -> ParseInt(x.v)
    [] x.k = "datum"            -> Get(x.v, "Int")
    [] OTHER                    -> NotOk("type")

PopFloat(x) ==
  CASE x.k = "float"  -> Ok(x.v)
    [] x.k = "int"    -> Ok(Data!Halves(x.v))
    [] x.k = "string" -> ParseFloat(x.v)
    [] x.k = "datum"  -> Get(x.v, "Float")
    [] OTHER          -> NotOk("type")

PopString(x) ==
  CASE x.k = "string"           -> Ok(x.v)
    [] x.k = "float"            -> Ok(Data!Num(x.v))
    [] x.k \in {"int", "int64"} -> Ok(Data!Num(Data!Halves(x.v)))
    [] x.k = "datum"            -> Get(x.v, "String")
    [] OTHER                    -> NotOk("type")

PopDatum(x) == IF x.k = "datum" THEN Ok(x.v) ELSE NotOk("type")

\* The second operand is popped, and fails, first.
Both(a, b, Op2(_, _)) == IF ~ b.ok THEN b ELSE IF ~ a.ok THEN a ELSE Op2(a.v, b.v)
One(a, Op1(_))        == IF a.ok THEN Op1(a.v) ELSE a

-----------------------------------------------------------------------------
(* Comparison.  The operand is -1 for less, 0 for equal, 1 for greater.     *)

CompareNumber(a, b, opnd) ==
  Data!Val("bool", CASE opnd = -1 -> a < b [] opnd = 0 -> a = b [] OTHER -> a > b)
CompareString(a, b, opnd) ==
  Data!Val("bool", CASE opnd = -1 -> Before(a, b) [] opnd = 0 -> a = b [] OTHER -> Before(b, a))

Numeric(x) == x.k \in {"float", "int", "int64"}
AsHalves(x) == IF x.k = "float" THEN x.v ELSE Data!Halves(x.v)

\* A string that is a number is compared as one.  An integer is compared with
\* such a string as if it were zero.
Compare(a, b, opnd) ==
  LET left == IF a.k = "string" /\ IsNumber(a.v) THEN Data!Val("float", a.v[2]) ELSE a
      self == IF left.k = "float" THEN left.v ELSE 0
  IN  CASE Numeric(left) /\ Numeric(b) -> Ok(CompareNumber(AsHalves(left), AsHalves(b), opnd))
        [] Numeric(left) /\ b.k = "string" /\ IsNumber(b.v) -> Ok(CompareNumber(self, b.v[2], opnd))
        [] left.k = "string" /\ b.k = "string" -> Ok(CompareString(left.v, b.v, opnd))
        [] OTHER -> NotOk("compare")

CompareTyped(op, a, b, opnd) ==
  CASE op = "Cmp"  -> Compare(a, b, opnd)
    [] op = "Icmp" -> Both(PopInt(a), PopInt(b), LAMBDA x, y : Ok(CompareNumber(x, y, opnd)))
    [] op = "Fcmp" -> Both(PopFloat(a), PopFloat(b), LAMBDA x, y : Ok(CompareNumber(x, y, opnd)))
    [] op = "Scmp" -> Both(PopString(a), PopString(b), LAMBDA x, y : Ok(CompareString(x, y, opnd)))

-----------------------------------------------------------------------------
(* Arithmetic.  Integers stay far from the limits of int64; a float that is *)
(* no number of halves is rounded towards zero.                             *)

Abs(n)  == IF n < 0 THEN -n ELSE n
Sign(n) == IF n < 0 THEN -1 ELSE 1
Quo(a, b) == Sign(a) * Sign(b) * (Abs(a) \div Abs(b))
Rem(a, b) == a - b * Quo(a, b)

\* a^b, truncated; zero to a negative power is the limit of int64.
IntPow(a, b) ==
  CASE b >= 0          -> a ^ b
    [] b < 0 /\ a \in {-1, 1} -> IF b % 2 = 0 THEN 1 ELSE a
    [] OTHER           -> IF a = 0 THEN Inf ELSE 0

\* The bits of a two's complement number.
Bit(a, i)  == (a \div 2 ^ i) % 2
BitWidth   == 8
FromBits(B(_)) ==
  LET Sum[i \in 0 .. BitWidth] == IF i = 0 THEN 0 ELSE Sum[i - 1] + B(i - 1) * 2 ^ (i - 1)
  IN  Sum[BitWidth - 1] - B(BitWidth - 1) * 2 ^ (BitWidth - 1)

\* The count of a shift is made unsigned: a negative one shifts everything out.
IntOp(op, a, b) ==
  CASE op = "Iadd" -> a + b
    [] op = "Isub" -> a - b
    [] op = "Imul" -> a * b
    [] op = "Idiv" -> Quo(a, b)
    [] op = "Imod" -> Rem(a, b)
    [] op = "Ipow" -> IntPow(a, b)
    [] op = "Shl"  -> IF b < 0 THEN 0 ELSE a * 2 ^ b
    [] op = "Shr"  -> IF b < 0 THEN (IF a < 0 THEN -1 ELSE 0) ELSE a \div 2 ^ b
    [] op = "And"  -> FromBits(LAMBDA i : Bit(a, i) * Bit(b, i))
    [] op = "Or"   -> FromBits(LAMBDA i : IF Bit(a, i) + Bit(b, i) > 0 THEN 1 ELSE 0)
    [] op = "Xor"  -> FromBits(LAMBDA i : (Bit(a, i) + Bit(b, i)) % 2)

IntOps == {"Iadd", "Isub", "Imul", "Idiv", "Imod", "Ipow", "Shl", "Shr", "And", "Or", "Xor"}

FloatOp(op, a, b) ==
  CASE op = "Fadd" -> a + b
    [] op = "Fsub" -> a - b
    [] op = "Fmul" -> Quo(a * b, 2)
    [] op = "Fdiv" -> IF b = 0 THEN Sign(a) * Inf ELSE Quo(2 * a, b)
    [] op = "Fmod" -> IF b = 0 THEN Inf ELSE Rem(a, b)
    [] op = "Fpow" -> LET n == Quo(b, 2) IN IF n < 0 THEN 0 ELSE Quo(2 * a ^ n, 2 ^ n)

FloatOps == {"Fadd", "Fsub", "Fmul", "Fdiv", "Fmod", "Fpow"}

Calculate(op, a, b) ==
  CASE op \in FloatOps ->
         Both(PopFloat(a), PopFloat(b), LAMBDA x, y : Ok(Data!Val("float", FloatOp(op, x, y))))
    [] op \in IntOps ->
         Both(PopInt(a), PopInt(b), LAMBDA x, y :
              IF op \in {"Idiv", "Imod"} /\ y = 0 THEN NotOk("zero")
              ELSE Ok(Data!Val("int64", IntOp(op, x, y))))

-----------------------------------------------------------------------------
(* Strings. *)

Text(s) == Data!Val("string", s)

\* Two numbers written one after the other are not taken for a number.
Concatenate(a, b) ==
  LET Words(s) == IF IsNumber(s) THEN <<ToString(s[2])>> ELSE s[2]
  IN  CASE a = Data!Word("") -> b
        [] b = Data!Word("") -> a
        [] OTHER             -> <<"word", Words(a) \o Words(b)>>

StrToInt(s, base) ==
  CASE base = 10 -> ParseInt(s)
    [] OTHER     -> IF Numeral(s, base) = <<>> THEN NotOk("number") ELSE Ok(Numeral(s, base)[1])

Int64(n) == Ok(Data!Val("int64", n))

Convert(op, x) ==
  CASE op = "S2i" -> One(PopString(x), LAMBDA s : One(ParseInt(s), Int64))
    [] op = "S2f" -> One(PopString(x), LAMBDA s : One(ParseFloat(s), LAMBDA f : Ok(Data!Val("float", f))))
    [] op = "I2f" -> One(PopInt(x), LAMBDA n : Ok(Data!Val("float", Data!Halves(n))))
    [] op = "I2s" -> One(PopInt(x), LAMBDA n : Ok(Text(Data!Num(Data!Halves(n)))))
    [] op = "F2s" -> One(PopFloat(x), LAMBDA f : Ok(Text(Data!Num(f))))
    [] op = "Tolower" -> One(PopString(x), LAMBDA s : Ok(Text(Lower(s))))
    [] op = "Length"  -> One(PopString(x), LAMBDA s : Ok(Data!Val("int", Length(s))))
    [] op = "Neg"     -> One(PopInt(x), LAMBDA n : Int64(-n - 1))
    [] op = "Not"     -> IF x.k = "bool" THEN Ok(Data!Val("bool", ~ x.v)) ELSE NotOk("panic")
    [] op = "Iget"    -> One(PopDatum(x), LAMBDA d : One(Get(d, "Int"), Int64))
    [] op = "Fget"    -> One(PopDatum(x), LAMBDA d : One(Get(d, "Float"), LAMBDA f : Ok(Data!Val("float", f))))
    [] op = "Sget"    -> One(PopDatum(x), LAMBDA d : One(Get(d, "String"), LAMBDA s : Ok(Text(s))))

-----------------------------------------------------------------------------
(* The instruction cycle. *)

I == Obj.prog[pc + 1]

\* One of these instructions is next and finds the n values that it pops.
Fetch(ops, n) == running /\ pc < Len(Obj.prog) /\ I.op \in ops /\ Len(stack) >= n

\* errorf, and the return from the loop; the thread is not used again.
Errorf(cause) ==
  /\ running' = FALSE /\ runtimeError' = cause /\ told' = cause
  /\ UNCHANGED <<pc, stack>>

GoOn(next, st) ==
  /\ pc' = next /\ stack' = st
  /\ UNCHANGED <<running, runtimeError, told>>

\* Replaces n values by the result.
Put(n, r) == IF r.ok THEN GoOn(pc + 1, Append(Below(n), r.v)) ELSE Errorf(r.cause)

Same(others) == UNCHANGED <<program, input, read, others>>

\* ProcessLogLine: a new thread.
ProcessLogLine(line) ==
  /\ ~ running /\ read < MaxLines
  /\ input' = line /\ read' = read + 1 /\ running' = TRUE /\ told' = ""
  /\ pc' = 0 /\ matched' = FALSE /\ matches' = <<>> /\ time' = Data!ZeroTime /\ stack' = <<>>
  /\ UNCHANGED <<program, timeMemos, metrics, runtimeError>>

\* The end of the program is not noticed.
BadReturn ==
  /\ running /\ pc < Len(Obj.prog) /\ I.op = "Stop"
  /\ running' = FALSE
  /\ UNCHANGED <<program, input, read, thread, timeMemos, metrics, runtimeError, told>>

\* The end of the program, and the instruction Stop.
Return ==
  /\ running /\ (IF pc < Len(Obj.prog) THEN I.op = "Stop" ELSE TRUE)
  /\ running' = FALSE
  /\ UNCHANGED <<program, input, read, thread, timeMemos, metrics, runtimeError, told>>

\* How many values an instruction pops; with fewer, the index is out of range.
Needs(op) ==
  CASE op \in {"Cmp", "Icmp", "Fcmp", "Scmp", "Iset", "Fset", "Sset", "Strptime", "Cat"}
              \cup FloatOps \cup IntOps -> 2
    [] op \in {"Match", "Jmp", "Str", "Push", "Mload", "Timestamp", "Otherwise", "Setmatched",
               "Getfilename", "Stop"} -> 0
    [] op \in {"Inc", "Dec", "S2i"} -> IF I.arg = NoArg THEN 1 ELSE 2
    [] op \in {"Dload", "Del"} -> I.arg + 1
    [] op = "Expire" -> I.arg + 2
    [] OTHER -> 1

Execute(ops) == Fetch(ops, Needs(I.op))
Unchanged    == Same(<<matched, matches, time, timeMemos, metrics>>)

MatchLine ==
  /\ Execute({"Match"})
  /\ LET found == Submatch(Obj.re[I.arg + 1], input)
     IN  /\ matches' = (I.arg :> found) @@ matches
         /\ Put(0, Ok(Data!Val("bool", found # <<>>)))
  /\ Same(<<matched, time, timeMemos, metrics>>)

MatchString ==
  /\ Execute({"Smatch"})
  /\ LET s     == PopString(Pop(1))
         found == Submatch(Obj.re[I.arg + 1], s.v)
     IN  IF s.ok THEN /\ matches' = (I.arg :> found) @@ matches
                      /\ Put(1, Ok(Data!Val("bool", found # <<>>)))
                 ELSE Errorf(s.cause) /\ UNCHANGED matches
  /\ Same(<<matched, time, timeMemos, metrics>>)

Cmp ==
  /\ Execute({"Cmp", "Icmp", "Fcmp", "Scmp"})
  /\ Put(2, CompareTyped(I.op, Pop(2), Pop(1), I.arg))
  /\ Unchanged

\* A value that is neither a bool nor an int64 never makes a jump.
Jump ==
  /\ Execute({"Jnm", "Jm", "Jmp"})
  /\ IF I.op = "Jmp" THEN GoOn(I.arg, stack)
     ELSE LET x     == Pop(1)
              holds == CASE x.k = "bool"  -> x.v = (I.op = "Jm")
                         [] x.k = "int64" -> (x.v # 0) = (I.op = "Jm")
                         [] OTHER         -> FALSE
          IN  GoOn(IF holds THEN I.arg ELSE pc + 1, Below(1))
  /\ Unchanged

\* Writes a datum on the stack: New gives its new contents.
Write(ref, d) == metrics' = [metrics EXCEPT ![ref[1] + 1].data[ref[2]] = d]

IncDec ==
  /\ Execute({"Inc", "Dec"})
  /\ LET given == I.arg # NoArg
         n     == IF given THEN 2 ELSE 1
         delta == IF given THEN PopInt(Pop(1)) ELSE Ok(1)
         ref   == PopDatum(Pop(n))
         old   == TheDatum(ref.v)
         new   == IF I.op = "Inc" THEN Data!IncBy(old, delta.v, time) ELSE Data!DecBy(old, delta.v, time)
         r     == Both(ref, delta, LAMBDA x, y : Get(x, "Int"))
     IN  IF r.ok THEN Write(ref.v, new) /\ Put(n, Int64(new.v))
                 ELSE Errorf(r.cause) /\ UNCHANGED metrics
  /\ Same(<<matched, matches, time, timeMemos>>)

SetDatum ==
  /\ Execute({"Iset", "Fset", "Sset"})
  /\ LET type  == CASE I.op = "Iset" -> "Int" [] I.op = "Fset" -> "Float" [] OTHER -> "String"
         value == CASE type = "Int"   -> PopInt(Pop(1))
                    [] type = "Float" -> PopFloat(Pop(1))
                    [] OTHER          -> PopString(Pop(1))
         ref   == PopDatum(Pop(2))
         old   == TheDatum(ref.v)
         new   == CASE type = "Int"   -> Data!SetInt(old, value.v, time)
                    [] type = "Float" -> Data!SetFloat(old, value.v, time)
                    [] OTHER          -> Data!SetString(old, value.v, time)
         r     == Both(ref, value, LAMBDA x, y : IF Data!FitsSet(old, type) THEN Ok(x) ELSE NotOk("panic"))
     IN  IF r.ok THEN Write(ref.v, new) /\ GoOn(pc + 1, Below(2))
                 ELSE Errorf(r.cause) /\ UNCHANGED metrics
  /\ Same(<<matched, matches, time, timeMemos>>)

-----------------------------------------------------------------------------
(* Time.  timeMemos is the LRU cache, the entry used last in front.         *)

\* A time that does not parse is the zero time.
ParseTime(layout, ts) ==
  LET p == ParseLayout(layout, ts)
  IN  IF p = <<>> THEN Data!ZeroTime
      ELSE p[1].time + (IF p[1].yearless THEN ThisYear ELSE 0)

MemoOf(ts)      == SelectSeq(timeMemos, LAMBDA e : e.text = ts)
Memoise(ts, tm) ==
  LET all == <<[text |-> ts, time |-> tm]>> \o SelectSeq(timeMemos, LAMBDA e : e.text # ts)
  IN  timeMemos' = SubSeq(all, 1, IF Len(all) > MemoSize THEN MemoSize ELSE Len(all))

\* A value that is no string leaves the text of the time empty.  The entry is
\* made even if the time does not parse, and is found by the text alone.
Strptime ==
  /\ Execute({"Strptime"})
  /\ LET layout == PopString(Pop(1))
         ts     == IF Pop(2).k = "string" THEN Pop(2).v ELSE Data!Word("")
         cached == MemoOf(ts) # <<>>
         tm     == IF cached THEN MemoOf(ts)[1].time ELSE ParseTime(layout.v, ts)
     IN  /\ Memoise(ts, tm) /\ time' = tm
         /\ IF ~ cached /\ tm = Data!ZeroTime THEN Errorf("time") ELSE GoOn(pc + 1, Below(2))
  /\ Same(<<matched, matches, metrics>>)

Timestamp ==
  /\ Execute({"Timestamp"})
  /\ Put(0, Int64(Data!Stamp(time)))
  /\ Unchanged

Settime ==
  /\ Execute({"Settime"})
  /\ IF Pop(1).k = "int64" THEN GoOn(pc + 1, Below(1)) /\ time' = Pop(1).v
     ELSE Errorf("type") /\ UNCHANGED time
  /\ Same(<<matched, matches, timeMemos, metrics>>)

-----------------------------------------------------------------------------
(* Values. *)

Capref ==
  /\ Execute({"Capref"})
  /\ LET re     == Pop(1).v
         groups == IF re \in DOMAIN matches THEN matches[re] ELSE <<>>
     IN  Put(1, IF Len(groups) <= I.arg THEN NotOk("groups") ELSE Ok(Text(groups[I.arg + 1])))
  /\ Unchanged

Constant ==
  /\ Execute({"Push", "Str", "Mload", "Otherwise", "Getfilename"})
  /\ Put(0, Ok(CASE I.op = "Push"      -> I.arg
                 [] I.op = "Str"       -> Text(Data!Word(Obj.str[I.arg + 1]))
                 [] I.op = "Mload"     -> Data!Val("metric", I.arg)
                 [] I.op = "Otherwise" -> Data!Val("bool", ~ matched)
                 [] OTHER              -> Text(Data!Word("filename"))))
  /\ Unchanged

Setmatched ==
  /\ Execute({"Setmatched"})
  /\ matched' = I.arg
  /\ GoOn(pc + 1, stack)
  /\ Same(<<matches, time, timeMemos, metrics>>)

Binary ==
  /\ Execute(FloatOps \cup IntOps \cup {"Cat"})
  /\ Put(2, IF I.op = "Cat"
            THEN Both(PopString(Pop(2)), PopString(Pop(1)), LAMBDA x, y : Ok(Text(Concatenate(x, y))))
            ELSE Calculate(I.op, Pop(2), Pop(1)))
  /\ Unchanged

Unary ==
  /\ Execute({"S2i", "S2f", "I2f", "I2s", "F2s", "Tolower", "Length", "Neg", "Not", "Iget", "Fget", "Sget"})
  /\ IF I.op = "S2i" /\ I.arg # NoArg
     THEN Put(2, Both(PopString(Pop(2)), PopInt(Pop(1)), LAMBDA s, base : One(StrToInt(s, base), Int64)))
     ELSE Put(1, Convert(I.op, Pop(1)))
  /\ Unchanged

-----------------------------------------------------------------------------
(* Metrics.  The metric is on top of its keys; the last key is popped first.*)

Keys == [j \in 1 .. I.arg |-> PopString(Pop(I.arg - j + 2))]
KeyError ==
  LET bad == {j \in DOMAIN Keys : ~ Keys[j].ok}
  IN  CASE Pop(1).k # "metric" -> "panic"
        [] Pop(1).k = "metric" /\ bad # {} -> Keys[CHOOSE j \in bad : \A x \in bad : x <= j].cause
        [] OTHER -> IF metrics[Pop(1).v + 1].keys = I.arg THEN "" ELSE "keys"
Labels == [j \in DOMAIN Keys |-> Keys[j].v]

\* GetDatum makes the datum if there is none.
Dload ==
  /\ Execute({"Dload"})
  /\ LET m   == Pop(1).v
         new == Data!NewDatum(metrics[m + 1].type, metrics[m + 1].ranges)
     IN  IF KeyError = ""
         THEN /\ metrics' = [metrics EXCEPT ![m + 1].data = @ @@ (Labels :> new)]
              /\ Put(I.arg + 1, Ok(Data!Val("datum", <<m, Labels>>)))
         ELSE Errorf(KeyError) /\ UNCHANGED metrics
  /\ Same(<<matched, matches, time, timeMemos>>)

Without(f, x) == [y \in DOMAIN f \ {x} |-> f[y]]

Del ==
  /\ Execute({"Del"})
  /\ LET m == Pop(1).v
     IN  IF KeyError = ""
         THEN /\ metrics' = [metrics EXCEPT ![m + 1].data = Without(@, Labels),
                                           ![m + 1].expiry = Without(@, Labels)]
              /\ GoOn(pc + 1, Below(I.arg + 1))
         ELSE Errorf(KeyError) /\ UNCHANGED metrics
  /\ Same(<<matched, matches, time, timeMemos>>)

Expire ==
  /\ Execute({"Expire"})
  /\ LET m      == Pop(1).v
         expiry == Pop(I.arg + 2)
         cause  == CASE KeyError # "" -> KeyError
                     [] KeyError = "" /\ expiry.k # "dur" -> "panic"
                     [] OTHER -> IF Labels \in DOMAIN metrics[m + 1].data THEN "" ELSE "expire"
     IN  IF cause = ""
         THEN /\ metrics' = [metrics EXCEPT ![m + 1].expiry = (Labels :> expiry.v) @@ @]
              /\ GoOn(pc + 1, Below(I.arg + 2))
         ELSE Errorf(cause) /\ UNCHANGED metrics
  /\ Same(<<matched, matches, time, timeMemos>>)

-----------------------------------------------------------------------------
Step ==
  \/ Return \/ MatchLine \/ MatchString \/ Cmp \/ Jump \/ IncDec \/ SetDatum
  \/ Strptime \/ Timestamp \/ Settime \/ Capref \/ Constant \/ Setmatched
  \/ Binary \/ Unary \/ Dload \/ Del \/ Expire

Next == (\E line \in Lines : ProcessLogLine(line)) \/ Step

\* ProcessLogLine is a loop without waits.
Spec == Init /\ [][Next]_vars /\ WF_vars(Step)
=============================================================================
