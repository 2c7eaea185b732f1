------------------------------ MODULE Language ------------------------------
(***************************************************************************)
(* What a program means: its checked tree evaluated directly, without a    *)
(* stack, jumps or labels.  The environment e has the metrics, the time    *)
(* register, whether a conditional of the current scope has matched, the   *)
(* capture groups of each pattern, the error that ends the line and the    *)
(* times parsed so far.  A value is [t, v] with its type t.                *)
(*                                                                         *)
(* Quirks are the ways in which the implementation departs from its        *)
(* documentation:                                                          *)
(*   else:   the else branch of a conditional has no `otherwise` of its    *)
(*           own;                                                          *)
(*   deco:   neither has a decorated block;                                *)
(*   memo:   a time is parsed once for all formats, and its failure is     *)
(*           reported once;                                                *)
(*   digits: strptime takes no digits and settime no text;                 *)
(*   assign: no conversion to the type of the variable on the left;        *)
(*   twice:  += evaluates the keys of its left side twice;                 *)
(*   numbers: strings are compared as numbers if the type was inferred and *)
(*           the left one is a number.                                     *)
(***************************************************************************)
EXTENDS VM

CONSTANT Quirks

Value(t, v) == [t |-> t, v |-> v]
Truth(b)    == Value("Bool", b)
None        == Value("None", 0)

Just(e, v)     == [e |-> e, x |-> v]
Halt(e, cause) == Just([e EXCEPT !.err = cause], None)
Stopped(e)     == e.err # ""

TypeName(c, n) == Root(c.tv, TypeOf(c.symbols, n)).op

\* Goes on with the value unless the line has ended.
Then(r, F(_, _)) == IF Stopped(r.e) THEN r ELSE F(r.e, r.x)

IsTrue(x) == IF x.t = "Bool" THEN x.v ELSE x.v # 0

\* A value as one of another type.
To(e, x, t) ==
  CASE x.t = t -> Just(e, x)
    [] x.t = "Int" /\ t = "Float"    -> Just(e, Value(t, Data!Halves(x.v)))
    [] x.t = "Int" /\ t = "String"   -> Just(e, Value(t, Data!Num(Data!Halves(x.v))))
    [] x.t = "Float" /\ t = "String" -> Just(e, Value(t, Data!Num(x.v)))
    [] x.t = "Float" /\ t = "Int"    -> Just(e, Value(t, Quo(x.v, 2)))
    [] x.t = "String" /\ t \in {"Int", "Float"} ->
         LET p == IF t = "Int" THEN ParseInt(x.v) ELSE ParseFloat(x.v)
         IN  IF p.ok THEN Just(e, Value(t, p.v)) ELSE Halt(e, p.cause)
    [] OTHER -> Just(e, x)

-----------------------------------------------------------------------------
(* Operators on values. *)

Ordered(op, x, y) ==
  LET Less(a, b) == IF x.t = "String" THEN Before(a, b) ELSE a < b
  IN  Truth(CASE op = "LT" -> Less(x.v, y.v)
              [] op = "GT" -> Less(y.v, x.v)
              [] op = "LE" -> ~ Less(y.v, x.v)
              [] op = "GE" -> ~ Less(x.v, y.v)
              [] op = "EQ" -> x.v = y.v
              [] op = "NE" -> x.v # y.v)

\* Unlike operands are compared as text if one is text, else as floats.
Common(x, y) == CASE x.t = y.t -> x.t [] "String" \in {x.t, y.t} -> "String" [] OTHER -> "Float"
Compared(e, op, x, y, inferred) ==
  IF "numbers" \in Quirks /\ inferred /\ {x.t, y.t} = {"String"} /\ IsNumber(x.v)
  THEN IF IsNumber(y.v) THEN Just(e, Ordered(op, Value("Float", x.v[2]), Value("Float", y.v[2])))
       ELSE Halt(e, "compare")
  ELSE Just(e, Ordered(op, To(e, x, Common(x, y)).x, To(e, y, Common(x, y)).x))

Operate(e, op, t, x, y) ==
  CASE t = "Int" /\ op \in {"DIV", "MOD"} /\ y.v = 0 -> Halt(e, "zero")
    [] t = "String" -> Just(e, Value(t, Concatenate(x.v, y.v)))
    [] t = "Float"  -> Just(e, Value(t, FloatOp(TypedOperators[op].Float, x.v, y.v)))
    [] OTHER        ->
         Just(e, Value("Int", IntOp(IF op \in DOMAIN BitOps THEN BitOps[op] ELSE TypedOperators[op].Int,
                                    x.v, y.v)))

Groups(e, pattern, id, text) ==
  LET g == Submatch(pattern, text)
  IN  Just([e EXCEPT !.caps = (id :> g) @@ @], Truth(g # <<>>))

\* strptime: with the quirk, a text parsed before keeps its time.
SetTime(e, text, layout) ==
  LET fresh == ParseTime(layout, text)
      known == SelectSeq(e.memos, LAMBDA m : m.text = text)
      tm    == IF "memo" \in Quirks /\ known # <<>> THEN known[1].time ELSE fresh
      all   == <<[text |-> text, time |-> tm]>> \o SelectSeq(e.memos, LAMBDA m : m.text # text)
      e1    == [e EXCEPT !.time = tm, !.memos = SubSeq(all, 1, IF Len(all) > MemoSize THEN MemoSize ELSE Len(all))]
      fails == tm = Data!ZeroTime /\ ("memo" \in Quirks => known = <<>>)
  IN  IF fails THEN Halt(e1, "time") ELSE Just(e1, None)

-----------------------------------------------------------------------------
(* Metrics.  A reference is <<metric, labels>>; reading makes the datum.    *)

Load(e, ref) ==
  LET m == e.m[ref[1] + 1]
  IN  [e EXCEPT !.m[ref[1] + 1].data = @ @@ (ref[2] :> Data!NewDatum(m.type, m.ranges))]
Held(e, ref) == e.m[ref[1] + 1].data[ref[2]]

Store(e, ref, x) ==
  LET d   == Held(e, ref)
      new == CASE x.t = "Int"   -> Data!SetInt(d, x.v, e.time)
               [] x.t = "Float" -> Data!SetFloat(d, x.v, e.time)
               [] OTHER         -> Data!SetString(d, x.v, e.time)
  IN  [e EXCEPT !.m[ref[1] + 1].data[ref[2]] = new]

\* The value is made one of the variable's type t.
AsOperand(e, x, t) ==
  IF "assign" \in Quirks /\ {x.t, t} = {"Int", "Float"} THEN Halt(e, "type") ELSE To(e, x, t)
Assign(e, ref, t, x) == Then(AsOperand(e, x, t), LAMBDA e1, y : Just(Store(e1, ref, y), None))

-----------------------------------------------------------------------------
(* Expressions. *)

RECURSIVE Eval(_, _, _)
RECURSIVE EvalKeys(_, _, _)
RECURSIVE Exec(_, _, _)
RECURSIVE ExecAll(_, _, _)

\* The labels that the keys of an index name, from the left.
EvalKeys(c, e, args) ==
  IF args = <<>> THEN Just(e, <<>>)
  ELSE Then(Eval(c, e, Head(args)), LAMBDA e1, x :
       Then(To(e1, x, "String"), LAMBDA e2, k :
       Then(EvalKeys(c, e2, Tail(args)), LAMBDA e3, ks : Just(e3, <<k.v>> \o ks))))

\* The variable that an expression names.
Locate(c, e, n, F(_, _)) ==
  LET id   == IF n.is = "IndexedExpr" THEN n.lhs ELSE n
      args == IF n.is = "IndexedExpr" THEN n.index.children ELSE <<>>
  IN  Then(EvalKeys(c, e, args), LAMBDA e1, ks : F(e1, <<e1.where[id.sym], ks>>))

\* A histogram has no value to read.
Read(e, ref) ==
  LET e1 == Load(e, ref)
      d  == Held(e1, ref)
  IN  IF d.type = "Buckets" THEN Halt(e1, "panic") ELSE Just(e1, Value(d.type, d.v))

EvalBuiltin(c, e, n) ==
  LET a == n.args.children
      Arg(F(_, _)) == Then(Eval(c, e, a[1]), F)
  IN  CASE n.name = "timestamp"   -> Just(e, Value("Int", Data!Stamp(e.time)))
        [] n.name = "getfilename" -> Just(e, Value("String", Data!Word("filename")))
        [] n.name \in {"int", "float", "string"} ->
             Arg(LAMBDA e1, x : To(e1, x, [int |-> "Int", float |-> "Float", string |-> "String"][n.name]))
        [] n.name = "len"     -> Arg(LAMBDA e1, x : Then(To(e1, x, "String"), LAMBDA e2, s :
                                     Just(e2, Value("Int", Length(s.v)))))
        [] n.name = "tolower" -> Arg(LAMBDA e1, x : Then(To(e1, x, "String"), LAMBDA e2, s :
                                     Just(e2, Value("String", Lower(s.v)))))
        [] n.name = "settime" -> Arg(LAMBDA e1, x : IF "digits" \in Quirks /\ x.t # "Int" THEN Halt(e1, "type")
                                     ELSE Then(To(e1, x, "Int"), LAMBDA e2, s :
                                          Just([e2 EXCEPT !.time = s.v], None)))
        [] n.name = "strptime" -> Arg(LAMBDA e1, x : Then(To(e1, x, "String"), LAMBDA e2, s :
                                     SetTime(e2, IF "digits" \in Quirks /\ x.t # "String" THEN Data!Word("") ELSE s.v,
                                             Data!Word(a[2].text))))
        [] n.name = "strtol" -> Arg(LAMBDA e1, x : Then(Eval(c, e1, a[2]), LAMBDA e2, base :
                                     Then(To(e2, x, "String"), LAMBDA e3, s :
                                     LET p == StrToInt(s.v, base.v)
                                     IN  IF p.ok THEN Just(e3, Value("Int", p.v)) ELSE Halt(e3, p.cause))))

EvalBinary(c, e, n) ==
  LET t == Root(c.tv, n.typ).op
      Operands(F(_, _, _)) == Then(Eval(c, e, n.lhs), LAMBDA e1, x :
                              Then(Eval(c, e1, n.rhs), LAMBDA e2, y : F(e2, x, y)))
  IN  CASE n.op = "AND" -> Then(Eval(c, e, n.lhs), LAMBDA e1, x :
                           IF ~ IsTrue(x) THEN Just(e1, Truth(FALSE))
                           ELSE Then(Eval(c, e1, n.rhs), LAMBDA e2, y : Just(e2, Truth(IsTrue(y)))))
        [] n.op = "OR"  -> Then(Eval(c, e, n.lhs), LAMBDA e1, x :
                           IF IsTrue(x) THEN Just(e1, Truth(TRUE))
                           ELSE Then(Eval(c, e1, n.rhs), LAMBDA e2, y : Just(e2, Truth(IsTrue(y)))))
        [] n.op \in {"MATCH", "NOT_MATCH"} ->
             Then(Eval(c, e, n.lhs), LAMBDA e1, x :
             Then(To(e1, x, "String"), LAMBDA e2, s :
             Then(Groups(e2, n.rhs.pattern, n.rhs.id, s.v), LAMBDA e3, y :
                  Just(e3, Truth(y.v = (n.op = "MATCH"))))))
        [] n.op = "ASSIGN" -> Locate(c, e, n.lhs, LAMBDA e1, ref :
                              Then(Eval(c, Load(e1, ref), n.rhs), LAMBDA e2, y : Assign(e2, ref, t, y)))
        [] n.op = "ADD_ASSIGN" ->
             Locate(c, e, n.lhs, LAMBDA e1, ref :
             Then(IF "twice" \in Quirks /\ t # "Int"
                  THEN Locate(c, Load(e1, ref), n.lhs, LAMBDA e2, again : Just(e2, again))
                  ELSE Just(Load(e1, ref), ref), LAMBDA e2, from :
             Then(Eval(c, Load(e2, from), n.rhs), LAMBDA e3, y :
             Then(AsOperand(e3, y, t), LAMBDA e4, z :
             Then(Read(e4, from), LAMBDA e5, x :
             Then(Operate(e5, "PLUS", t, x, z), LAMBDA e6, s : Just(Store(e6, ref, s), s)))))))
        [] n.op \in DOMAIN Compares ->
             Operands(LAMBDA e1, x, y : Compared(e1, n.op, x, y, CmpOp(c, n) = "Cmp"))
        [] OTHER ->
             Operands(LAMBDA e1, x, y :
             Then(To(e1, y, t), LAMBDA e2, y1 :
             Then(To(e2, x, t), LAMBDA e3, x1 : Operate(e3, n.op, t, x1, y1))))

Eval(c, e, n) ==
  CASE n.is = "IntLit"      -> Just(e, Value("Int", n.i))
    [] n.is = "FloatLit"    -> Just(e, Value("Float", n.f))
    [] n.is = "StringLit"   -> Just(e, Value("String", Data!Word(n.text)))
    [] n.is = "PatternExpr" -> Groups(e, n.pattern, n.id, e.input)
    [] n.is = "OtherwiseStmt" -> Just(e, Truth(~ e.matched))
    [] n.is = "CaprefTerm"  ->
         LET sym == c.symbols[n.sym]
             g   == IF sym.binding \in DOMAIN e.caps THEN e.caps[sym.binding] ELSE <<>>
             t   == Root(c.tv, sym.type).op
         IN  IF Len(g) <= sym.addr THEN Halt(e, "groups")
             ELSE To(e, Value("String", g[sym.addr + 1]), IF t \in {"Int", "Float"} THEN t ELSE "String")
    [] n.is \in {"IndexedExpr", "IdTerm"} -> Locate(c, e, n, Read)
    [] n.is = "ConvExpr"    -> Then(Eval(c, e, n.n), LAMBDA e1, x : To(e1, x, Root(c.tv, n.typ).op))
    [] n.is = "UnaryExpr" /\ n.op = "NOT" -> Then(Eval(c, e, n.expr), LAMBDA e1, x :
                               Then(To(e1, x, "Int"), LAMBDA e2, y : Just(e2, Value("Int", -y.v - 1))))
    [] n.is = "UnaryExpr" /\ n.op # "NOT" -> Locate(c, e, n.expr, LAMBDA e1, ref :
                               Then(Read(e1, ref), LAMBDA e2, x :
                               LET new == Value("Int", x.v + (IF n.op = "INC" THEN 1 ELSE -1))
                               IN  Just(Store(e2, ref, new), new)))
    [] n.is = "BuiltinExpr" -> EvalBuiltin(c, e, n)
    [] n.is = "BinaryExpr"  -> EvalBinary(c, e, n)

-----------------------------------------------------------------------------
(* Statements. *)

ExecAll(c, e, list) ==
  IF list = <<>> \/ Stopped(e) THEN e ELSE ExecAll(c, Exec(c, e, Head(list)), Tail(list))

\* A block has an `otherwise` of its own.
Block(c, e, n, quirk) ==
  IF quirk \in Quirks THEN Exec(c, e, n)
  ELSE [Exec(c, [e EXCEPT !.matched = FALSE], n) EXCEPT !.matched = e.matched]

Exec(c, e, n) ==
  CASE n.is = "StmtList" -> ExecAll(c, e, n.children)
    [] n.is = "CondStmt" ->
         LET r == Eval(c, e, n.cond)
             done == Exec(c, [r.e EXCEPT !.matched = FALSE], n.truth)
         IN  IF Stopped(r.e) THEN r.e
             ELSE IF IsTrue(r.x) THEN [done EXCEPT !.matched = TRUE]
             ELSE IF n.else = Nil THEN r.e ELSE Block(c, r.e, n.else, "else")
    [] n.is = "DecoStmt" -> Block(c, [e EXCEPT !.next = Append(@, n.block)], n.decl.block, "deco")
    [] n.is = "NextStmt" ->
         LET top == Len(e.next)
         IN  Block(c, [e EXCEPT !.next = SubSeq(@, 1, top - 1)], e.next[top], "deco")
    [] n.is = "StopStmt" -> [e EXCEPT !.err = "stop"]
    [] n.is = "DelStmt"  ->
         Locate(c, e, n.n, LAMBDA e1, ref :
           LET m == ref[1] + 1
           IN  CASE n.expiry = 0 -> Just([e1 EXCEPT !.m[m].data = Without(@, ref[2]),
                                                    !.m[m].expiry = Without(@, ref[2])], None)
                 [] n.expiry > 0 /\ ref[2] \in DOMAIN e1.m[m].data ->
                      Just([e1 EXCEPT !.m[m].expiry = (ref[2] :> n.expiry) @@ @], None)
                 [] OTHER -> Halt(e1, "expire")).e
    [] n.is \in {"BinaryExpr", "UnaryExpr", "BuiltinExpr", "IndexedExpr"} -> Eval(c, e, n).e
    [] OTHER -> e

\* What processing a line with these metrics and memos leads to.
Checked == [p \in Compiled |-> Check(Programs[p])]
Meaning(p, line, m, memos) ==
  Exec(Checked[p].c,
       [m |-> m, time |-> Data!ZeroTime, matched |-> FALSE, caps |-> <<>>, err |-> "",
        memos |-> memos, input |-> line, next |-> <<>>, where |-> Objects[p].obj.addr],
       Checked[p].n)

-----------------------------------------------------------------------------
VARIABLE before   \* the metrics and the memos when the line was read

Now      == [m |-> metrics, memos |-> timeMemos]
LInit    == Init /\ before = Now
ReadLine == (\E line \in Lines : ProcessLogLine(line)) /\ before' = Now
LStep    == Step /\ UNCHANGED before
LNext    == ReadLine \/ LStep
LSpec    == LInit /\ [][LNext]_<<vars, before>> /\ WF_<<vars, before>>(LStep)

-----------------------------------------------------------------------------
(* Properties. *)

\* The code generated for a program, run by the machine (codegen.go, vm.go), does
\* to the metrics, to the time and to the cache of times what the program
\* means, and ends a line early exactly when that does, for the same cause.
\* The one exception: a capture group of a decorator that is used again inside
\* its own block refers to the inner use, which may not have been reached.
Reused == \E i, j \in DOMAIN Obj.re : i # j /\ Obj.re[i] = Obj.re[j]
AsMeant ==
  [][running /\ ~ running' =>
       LET meant == Meaning(program, input, before.m, before.memos)
       IN  \/ /\ metrics' = meant.m /\ time' = meant.time /\ timeMemos' = meant.memos
              /\ told' = IF meant.err = "stop" THEN "" ELSE meant.err
           \/ told' = "groups" /\ Reused]_<<vars, before>>

\* What the checker lets pass does not go wrong in the machine: no instruction
\* finds too few values or a value of a type it cannot use, but for an Int and
\* a Float that meet in an assignment, text for settime (vm.go Settime), a number
\* and a word compared as text, and a histogram that is read (datum.GetInt
\* panics).  And compare (vm.go:282) is never given an integer and a string, the
\* one case in which it does not look at the value of the integer.
Histograms == {m \in DOMAIN metrics : metrics[m].type = "Buckets"}
WellTyped ==
  /\ running /\ pc < Len(Obj.prog) => Len(stack) >= Needs(I.op)
  /\ told # "keys"
  /\ told = "compare" => I.op = "Cmp" /\ Pop(2).k = "string" /\ Pop(1).k = "string"
  /\ told = "type" => I.op \in {"Iset", "Fset", "Inc", "Fadd", "Settime"}
  /\ told = "panic" => Histograms # {} /\ I.op \in {"Inc", "Iget", "Fget", "Fadd"}
  /\ running /\ pc < Len(Obj.prog) /\ I.op = "Cmp" => (Pop(1).k = "string" <=> Pop(2).k = "string")

\* Every line comes to its end: no program loops (codegen.go emits only jumps
\* forward), so no program keeps the others from their lines.
LineEnds == running ~> ~ running

=============================================================================
