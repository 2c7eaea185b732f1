------------------------------ MODULE CodeGen ------------------------------
(***************************************************************************)
(* The code generator (internal/vm/codegen/codegen.go).  g has the fields  *)
(* of codegen and of its object; `addr` and `index` are what the code      *)
(* writes into symbols (Binding, Addr) and PatternExprs (Index).  c is the *)
(* checker's result.  Jump operands are labels until writeJumps.           *)
(***************************************************************************)
EXTENDS Checker

CONSTANT Inf   (* +Inf *)

Data == INSTANCE Datum

Instr(op, arg) == [op |-> op, arg |-> arg]

\* The operand nil; no instruction that may have none has this one.
NoArg == -1

NewCodeGen ==
  [prog |-> <<>>, l |-> <<>>, decos |-> <<>>, errors |-> {},
   metrics |-> <<>>, re |-> <<>>, str |-> <<>>, addr |-> <<>>, index |-> <<>>]

Emit(g, op, arg)  == [g EXCEPT !.prog = Append(@, Instr(op, arg))]
GenErr(g, e)      == [g EXCEPT !.errors = @ \cup {e}]
NewLabels(g, n)   == [g EXCEPT !.l = @ \o [i \in 1 .. n |-> -1]]
SetLabel(g, l)    == [g EXCEPT !.l[l + 1] = Len(g.prog)]
Push(g, k, v)     == Emit(g, "Push", Data!Val(k, v))

\* Overwrites the opcode of the last instruction.
Overwrite(g, op)  == [g EXCEPT !.prog[Len(g.prog)].op = op]
LastOp(g)         == g.prog[Len(g.prog)].op

TypeIs(c, t, base) == Equals(c.tv, t, base)

-----------------------------------------------------------------------------
(* Declarations. *)

Dtyp(c, n) ==
  LET t == TypeOf(c.symbols, n)
      v == IF IsDimension(t) THEN ValueType(t) ELSE t
  IN  CASE TypeIs(c, FloatT, v)   -> "Float"
        [] TypeIs(c, StringT, v)  -> "String"
        [] TypeIs(c, BucketsT, v) -> "Buckets"
        [] OTHER                  -> "Int"

Sorted(b) == Len(b) >= 2 /\ \A i \in 1 .. Len(b) - 1 : b[i] < b[i + 1]

Ranges(b) ==
  (IF b[1] > 0 THEN <<Data!Range(0, b[1])>> ELSE <<>>)
  \o [i \in 1 .. Len(b) - 1 |-> Data!Range(b[i], b[i + 1])]
  \o <<Data!Range(b[Len(b)], Inf)>>

\* Scalar counters start at zero at time zero; scalar histograms have a datum.
GenVarDecl(c, g, n) ==
  LET dtyp   == Dtyp(c, n)
      ranges == IF n.kind = "Histogram" THEN Ranges(n.buckets) ELSE <<>>
      scalar == n.keys = <<>>
      zero   == [Data!NewDatum(dtyp, ranges) EXCEPT !.time = 0]
      data   == IF scalar /\ n.kind \in {"Counter", "Histogram"} THEN (<<>> :> zero) ELSE <<>>
  IN  CASE scalar /\ n.kind = "Counter" /\ dtyp \notin {"Int", "Float"} -> GenErr(g, "zero")
        [] n.kind = "Histogram" /\ ~ Sorted(n.buckets) -> GenErr(g, "boundaries")
        [] OTHER ->
             [g EXCEPT !.metrics = Append(@, [kind |-> n.kind, type |-> dtyp, keys |-> Len(n.keys),
                                              ranges |-> ranges, data |-> data, expiry |-> <<>>]),
                       !.addr = @ @@ (n.sym :> Len(g.metrics))]

-----------------------------------------------------------------------------
(* Terms. *)

GenPattern(g, n) ==
  LET i == Len(g.re)
  IN  Emit([g EXCEPT !.re = Append(@, n.pattern), !.index = (n.id :> i) @@ @], "Match", i)

GenString(g, n) == Emit([g EXCEPT !.str = Append(@, n.text)], "Str", Len(g.str))

GenId(c, g, n) ==
  LET m    == g.addr[n.sym]
      g1   == Emit(Emit(g, "Mload", m), "Dload", g.metrics[m + 1].keys)
      t    == TypeOf(c.symbols, n)
      v    == IF IsDimension(t) THEN ValueType(t) ELSE t
  IN  CASE n.sym = 0 \/ c.symbols[n.sym].kind # "Var" -> g
        [] n.sym # 0 /\ c.symbols[n.sym].kind = "Var" /\ n.sym \notin DOMAIN g.addr -> GenErr(g, "no metric")
        [] OTHER -> CASE n.lvalue -> g1
                      [] ~ n.lvalue /\ TypeIs(c, v, FloatT)  -> Emit(g1, "Fget", NoArg)
                      [] ~ n.lvalue /\ TypeIs(c, v, IntT)    -> Emit(g1, "Iget", NoArg)
                      [] ~ n.lvalue /\ TypeIs(c, v, StringT) -> Emit(g1, "Sget", NoArg)
                      [] OTHER -> GenErr(g1, "get")

GenCapref(c, g, n) ==
  LET sym == c.symbols[n.sym]
      g1  == Emit(Push(g, "int", g.index[sym.binding]), "Capref", sym.addr)
  IN  CASE n.sym = 0 -> GenErr(g, "no regular expression")
        [] OTHER -> CASE TypeIs(c, sym.type, FloatT) -> Emit(g1, "S2f", NoArg)
                      [] TypeIs(c, sym.type, IntT)   -> Emit(g1, "S2i", NoArg)
                      [] OTHER                       -> g1

Conversions ==
  (<<"Int", "Float">> :> <<"I2f">>) @@ (<<"String", "Float">> :> <<"S2f">>)
  @@ (<<"String", "Int">> :> <<"S2i">>) @@ (<<"Float", "String">> :> <<"F2s">>)
  @@ (<<"Int", "String">> :> <<"I2s">>) @@ (<<"Pattern", "Bool">> :> <<>>)

EmitConversion(c, g, in, out) ==
  LET key == <<Root(c.tv, in).op, Root(c.tv, out).op>>
  IN  CASE key \in DOMAIN Conversions ->
             IF Conversions[key] = <<>> THEN g ELSE Emit(g, Conversions[key][1], NoArg)
        [] key \notin DOMAIN Conversions /\ Equals(c.tv, in, out) -> g
        [] OTHER -> GenErr(g, "conversion")

-----------------------------------------------------------------------------
(* Operators. *)

TypedOperators ==
  [ PLUS   |-> [Int |-> "Iadd", Float |-> "Fadd", String |-> "Cat"],
    MINUS  |-> [Int |-> "Isub", Float |-> "Fsub"],
    MUL    |-> [Int |-> "Imul", Float |-> "Fmul"],
    DIV    |-> [Int |-> "Idiv", Float |-> "Fdiv"],
    MOD    |-> [Int |-> "Imod", Float |-> "Fmod"],
    POW    |-> [Int |-> "Ipow", Float |-> "Fpow"],
    ASSIGN |-> [Int |-> "Iset", Float |-> "Fset", String |-> "Sset"] ]

EmitTyped(c, g, op, t) ==
  LET name == Root(c.tv, t).op
  IN  IF name \in DOMAIN TypedOperators[op] THEN Emit(g, TypedOperators[op][name], NoArg)
      ELSE GenErr(g, "no opcode")

\* <<operand of the comparison, jump when the result is false>>
Compares ==
  [ LT |-> <<-1, "Jnm">>, GT |-> <<1, "Jnm">>, LE |-> <<1, "Jm">>,
    GE |-> <<-1, "Jm">>, EQ |-> <<0, "Jnm">>, NE |-> <<0, "Jm">> ]

\* The typed comparison is chosen by the pointer to the type.
CmpOp(c, n) ==
  LET lT == TypeOf(c.symbols, n.lhs)
  IN  IF ~ Equals(c.tv, lT, TypeOf(c.symbols, n.rhs)) THEN "Cmp"
      ELSE CASE lT = FloatT  -> "Fcmp"
             [] lT = IntT    -> "Icmp"
             [] lT = StringT -> "Scmp"
             [] OTHER        -> "Cmp"

\* The tail shared by comparisons, AND and OR: push one value and jump over the
\* other, which is where `l` leads.
Choose(g, l, value) ==
  LET g1 == Emit(Push(g, "bool", value), "Jmp", l + 1)
      g2 == Push(SetLabel(g1, l), "bool", ~ value)
  IN  SetLabel(g2, l + 1)

GenCompare(c, g, n) ==
  LET l  == Len(g.l)
      g1 == Emit(NewLabels(g, 2), CmpOp(c, n), Compares[n.op][1])
  IN  Choose(Emit(g1, Compares[n.op][2], l), l, TRUE)

GenAddAssign(c, g, n) ==
  CASE TypeIs(c, n.typ, IntT) -> Emit(g, "Inc", 0)
    [] TypeIs(c, n.typ, FloatT) \/ TypeIs(c, n.typ, StringT) ->
         EmitTyped(c, EmitTyped(c, g, "PLUS", n.typ), "ASSIGN", n.typ)
    [] OTHER -> GenErr(g, "add-assignment")

BitOps == [BITAND |-> "And", BITOR |-> "Or", XOR |-> "Xor", SHL |-> "Shl", SHR |-> "Shr"]

AfterGenBinary(c, g, n) ==
  CASE n.op \in DOMAIN Compares       -> GenCompare(c, g, n)
    [] n.op = "ADD_ASSIGN"            -> GenAddAssign(c, g, n)
    [] n.op \in DOMAIN TypedOperators -> EmitTyped(c, g, n.op, n.typ)
    [] n.op \in DOMAIN BitOps         -> Emit(g, BitOps[n.op], NoArg)
    [] n.op \in {"MATCH", "NOT_MATCH"} ->
         LET g1 == Overwrite(g, "Smatch")
         IN  CASE LastOp(g) # "Match" -> GenErr(g, "not a match")
               [] LastOp(g) = "Match" /\ n.op = "MATCH" -> g1
               [] OTHER -> Emit(g1, "Not", NoArg)
    [] OTHER -> g    \* CONCAT

BuiltinOps ==
  [ getfilename |-> "Getfilename", len |-> "Length", settime |-> "Settime", strptime |-> "Strptime",
    strtol |-> "S2i", timestamp |-> "Timestamp", tolower |-> "Tolower" ]

AfterGenBuiltin(c, g, n) ==
  LET arglen == IF n.args = Nil THEN 0 ELSE Len(n.args.children)
  IN  CASE n.name = "bool" -> g
        [] n.name \in {"int", "float", "string"} ->
             IF arglen > 1 THEN GenErr(g, "arguments")
             ELSE EmitConversion(c, g, TypeOf(c.symbols, n.args.children[1]), n.typ)
        [] OTHER -> Emit(g, BuiltinOps[n.name], arglen)

UnaryOps == [INC |-> "Inc", DEC |-> "Dec", NOT |-> "Neg"]

-----------------------------------------------------------------------------
(* VisitBefore, the walk and VisitAfter. *)

RECURSIVE Gen(_, _, _)
RECURSIVE GenAll(_, _, _)
RECURSIVE GenKeys(_, _, _)

GenAll(c, g, list) ==
  IF list = <<>> THEN g ELSE GenAll(c, Gen(c, g, Head(list)), Tail(list))

\* The flag is not set after the truth branch.
BadGenCond(c, g, n) ==
  LET lElse == Len(g.l)
      lEnd  == Len(g.l) + 1
      g1 == Emit(Gen(c, NewLabels(g, 2), n.cond), "Jnm", lElse)
      g2 == Gen(c, Emit(g1, "Setmatched", FALSE), n.truth)
      g3 == IF n.else = Nil THEN SetLabel(g2, lElse)
            ELSE Gen(c, SetLabel(Emit(g2, "Jmp", lEnd), lElse), n.else)
  IN  SetLabel(g3, lEnd)

GenCond(c, g, n) ==
  LET lElse == Len(g.l)
      lEnd  == Len(g.l) + 1
      g1 == Emit(Gen(c, NewLabels(g, 2), n.cond), "Jnm", lElse)
      g2 == Gen(c, Emit(g1, "Setmatched", FALSE), n.truth)
      g3 == Emit(g2, "Setmatched", TRUE)
      g4 == IF n.else = Nil THEN SetLabel(g3, lElse)
            ELSE Gen(c, SetLabel(Emit(g3, "Jmp", lEnd), lElse), n.else)
  IN  SetLabel(g4, lEnd)

\* Each key is made a string.
GenKeys(c, g, args) ==
  IF args = <<>> THEN g
  ELSE LET g1 == Gen(c, g, Head(args))
           t  == TypeOf(c.symbols, Head(args))
           g2 == CASE TypeIs(c, t, FloatT) -> Emit(g1, "F2s", NoArg)
                   [] TypeIs(c, t, IntT)   -> Emit(g1, "I2s", NoArg)
                   [] OTHER                -> g1
       IN  GenKeys(c, g2, Tail(args))

\* The decorated block waits on the stack for the next of the declaration.
GenDeco(c, g, n) == Gen(c, [g EXCEPT !.decos = Append(@, n)], n.decl.block)

GenNext(c, g) ==
  LET top == Len(g.decos)
  IN  Gen(c, [g EXCEPT !.decos = SubSeq(@, 1, top - 1)], g.decos[top].block)

GenDel(c, g, n) ==
  LET g1 == Gen(c, IF n.expiry > 0 THEN Push(g, "dur", n.expiry) ELSE g, n.n)
  IN  Overwrite(g1, IF n.expiry > 0 THEN "Expire" ELSE "Del")

GenLogical(c, g, n) ==
  LET l    == Len(g.l)
      jump == IF n.op = "AND" THEN "Jnm" ELSE "Jm"
      g1   == Emit(Gen(c, NewLabels(g, 2), n.lhs), jump, l)
      g2   == Emit(Gen(c, g1, n.rhs), jump, l)
  IN  Choose(g2, l, n.op = "AND")

\* The left side is emitted once.
BadGenBinary(c, g, n) == AfterGenBinary(c, Gen(c, Gen(c, g, n.lhs), n.rhs), n)

\* The left side of += is emitted twice unless it is an integer.
GenBinary(c, g, n) ==
  LET twice == n.op = "ADD_ASSIGN" /\ ~ TypeIs(c, n.typ, IntT)
      g1    == IF twice THEN Gen(c, g, n.lhs) ELSE g
  IN  AfterGenBinary(c, Gen(c, Gen(c, g1, n.lhs), n.rhs), n)

Gen(c, g, n) ==
  CASE n.is \in {"StmtList", "ExprList"} -> GenAll(c, g, n.children)
    [] n.is = "VarDecl"      -> GenVarDecl(c, g, n)
    [] n.is = "CondStmt"     -> GenCond(c, g, n)
    [] n.is = "PatternExpr"  -> GenPattern(g, n)
    [] n.is = "StringLit"    -> GenString(g, n)
    [] n.is = "IntLit"       -> Push(g, "int64", n.i)
    [] n.is = "FloatLit"     -> Push(g, "float", n.f)
    [] n.is = "StopStmt"     -> Emit(g, "Stop", NoArg)
    [] n.is = "IdTerm"       -> GenId(c, g, n)
    [] n.is = "CaprefTerm"   -> GenCapref(c, g, n)
    [] n.is = "IndexedExpr"  -> Gen(c, GenKeys(c, g, n.index.children), n.lhs)
    [] n.is = "DecoStmt"     -> GenDeco(c, g, n)
    [] n.is = "NextStmt"     -> GenNext(c, g)
    [] n.is = "OtherwiseStmt" -> Emit(g, "Otherwise", NoArg)
    [] n.is = "DelStmt"      -> GenDel(c, g, n)
    [] n.is = "BinaryExpr"   -> IF n.op \in {"AND", "OR"} THEN GenLogical(c, g, n) ELSE GenBinary(c, g, n)
    [] n.is = "UnaryExpr"    -> Emit(Gen(c, g, n.expr), UnaryOps[n.op], NoArg)
    [] n.is = "BuiltinExpr"  -> AfterGenBuiltin(c, IF n.args = Nil THEN g ELSE Gen(c, g, n.args), n)
    [] n.is = "ConvExpr"     -> EmitConversion(c, Gen(c, g, n.n), TypeOf(c.symbols, n.n), n.typ)
    [] OTHER                 -> g    \* DecoDecl is inlined; fragments are not code

Jumps == {"Jmp", "Jm", "Jnm"}

WriteJumps(g) ==
  [g EXCEPT !.prog = [i \in DOMAIN g.prog |->
     IF g.prog[i].op \in Jumps THEN [g.prog[i] EXCEPT !.arg = g.l[@ + 1]] ELSE g.prog[i]]]

Object(c, n) == WriteJumps(Gen(c, NewCodeGen, n))

\* Compile: check, then generate code; no object if either finds an error.
Failed == [ok |-> FALSE]
Compile(n) ==
  LET checked == Check(n)
      obj     == Object(checked.c, checked.n)
  IN  IF checked.c.errors # {} THEN Failed
      ELSE IF obj.errors # {} THEN Failed ELSE [ok |-> TRUE, obj |-> obj, tv |-> checked.c.tv]
=============================================================================
