------------------------------ MODULE Checker ------------------------------
(***************************************************************************)
(* The semantic check of a program (internal/vm/checker/checker.go): it    *)
(* resolves names, infers types, inserts conversions and evaluates         *)
(* patterns.  The checker's fields are those of the record c; Walk takes   *)
(* and returns it with the node, as ast.Walk does through pointers.        *)
(***************************************************************************)
EXTENDS Symtab, FiniteSets

CONSTANTS
  Regexp,     \* the regular expressions that parse: pattern -> [groups, names]
  Layouts,    \* the texts that are formats of a time
  MaxDepth,   \* 100 in the code
  MaxPattern  \* kMaxRegexpLen

NewChecker ==
  [scope |-> 0, decoScopes |-> <<>>, errors |-> {}, depth |-> 0, tooDeep |-> FALSE,
   scopes |-> <<>>, symbols |-> <<>>, tv |-> <<>>, patterns |-> 0]

Err(c, e)          == [c EXCEPT !.errors = @ \cup {e}]
Type(c, n)         == TypeOf(c.symbols, n)
SetType(n, t)      == [n EXCEPT !.typ = t]
AddSymbol(c, sym)  == [c EXCEPT !.symbols = Append(@, sym)]
Use(c, sym)        == [c EXCEPT !.symbols[sym].used = TRUE]
EnterScope(c) ==
  [c EXCEPT !.scopes = Append(@, NewScope(c.scope)), !.scope = Len(c.scopes) + 1]
PopScope(c)        == [c EXCEPT !.scope = c.scopes[c.scope].parent]

\* What a visit returns: the node, and whether its children are walked next.
Down(c, n) == [c |-> c, n |-> n, down |-> TRUE]
Up(c, n)   == [c |-> [c EXCEPT !.depth = @ - 1], n |-> n, down |-> FALSE]
Fail(c, n, e) == Up(Err(c, e), n)

-----------------------------------------------------------------------------
(* VisitBefore. *)

BeforeCapref(c, n) ==
  LET sym == Lookup(c.scopes, c.symbols, c.scope, n.name, "Capref")
  IN  CASE n.sym # 0            -> Down(c, n)
        [] n.sym = 0 /\ sym = 0 -> Fail(c, n, "capture group not defined")
        [] OTHER                -> Down(Use(c, sym), [n EXCEPT !.sym = sym])

\* A redeclared symbol is made and given to the node but not inserted.
Declare(c, sym) ==
  [AddSymbol(c, sym) EXCEPT !.scopes = Insert(@, c.scope, sym.name, Len(c.symbols) + 1)]

BeforeVarDecl(c, n) ==
  LET new   == Len(c.symbols) + 1
      decl  == [n EXCEPT !.sym = new]
      c1    == Declare(c, NewSymbol(n.name, "Var"))
      keyed == [i \in 1 .. Len(n.keys) |-> Unbound]
      tv1   == IF n.kind = "Text" THEN c.tv ELSE NewVariable(c.tv)
      rType == IF n.kind = "Text" THEN StringT ELSE Newest(tv1)
      type  == IF n.keys = <<>> THEN rType
               ELSE Dimension(Append([i \in 1 .. Len(n.keys) |-> Var(Len(tv1) + i)], rType))
  IN  CASE Taken(c.scopes, c.scope, n.name) -> Fail(c1, decl, "redeclaration")
        [] ~ Taken(c.scopes, c.scope, n.name) /\ n.buckets # <<>> /\ n.kind # "Histogram" ->
             Fail([c1 EXCEPT !.tv = tv1], decl, "buckets")
        [] OTHER -> Down([c1 EXCEPT !.tv = tv1 \o keyed, !.symbols[new].type = type], decl)

BeforeId(c, n) ==
  LET var == Lookup(c.scopes, c.symbols, c.scope, n.name, "Var")
      pat == Lookup(c.scopes, c.symbols, c.scope, n.name, "Pattern")
      sym == IF var # 0 THEN var ELSE pat
  IN  CASE n.sym # 0            -> Down(c, n)
        [] n.sym = 0 /\ sym = 0 -> Fail(c, n, "identifier not declared")
        [] OTHER                -> Down(Use(c, sym), [n EXCEPT !.sym = sym])

\* A scope without a parent holds the place of the decorator's scope.
BeforeDecoDecl(c, n) ==
  LET new  == Len(c.symbols) + 1
      decl == [n EXCEPT !.sym = new]
      c1   == Declare(c, [NewSymbol(n.name, "Deco") EXCEPT !.binding = decl])
  IN  IF Taken(c.scopes, c.scope, n.name) THEN Fail(c1, decl, "redeclaration")
      ELSE Down([c1 EXCEPT !.decoScopes = Append(@, Len(c.scopes) + 1),
                           !.scopes = Append(@, NewScope(0))], decl)

BeforeDecoStmt(c, n) ==
  LET sym  == Lookup(c.scopes, c.symbols, c.scope, n.name, "Deco")
      decl == c.symbols[sym].binding
      c1   == EnterScope(Use(c, sym))
  IN  CASE sym = 0                     -> Fail(c, n, "decorator not defined")
        [] sym # 0 /\ decl.scope = 0   ->
             Fail([c1 EXCEPT !.scope = c.scope], [n EXCEPT !.decl = decl], "decorator not complete")
        [] OTHER -> Down([c1 EXCEPT !.scopes = CopyFrom(@, c1.symbols, c1.scope, decl.scope)],
                         [n EXCEPT !.decl = decl])

BeforeFragment(c, n) ==
  LET new  == Len(c.symbols) + 1
      frag == [n EXCEPT !.sym = new]
      sym  == [NewSymbol(n.id.name, "Pattern") EXCEPT !.binding = frag, !.type = PatternT]
  IN  IF Taken(c.scopes, c.scope, n.id.name)
      THEN Fail(AddSymbol(c, NewSymbol(n.id.name, "Pattern")), frag, "redefinition")
      ELSE Down(Declare(c, sym), frag)

\* VisitBefore, with c.depth already counting the node; DelStmt is with Walk.
VisitBefore(c, n) ==
  CASE n.is \in {"StmtList", "CondStmt"} -> Down(EnterScope(c), n)
    [] n.is = "CaprefTerm"      -> BeforeCapref(c, n)
    [] n.is = "VarDecl"         -> BeforeVarDecl(c, n)
    [] n.is = "IdTerm"          -> BeforeId(c, n)
    [] n.is = "DecoDecl"        -> BeforeDecoDecl(c, n)
    [] n.is = "DecoStmt"        -> BeforeDecoStmt(c, n)
    [] n.is = "PatternFragment" -> BeforeFragment(c, n)
    [] OTHER                    -> Down(c, n)

TooDeep(c, n) ==
  [c |-> [Err(c, "too deep") EXCEPT !.tooDeep = TRUE], n |-> n, down |-> FALSE]

-----------------------------------------------------------------------------
(* VisitAfter.  Each operator returns [c, n].                              *)

Ret(c, n)         == [c |-> c, n |-> n]
Bad(c, n)         == Ret(c, SetType(n, ErrorT))        \* a type error left unsaid
BadErr(c, n, e)   == Bad(Err(c, e), n)

\* Symbols of the scope that nothing refers to; capture groups are only logged.
CheckSymbolUsage(c) ==
  LET syms   == c.scopes[c.scope].syms
      unused == {x \in DOMAIN syms : ~ c.symbols[syms[x]].used
                                     /\ c.symbols[syms[x]].kind # "Capref"}
  IN  IF unused = {} THEN c ELSE Err(c, "never used")

AfterCond(c, n) ==
  LET c1 == IF n.cond.is \in {"BinaryExpr", "PatternExpr", "PatternFragment", "OtherwiseStmt"}
            THEN c ELSE Err(c, "not a condition")
  IN  Ret(PopScope(CheckSymbolUsage(c1)), n)

AfterNext(c, n) ==
  LET last == Len(c.decoScopes)
      deco == c.decoScopes[last]
  IN  CASE last = 0 -> Ret(Err(c, "next outside"), n)
        [] last > 0 /\ c.scopes[deco].syms # <<>> -> Ret(Err(c, "next twice"), n)
        [] OTHER -> Ret([c EXCEPT !.scopes = CopyFrom(@, c.symbols, deco, c.scope)], n)

AfterDecoDecl(c, n) ==
  LET last == Len(c.decoScopes)
      deco == c.decoScopes[last]
      c1   == IF c.scopes[deco].syms = <<>> THEN Err(c, "no symbols in decorator") ELSE c
      decl == [n EXCEPT !.scope = deco]
  IN  Ret([c1 EXCEPT !.decoScopes = SubSeq(@, 1, last - 1),
                     !.symbols[n.sym].binding = decl], decl)

\* Wraps an operand whose type is not the type of the operation.
Promote(c, e, t) == IF Equals(c.tv, t, Type(c, e)) THEN e ELSE ConvExpr(e, t)

Arithmetic(c, n, lT, rT) ==
  LET rType == LeastUpperBound(c.tv, lT, rT)
      tv1   == NewVariable(c.tv)
      t     == Newest(tv1)
      u     == Unify(tv1, Function(<<t, t, t>>), Function(<<lT, rT, rType>>))
      c1    == [c EXCEPT !.tv = u.tv]
      rhs   == Promote(c1, n.rhs, rType)
  IN  CASE IsErrorType(rType) -> BadErr(c, n, "no common type")
        [] ~ IsErrorType(rType) /\ ~ u.ok -> Bad(c1, n)
        [] ~ IsErrorType(rType) /\ u.ok /\ n.op \in {"DIV", "MOD"} /\ rhs.is = "IntLit" /\ rhs.i = 0 ->
             BadErr(c1, n, "divide by zero")
        [] OTHER -> Ret(c1, [n EXCEPT !.lhs = Promote(c1, n.lhs, rType), !.rhs = rhs, !.typ = rType])

Bitwise(c, n, lT, rT) ==
  LET tv1 == NewVariable(c.tv)
      u   == Unify(tv1, Function(<<IntT, IntT, IntT>>), Function(<<lT, rT, Newest(tv1)>>))
      c1  == [c EXCEPT !.tv = u.tv]
  IN  IF u.ok THEN Ret(c1, SetType(n, IntT)) ELSE BadErr(c1, n, "integers expected")

Comparison(c, n, lT, rT) ==
  LET t  == LeastUpperBound(c.tv, lT, rT)
      u  == Unify(c.tv, Function(<<t, t, BoolT>>), Function(<<lT, rT, BoolT>>))
      c1 == [c EXCEPT !.tv = u.tv]
  IN  CASE IsErrorType(t)            -> BadErr(c, n, "cannot compare")
        [] ~ IsErrorType(t) /\ ~ u.ok -> Bad(c1, n)
        [] OTHER -> Ret(c1, [n EXCEPT !.lhs = Promote(c1, n.lhs, t), !.rhs = Promote(c1, n.rhs, t),
                                      !.typ = BoolT])

\* Marks the identifier of a variable as the left side of an assignment.
IsVariable(e) == e.is \in {"IdTerm", "IndexedExpr"}
Lvalue(e)     == IF e.is = "IdTerm" THEN [e EXCEPT !.lvalue = TRUE]
                 ELSE [e EXCEPT !.lhs.lvalue = TRUE]

\* No conversion is inserted on the right.
Assignment(c, n, lT, rT) ==
  LET u  == Unify(c.tv, lT, LeastUpperBound(c.tv, lT, rT))
      c1 == [c EXCEPT !.tv = u.tv]
  IN  CASE ~ u.ok                          -> Bad(c1, n)
        [] u.ok /\ ~ IsVariable(n.lhs)     -> BadErr(c1, n, "cannot assign")
        [] OTHER -> Ret(c1, [n EXCEPT !.lhs = Lvalue(@), !.typ = lT])

Concat(c, n, lT, rT) ==
  LET tv1 == NewVariable(c.tv)
      u   == Unify(tv1, Function(<<PatternT, PatternT, PatternT>>), Function(<<lT, rT, Newest(tv1)>>))
      c1  == [c EXCEPT !.tv = u.tv]
  IN  IF u.ok THEN Ret(c1, SetType(n, PatternT)) ELSE Bad(c1, n)

AfterUnary(c, n) ==
  LET t  == Type(c, n.expr)
      u  == Unify(c.tv, IntT, t)
      c1 == [c EXCEPT !.tv = u.tv]
      e  == IF IsVariable(n.expr) THEN [n EXCEPT !.expr = Lvalue(@)] ELSE n
  IN  CASE IsErrorType(t) -> Bad(c, n)
        [] ~ IsErrorType(t) /\ n.op = "NOT" -> IF u.ok THEN Ret(c1, SetType(n, IntT)) ELSE Bad(c1, n)
        [] ~ IsErrorType(t) /\ n.op # "NOT" /\ ~ IsVariable(n.expr) -> BadErr(c, n, "variable expected")
        [] OTHER -> IF u.ok /\ Equals(u.tv, t, IntT) THEN Ret(c1, SetType(e, IntT))
                    ELSE BadErr(c1, e, "Int expected")

Types(c, list)    == [i \in DOMAIN list |-> Type(c, list[i])]
AnyError(types)   == \E i \in DOMAIN types : IsErrorType(types[i])

AfterExprList(c, n) ==
  LET ts == Types(c, n.children)
  IN  IF AnyError(ts) THEN Bad(c, n) ELSE Ret(c, SetType(n, Dimension(ts)))

\* An identifier that turns out to be a pattern is rewritten by Walk.
AfterIndexed(c, n) ==
  LET ts  == Types(c, n.index.children)
      lT  == Type(c, n.lhs)
      tv1 == NewVariable(c.tv)
      u   == Unify(tv1, lT, Dimension(Append(ts, Newest(tv1))))
      c1  == [c EXCEPT !.tv = u.tv]
      dim == IsDimension(lT)
  IN  CASE AnyError(ts) \/ n.lhs.sym = 0 -> Bad(c, n)
        [] ~ AnyError(ts) /\ n.lhs.sym # 0 /\ ~ dim /\ ts # <<>> -> BadErr(c, n, "not indexable")
        [] ~ AnyError(ts) /\ n.lhs.sym # 0 /\ ~ dim /\ ts = <<>> -> Ret(c, SetType(n, lT))
        [] OTHER -> IF u.ok THEN Ret(c1, SetType(n, Newest(tv1))) ELSE BadErr(c1, n, "keys")

AfterBuiltin(c, n) ==
  LET args  == IF n.args = Nil THEN <<>> ELSE n.args.children
      tv1   == NewVariable(c.tv)
      fn    == Append(Types(c, args), Newest(tv1))
      fresh == FreshType(tv1, Builtins[n.name])
      u     == Unify(fresh.tv, fresh.t, Function(fn))
      c1    == [c EXCEPT !.tv = u.tv]
      typed == SetType(n, Newest(tv1))
      text(i) == Equals(u.tv, fn[i], StringT)
  IN  CASE ~ u.ok -> BadErr(c1, n, "call")
        [] u.ok /\ n.name = "strptime" ->
             CASE ~ text(2) -> BadErr(c1, n, "format string expected")
               [] text(2) /\ args[2].is # "StringLit" -> Ret(Err(c1, "not a literal"), typed)
               [] OTHER -> IF args[2].text \in Layouts THEN Ret(c1, typed)
                           ELSE BadErr(c1, n, "time format")
        [] u.ok /\ n.name = "tolower" /\ ~ text(1) -> BadErr(c1, n, "String expected")
        [] OTHER -> Ret(c1, typed)

-----------------------------------------------------------------------------
(* Patterns. *)

\* The fields in the order Walk visits them; DelStmt's is walked by VisitBefore.
Children(n) ==
  CASE n.is = "CondStmt"    -> IF n.else = Nil THEN <<"cond", "truth">> ELSE <<"cond", "truth", "else">>
    [] n.is = "BuiltinExpr" -> IF n.args = Nil THEN <<>> ELSE <<"args">>
    [] n.is = "BinaryExpr"  -> <<"lhs", "rhs">>
    [] n.is = "IndexedExpr" -> <<"index", "lhs">>
    [] n.is \in {"DecoDecl", "DecoStmt"} -> <<"block">>
    [] n.is \in {"UnaryExpr", "PatternExpr", "PatternFragment"} -> <<"expr">>
    [] n.is \in {"ConvExpr", "DelStmt"}  -> <<"n">>
    [] OTHER -> <<>>

\* patternEvaluator: the concatenation of the fragments, and the errors met.
RECURSIVE Evaluate(_, _)
RECURSIVE EvaluateAll(_, _)
EvaluateAll(c, list) ==
  IF list = <<>> THEN [pattern |-> <<>>, errors |-> {}]
  ELSE LET a == Evaluate(c, Head(list))
           b == EvaluateAll(c, Tail(list))
       IN  [pattern |-> a.pattern \o b.pattern, errors |-> a.errors \cup b.errors]

Evaluate(c, e) ==
  LET Just(p)   == [pattern |-> p, errors |-> {}]
      Sorry(er) == [pattern |-> <<>>, errors |-> {er}]
      frag      == c.symbols[e.sym].binding
  IN  CASE e.is = "PatternLit" -> Just(<<e.pattern>>)
        [] e.is = "StringLit"  -> Just(<<e.text>>)
        [] e.is = "IntLit"     -> Just(<<e.i>>)
        [] e.is = "FloatLit"   -> Just(<<e.f>>)
        [] e.is = "ExprList"   -> EvaluateAll(c, e.children)
        [] e.is = "BinaryExpr" /\ e.op # "CONCAT" -> Sorry("invalid operator")
        [] e.is = "IdTerm"     ->
             CASE e.sym = 0 -> Just(<<>>)
               [] e.sym # 0 /\ frag.is # "PatternFragment" -> Sorry("cannot append")
               [] OTHER -> [pattern |-> frag.pattern,
                            errors |-> IF frag.pattern = <<>> THEN {"defined later"} ELSE {}]
        [] OTHER -> EvaluateAll(c, [i \in DOMAIN Children(e) |-> e[Children(e)[i]]])

\* checkRegex declares the capture groups: by number and, if they have one, by
\* name.  A name that is taken is not reported; a number is.
RECURSIVE DeclareGroups(_, _, _, _)
DeclareGroups(c, re, id, i) ==
  IF i > Len(re.groups) THEN c
  ELSE LET name == IF i = 0 THEN "" ELSE re.names[i]
           num  == ToString(i)
           new  == Len(c.symbols) + 1
           sym  == [NewSymbol(IF name = "" THEN num ELSE name, "Capref") EXCEPT
                      !.type = InferCaprefType(c.tv, re.groups, i), !.binding = id, !.addr = i]
           c1   == IF Taken(c.scopes, c.scope, num) THEN Err(c, "redeclaration") ELSE c
           s1   == Insert(c.scopes, c.scope, num, new)
           s2   == IF name = "" THEN s1 ELSE Insert(s1, c.scope, name, new)
       IN  DeclareGroups([AddSymbol(c1, sym) EXCEPT !.scopes = s2], re, id, i + 1)

CheckRegex(c, pattern, id) ==
  CASE Len(pattern) > MaxPattern -> Err(c, "pattern too long")
    [] Len(pattern) <= MaxPattern /\ pattern \notin DOMAIN Regexp -> Err(c, "regular expression")
    [] OTHER -> DeclareGroups(c, Regexp[pattern], id, 0)

AfterPattern(c, n) ==
  LET p  == Evaluate(c, n.expr)
      id == c.patterns + 1
      c1 == [c EXCEPT !.errors = @ \cup p.errors, !.patterns = id]
  IN  IF p.pattern = <<>> THEN Ret(c1, [n EXCEPT !.id = id])
      ELSE Ret(CheckRegex(c1, p.pattern, id), [n EXCEPT !.pattern = p.pattern, !.id = id])

AfterFragment(c, n) ==
  LET p    == Evaluate(c, n.expr)
      frag == [n EXCEPT !.pattern = p.pattern]
  IN  Ret([c EXCEPT !.errors = @ \cup p.errors, !.symbols[n.sym].binding = frag], frag)

AfterDel(c, n) ==
  IF n.n.is = "IndexedExpr" /\ n.n.index.children # <<>>
  THEN Ret(c, [n EXCEPT !.n.lhs.lvalue = TRUE]) ELSE Ret(Err(c, "cannot delete"), n)

AfterBinary(c, n) ==
  LET lT == Type(c, n.lhs)
      rT == Type(c, n.rhs)
  IN  CASE IsErrorType(lT) \/ IsErrorType(rT) -> Bad(c, n)
        [] OTHER ->
             CASE n.op \in {"DIV", "MOD", "MUL", "MINUS", "PLUS", "POW"} -> Arithmetic(c, n, lT, rT)
               [] n.op \in {"SHL", "SHR", "BITAND", "BITOR", "XOR"}      -> Bitwise(c, n, lT, rT)
               [] n.op \in {"LT", "GT", "LE", "GE", "EQ", "NE", "AND", "OR"} -> Comparison(c, n, lT, rT)
               [] n.op \in {"ASSIGN", "ADD_ASSIGN"}                      -> Assignment(c, n, lT, rT)
               [] OTHER                                                  -> Concat(c, n, lT, rT)

VisitAfter(c, n) ==
  CASE n.is = "StmtList"        -> Ret(PopScope(CheckSymbolUsage(c)), n)
    [] n.is = "CondStmt"        -> AfterCond(c, n)
    [] n.is = "DecoStmt"        -> Ret(PopScope(c), n)
    [] n.is = "NextStmt"        -> AfterNext(c, n)
    [] n.is = "DecoDecl"        -> AfterDecoDecl(c, n)
    [] n.is = "BinaryExpr"      -> AfterBinary(c, n)
    [] n.is = "UnaryExpr"       -> AfterUnary(c, n)
    [] n.is = "ExprList"        -> AfterExprList(c, n)
    [] n.is = "IndexedExpr"     -> AfterIndexed(c, n)
    [] n.is = "BuiltinExpr"     -> AfterBuiltin(c, n)
    [] n.is = "PatternExpr"     -> AfterPattern(c, n)
    [] n.is = "PatternFragment" -> AfterFragment(c, n)
    [] n.is = "DelStmt"         -> AfterDel(c, n)
    [] OTHER                    -> Ret(c, n)

-----------------------------------------------------------------------------
(* ast.Walk, for the checker. *)

RECURSIVE Walk(_, _)
RECURSIVE WalkFields(_, _, _)
RECURSIVE WalkList(_, _, _)

WalkFields(c, n, fields) ==
  IF fields = <<>> THEN Ret(c, n)
  ELSE LET w == Walk(c, n[Head(fields)])
       IN  WalkFields(w.c, [n EXCEPT ![Head(fields)] = w.n], Tail(fields))

WalkList(c, list, done) ==
  IF list = <<>> THEN [c |-> c, list |-> done]
  ELSE LET w == Walk(c, Head(list)) IN WalkList(w.c, Tail(list), Append(done, w.n))

\* Two visits end in another walk: of a name that is a pattern, and of what is
\* to the right of =~ when it is not a pattern yet.
IsPatternName(c, n) ==
  n.is = "IndexedExpr" /\ n.lhs.is = "IdTerm" /\ n.lhs.sym # 0
  /\ ~ AnyError(Types(c, n.index.children)) /\ Type(c, n.lhs) = PatternT

AfterMatch(c, n) ==
  LET tv1 == NewVariable(NewVariable(c.tv))
      u   == Unify(tv1, Function(<<Var(Len(tv1) - 1), PatternT, BoolT>>),
                        Function(<<Type(c, n.lhs), Type(c, n.rhs), Newest(tv1)>>))
      c1  == [c EXCEPT !.tv = u.tv]
      w   == Walk(c1, PatternExpr(n.rhs))
  IN  CASE IsErrorType(Type(c, n.lhs)) \/ IsErrorType(Type(c, n.rhs)) -> Bad(c, n)
        [] OTHER ->
             CASE ~ u.ok -> BadErr(c1, n, "=~")
               [] u.ok /\ Equals(u.tv, Type(c1, n.rhs), PatternT) -> Ret(c1, SetType(n, BoolT))
               [] OTHER -> Ret(w.c, [n EXCEPT !.rhs = w.n, !.typ = BoolT])

Walk(c0, n0) ==
  LET c == [c0 EXCEPT !.depth = @ + 1]
      b == VisitBefore(c, n0)
      w == IF b.n.is \in {"StmtList", "ExprList"}
           THEN LET l == WalkList(b.c, b.n.children, <<>>) IN Ret(l.c, [b.n EXCEPT !.children = l.list])
           ELSE WalkFields(b.c, b.n, Children(b.n))
      a == CASE IsPatternName(w.c, w.n)  -> Walk(w.c, PatternExpr(w.n.lhs))
             [] w.n.is = "BinaryExpr" /\ w.n.op \in {"MATCH", "NOT_MATCH"} -> AfterMatch(w.c, w.n)
             [] OTHER -> VisitAfter(w.c, w.n)
  IN  CASE c.depth > MaxDepth -> TooDeep(c0, n0)
        [] c.depth <= MaxDepth /\ ~ b.down -> Ret(b.c, b.n)
        [] OTHER -> IF w.c.tooDeep THEN w
                    ELSE Ret([a.c EXCEPT !.depth = @ - 1], a.n)

\* Check: the annotated tree and the checker's tables.
Check(n) == Walk(NewChecker, n)
=============================================================================
