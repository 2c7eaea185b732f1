----------------------------- MODULE MCLanguage -----------------------------
(***************************************************************************)
(* Families of small programs, each named by the tuple that describes it,  *)
(* and the tables of regular expressions, times and texts they use.        *)
(***************************************************************************)
EXTENDS Language

\* What the machines run.  The LET keeps TLC's statistics out of the compiler,
\* which is evaluated once.
Compilations == [p \in DOMAIN Programs |-> Compile(Programs[p])]
MCObjects == LET objects == Compilations IN objects

\* Texts: the numbers 7, 12 and 1.5, and words.
Seven == Data!Num(14)
Twelve == Data!Num(24)
OneAndHalf == Data!Num(3)
W(w) == Data!Word(w)
MCLines == {W("a"), W("b"), W("ab"), Seven, OneAndHalf}

\* Regular expressions: /a/, /b/, /(\d+)/, /(\d+\.\d+)/, /(?P<w>\S+)/, /a(\d*)/.
Rune(op, runes)  == [op |-> op, runes |-> runes, sub |-> <<>>]
Node(op, sub)    == [op |-> op, runes |-> {}, sub |-> sub]
Digit   == Rune("CharClass", Digits)
DigitsP == Node("Plus", <<Digit>>)
NoGroup == [groups |-> <<>>, names |-> <<>>]
OneGroup(g, name) == [groups |-> <<g>>, names |-> <<name>>]
MCRegexp ==
  (<<"a">> :> NoGroup) @@ (<<"b">> :> NoGroup)
  @@ (<<"int">> :> OneGroup(DigitsP, ""))
  @@ (<<"flt">> :> OneGroup(Node("Concat", <<DigitsP, Rune("Literal", {"."}), DigitsP>>), ""))
  @@ (<<"word">> :> OneGroup(Node("Plus", <<Rune("CharClass", Digits \cup {"a", "b"})>>), "w"))
  @@ (<<"opt">> :> OneGroup(Node("Star", <<Digit>>), ""))
  @@ (<<"int", "a">> :> OneGroup(DigitsP, ""))

HasA == {W("a"), W("ab"), W("aB")}
HasB == {W("b"), W("ab")}
MCSubmatch(p, s) ==
  CASE p = <<"a">>   /\ s \in HasA -> <<W("a")>>
    [] p = <<"b">>   /\ s \in HasB -> <<W("b")>>
    [] p = <<"int">> /\ s = Seven  -> <<s, s>>
    [] p = <<"flt">> /\ s = OneAndHalf -> <<s, s>>
    [] p = <<"word">> /\ s # W("") -> <<s, s>>
    [] p = <<"opt">> /\ s \in HasA -> <<W("a"), W("")>>
    [] OTHER -> <<>>

MCLayouts == {"L1", "L2"}
MCParseLayout(layout, s) ==
  CASE layout = W("L1") /\ s = Seven  -> <<[time |-> 7, yearless |-> FALSE]>>
    [] layout = W("L2") /\ s = Seven  -> <<[time |-> 70, yearless |-> TRUE]>>
    [] layout = W("L2") /\ s = W("a") -> <<[time |-> 3, yearless |-> TRUE]>>
    [] OTHER -> <<>>

Order == <<W(""), OneAndHalf, Twelve, Data!Num(4), Seven, W("a"), W("ab"), W("b")>>
Place(s) == LET at == {i \in DOMAIN Order : Order[i] = s} IN IF at = {} THEN 9 ELSE CHOOSE i \in at : TRUE
MCBefore(s, t) == Place(s) < Place(t)
MCLower(s)     == IF s = W("ab") THEN W("b") ELSE s
MCLength(s)    == IF s = OneAndHalf THEN 3 ELSE IF s \in {W("ab"), Twelve} THEN 2 ELSE 1
MCNumeral(s, base) ==
  CASE base = 16 /\ s = W("a") -> <<10>> [] base = 16 /\ s = Seven -> <<7>> [] OTHER -> <<>>

-----------------------------------------------------------------------------
(* Abbreviations for trees. *)

Decl(name, kind)   == VarDecl(name, kind, <<>>, <<>>)
By(name, kind)     == VarDecl(name, kind, <<"k">>, <<>>)
Prog(decls, stmts) == StmtList(decls \o stmts)
Inc(name)          == UnaryExpr("INC", Id(name))
Counters(names)    == [i \in DOMAIN names |-> Decl(names[i], "Counter")]
Bin(l, op, r)      == BinaryExpr(op, l, r)
When(cond, stmts)  == CondStmt(cond, StmtList(stmts), Nil)
Otherwise(stmts)   == When(OtherwiseStmt, stmts)
A == Match("a")
B == Match("b")
One1 == CaprefTerm("1")

\* Nested conditionals with else and otherwise, and stop.
Stmts ==
  [ inc |-> Inc("x"), a |-> When(A, <<Inc("x")>>), b |-> When(B, <<Inc("x")>>),
    other |-> Otherwise(<<Inc("x")>>), stop |-> StopStmt,
    ab |-> When(A, <<When(B, <<Inc("y")>>), Otherwise(<<Inc("x")>>)>>) ]
Control(k) ==
  Prog(Counters(<<"x", "y">>),
       <<CondStmt(A, StmtList(<<Stmts[k[2]]>>), StmtList(<<Stmts[k[3]]>>)), Stmts[k[4]], Inc("y"), Inc("x")>>)
ControlKeys == {<<"control", p, q, r>> : p \in {"ab", "other", "stop"}, q \in {"inc", "b", "other"},
                                         r \in {"a", "b", "other", "ab"}}

\* Logical operators, with a pattern on one side.
Conds == [ pat |-> A, zero |-> Bin(Id("x"), "EQ", IntLit(0)), big |-> Bin(Id("x"), "GT", IntLit(1)),
           not |-> Bin(StringLit("b"), "NOT_MATCH", B) ]
Logical(k) ==
  Prog(Counters(<<"x", "y">>),
       <<CondStmt(Bin(Conds[k[2]], k[3], Conds[k[4]]), StmtList(<<Inc("x")>>), StmtList(<<Inc("y")>>))>>)
LogicalKeys == {<<"logical", p, op, q>> : p \in DOMAIN Conds, op \in {"AND", "OR"}, q \in DOMAIN Conds}

\* Operands in a block of a pattern with one group.
Terms == [ two |-> IntLit(2), half |-> FloatLit(3), text |-> StringLit("a"), cap |-> One1,
           lower |-> Call("tolower", <<One1>>), var |-> Id("x"), zero |-> IntLit(0) ]
Groups1 == [int |-> Match("int"), flt |-> Match("flt"), word |-> Match("word"), opt |-> Match("opt")]

Arith(k) ==
  Prog(<<Decl("g", k[2])>>,
       <<When(Groups1[k[3]], <<Bin(Id("g"), k[4], Bin(Terms[k[5]], k[6], Terms[k[7]]))>>)>>)
ArithKeys == {<<"arith", kind, p, set, a, op, b>> :
                kind \in {"Gauge", "Text"}, p \in {"int", "flt", "word"}, set \in {"ASSIGN", "ADD_ASSIGN"},
                a \in {"cap", "half"}, op \in {"PLUS", "DIV"}, b \in {"two", "cap", "text", "zero"}}
BitKeys == {<<"arith", "Gauge", p, "ASSIGN", a, op, b>> :
                p \in {"int", "opt"}, a \in {"cap"}, b \in {"two", "cap"},
                op \in {"MINUS", "MUL", "MOD", "POW", "SHL", "SHR", "BITAND", "BITOR", "XOR"}}
FloatKeys == {<<"arith", "Gauge", "flt", "ASSIGN", "cap", op, "half">> : op \in {"MINUS", "MUL", "MOD", "POW"}}

\* A variable that is given two values.
Twice(k) ==
  Prog(<<Decl("g", k[2])>>,
       <<When(Groups1[k[3]], <<Bin(Id("g"), k[4], Terms[k[5]]), Bin(Id("g"), k[6], Terms[k[7]])>>)>>)
TwiceKeys == {<<"twice", kind, p, s1, a, s2, b>> :
                kind \in {"Gauge", "Text", "Counter"}, p \in {"int", "word"}, s1 \in {"ASSIGN", "ADD_ASSIGN"},
                s2 \in {"ASSIGN", "ADD_ASSIGN"}, a \in {"two", "half", "cap"}, b \in {"two", "half", "cap", "text"}}

Compare6(k) ==
  Prog(Counters(<<"x">>), <<When(Groups1[k[2]], <<When(Bin(Terms[k[3]], k[4], Terms[k[5]]), <<Inc("x")>>)>>)>>)
CompareKeys == {<<"compare", p, a, op, b>> :
                p \in {"int", "flt", "word"}, a \in {"cap", "lower", "var"}, b \in {"two", "half", "text", "cap"},
                op \in {"LT", "LE", "EQ", "NE", "GE", "GT"}}

\* Single programs.
Keyed(name, e) == Indexed(name, <<e>>)
Singles ==
  [ keys    |-> Prog(<<By("x", "Counter")>>, <<When(Match("word"), <<UnaryExpr("INC", Keyed("x", CaprefTerm("w")))>>)>>),
    del     |-> Prog(<<By("x", "Counter")>>,
                     <<When(Match("word"), <<UnaryExpr("INC", Keyed("x", One1)),
                                             When(B, <<DelStmt(Keyed("x", One1), 0)>>)>>)>>),
    expire  |-> Prog(<<By("x", "Gauge")>>,
                     <<When(Match("word"), <<When(A, <<Bin(Keyed("x", One1), "ASSIGN", IntLit(2))>>),
                                             DelStmt(Keyed("x", One1), 5)>>)>>),
    sideeff |-> Prog(<<By("x", "Gauge"), Decl("y", "Counter")>>,
                     <<Bin(Keyed("x", UnaryExpr("INC", Id("y"))), "ADD_ASSIGN", FloatLit(3))>>),
    times   |-> Prog(<<Decl("x", "Counter")>>,
                     <<When(Match("word"), <<Call("strptime", <<One1, StringLit("L1")>>), Inc("x")>>)>>),
    layouts |-> Prog(<<Decl("x", "Counter"), Decl("g", "Gauge")>>,
                     <<When(Match("word"), <<Call("strptime", <<One1, StringLit("L2")>>),
                                             Bin(Id("g"), "ASSIGN", Call("timestamp", <<>>)),
                                             Call("strptime", <<One1, StringLit("L1")>>), Inc("x")>>)>>),
    digits  |-> Prog(<<Decl("x", "Counter")>>,
                     <<When(Match("int"), <<Call("strptime", <<One1, StringLit("L1")>>), Inc("x")>>)>>),
    settime |-> Prog(<<Decl("x", "Counter"), Decl("g", "Gauge")>>,
                     <<Bin(Id("g"), "ASSIGN", Call("timestamp", <<>>)),
                       When(Match("int"), <<Call("settime", <<One1>>), Inc("x")>>),
                       When(Match("word"), <<Call("settime", <<One1>>), Inc("x")>>)>>),
    deco    |-> Prog(<<Decl("x", "Counter"), By("y", "Counter"),
                       DecoDecl("d", StmtList(<<When(Match("word"), <<Inc("x"), NextStmt>>)>>))>>,
                     <<DecoStmt("d", StmtList(<<When(A, <<UnaryExpr("INC", Keyed("y", CaprefTerm("w")))>>),
                                                Otherwise(<<Inc("x")>>)>>))>>),
    redeco  |-> Prog(<<Decl("x", "Counter"), By("y", "Counter"),
                       DecoDecl("d", StmtList(<<When(Match("word"), <<Inc("x"), NextStmt>>)>>))>>,
                     <<DecoStmt("d", StmtList(<<When(A, <<DecoStmt("d", StmtList(<<Inc("x")>>))>>),
                                                UnaryExpr("INC", Keyed("y", CaprefTerm("w")))>>))>>),
    nested  |-> Prog(<<Decl("x", "Counter"), DecoDecl("d", StmtList(<<When(A, <<Inc("x")>>), NextStmt>>))>>,
                     <<DecoStmt("d", StmtList(<<Otherwise(<<Inc("x")>>)>>))>>),
    smatch  |-> Prog(Counters(<<"x", "y">>),
                     <<When(Match("word"), <<CondStmt(Bin(One1, "MATCH", B), StmtList(<<Inc("x")>>), StmtList(<<Inc("y")>>))>>)>>),
    either  |-> Prog(<<Decl("x", "Counter"), By("y", "Counter")>>,
                     <<When(Bin(Match("int"), "OR", Bin(Id("x"), "EQ", IntLit(0))),
                            <<Inc("x"), UnaryExpr("INC", Keyed("y", One1))>>)>>),
    hist    |-> Prog(<<VarDecl("h", "Histogram", <<>>, <<2, 8>>)>>,
                     <<When(Match("int"), <<Bin(Id("h"), "ASSIGN", One1)>>)>>),
    histf   |-> Prog(<<VarDecl("h", "Histogram", <<"k">>, <<-2, 0, 8>>)>>,
                     <<When(Match("flt"), <<Bin(Keyed("h", One1), "ASSIGN", One1)>>)>>),
    histinc |-> Prog(<<VarDecl("h", "Histogram", <<>>, <<2, 8>>)>>, <<When(A, <<Inc("h")>>)>>),
    histget |-> Prog(<<VarDecl("h", "Histogram", <<>>, <<2, 8>>), Decl("g", "Gauge")>>,
                     <<When(A, <<Bin(Id("g"), "ASSIGN", Id("h")), Bin(Id("h"), "ASSIGN", FloatLit(3))>>)>>),
    strtol  |-> Prog(<<Decl("g", "Gauge")>>,
                     <<When(Match("word"), <<Bin(Id("g"), "ASSIGN", Call("strtol", <<One1, IntLit(16)>>))>>)>>),
    conv    |-> Prog(<<Decl("g", "Gauge"), Decl("f", "Gauge"), Decl("t", "Text")>>,
                     <<When(Match("word"), <<Bin(Id("t"), "ASSIGN", Call("string", <<Call("len", <<One1>>)>>)),
                                             Bin(Id("f"), "ASSIGN", Call("float", <<One1>>)),
                                             Bin(Id("g"), "ASSIGN", Call("int", <<One1>>))>>)>>),
    floats  |-> Prog(<<Decl("f", "Gauge"), By("y", "Counter"), Decl("t", "Text")>>,
                     <<When(Match("flt"), <<Bin(Id("f"), "ADD_ASSIGN", One1), UnaryExpr("INC", Keyed("y", Id("f"))),
                                            Bin(Id("t"), "ASSIGN", Call("getfilename", <<>>)),
                                            UnaryExpr("INC", Keyed("y", Id("t")))>>)>>),
    neg     |-> Prog(<<Decl("g", "Gauge"), Decl("x", "Counter")>>,
                     <<When(Match("int"), <<Bin(Id("g"), "ASSIGN", UnaryExpr("NOT", One1)), UnaryExpr("DEC", Id("x"))>>)>>),
    frag    |-> Prog(<<Decl("x", "Counter"), PatternFragment(IdTerm("P"), PatternLit("int"))>>,
                     <<When(PatternExpr(Bin(IdTerm("P"), "CONCAT", PatternLit("a"))), <<Inc("x")>>),
                       When(PatternExpr(IdTerm("P")), <<Bin(Id("x"), "ADD_ASSIGN", One1)>>)>>) ]

Source(k) ==
  CASE k[1] = "control" -> Control(k)
    [] k[1] = "logical" -> Logical(k)
    [] k[1] = "arith"   -> Arith(k)
    [] k[1] = "twice"   -> Twice(k)
    [] k[1] = "compare" -> Compare6(k)
    [] k[1] = "single"  -> Singles[k[2]]

MCPrograms ==
  [k \in ControlKeys \cup LogicalKeys \cup ArithKeys \cup BitKeys \cup FloatKeys \cup TwiceKeys \cup CompareKeys
         \cup {<<"single", s>> : s \in DOMAIN Singles} |-> Source(k)]
=============================================================================
