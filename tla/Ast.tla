-------------------------------- MODULE Ast --------------------------------
(***************************************************************************)
(* The syntax tree of a program (internal/vm/ast/ast.go).  A node is a     *)
(* record whose field `is` names its struct; a pointer to another object   *)
(* is a value (a type, the index of a symbol, a copy of a declaration).    *)
(* Positions and the mutexes around `typ` are left out: a tree belongs to  *)
(* one goroutine.                                                          *)
(***************************************************************************)
EXTENDS Types

Nil == [is |-> "nil"]

StmtList(children) == [is |-> "StmtList", children |-> children]
ExprList(children) == [is |-> "ExprList", children |-> children, typ |-> UndefT]
CondStmt(cond, truth, else) ==
  [is |-> "CondStmt", cond |-> cond, truth |-> truth, else |-> else]

\* sym = 0: the identifier is not resolved.
IdTerm(name)     == [is |-> "IdTerm", name |-> name, sym |-> 0, lvalue |-> FALSE]
CaprefTerm(name) == [is |-> "CaprefTerm", name |-> name, sym |-> 0]

BuiltinExpr(name, args) ==
  [is |-> "BuiltinExpr", name |-> name, args |-> args, typ |-> UndefT]
BinaryExpr(op, lhs, rhs) ==
  [is |-> "BinaryExpr", op |-> op, lhs |-> lhs, rhs |-> rhs, typ |-> UndefT]
UnaryExpr(op, expr) ==
  [is |-> "UnaryExpr", op |-> op, expr |-> expr, typ |-> UndefT]
IndexedExpr(lhs, index) ==
  [is |-> "IndexedExpr", lhs |-> lhs, index |-> index, typ |-> UndefT]

VarDecl(name, kind, keys, buckets) ==
  [is |-> "VarDecl", name |-> name, kind |-> kind, keys |-> keys, buckets |-> buckets, sym |-> 0]

StringLit(text) == [is |-> "StringLit", text |-> text]
IntLit(i)       == [is |-> "IntLit", i |-> i]
FloatLit(f)     == [is |-> "FloatLit", f |-> f]

\* The pattern is <<>> until it has been evaluated; `id` is the identity of
\* the node, by which capture groups refer to it.
PatternExpr(expr)   == [is |-> "PatternExpr", expr |-> expr, pattern |-> <<>>, id |-> 0]
PatternLit(pattern) == [is |-> "PatternLit", pattern |-> pattern]
PatternFragment(id, expr) ==
  [is |-> "PatternFragment", id |-> id, expr |-> expr, pattern |-> <<>>, sym |-> 0]

\* scope = 0: the declaration is not complete.
DecoDecl(name, block) ==
  [is |-> "DecoDecl", name |-> name, block |-> block, sym |-> 0, scope |-> 0]
DecoStmt(name, block) == [is |-> "DecoStmt", name |-> name, block |-> block, decl |-> Nil]

NextStmt           == [is |-> "NextStmt"]
OtherwiseStmt      == [is |-> "OtherwiseStmt"]
StopStmt           == [is |-> "StopStmt"]
DelStmt(n, expiry) == [is |-> "DelStmt", n |-> n, expiry |-> expiry]
ConvExpr(n, typ)   == [is |-> "ConvExpr", n |-> n, typ |-> typ]

\* Node.Type(), given the table of symbols.
TypeOf(symbols, n) ==
  CASE n.is \in {"ExprList", "BuiltinExpr", "BinaryExpr", "UnaryExpr", "IndexedExpr", "ConvExpr"}
                           -> n.typ
    [] n.is \in {"IdTerm", "CaprefTerm"} -> IF n.sym = 0 THEN ErrorT ELSE symbols[n.sym].type
    [] n.is = "VarDecl"    -> CASE n.kind = "Histogram" -> BucketsT
                                [] n.kind # "Histogram" /\ n.sym # 0 -> symbols[n.sym].type
                                [] OTHER -> ErrorT
    [] n.is = "StringLit"  -> StringT
    [] n.is = "IntLit"     -> IntT
    [] n.is = "FloatLit"   -> FloatT
    [] n.is \in {"PatternExpr", "PatternLit", "PatternFragment"} -> PatternT
    [] OTHER               -> NoneT

-----------------------------------------------------------------------------
(* What the grammar's productions make of an identifier (parser.y): it is  *)
(* always indexed, by an empty list if need be.                            *)

Id(name)            == IndexedExpr(IdTerm(name), ExprList(<<>>))
Indexed(name, args) == IndexedExpr(IdTerm(name), ExprList(args))
Call(name, args)    == BuiltinExpr(name, IF args = <<>> THEN Nil ELSE ExprList(args))
Match(pattern)      == PatternExpr(PatternLit(pattern))
=============================================================================
