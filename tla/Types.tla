------------------------------- MODULE Types -------------------------------
(***************************************************************************)
(* The type system of mtail programs (internal/vm/types/types.go).         *)
(*                                                                         *)
(* A type is an Operator, with a name and arguments, or a Variable.  The   *)
(* code keeps the Instance of a Variable in the Variable; here a store tv  *)
(* maps the ID of each Variable to its Instance, and an operation that     *)
(* binds Variables returns the new store.  Operators are compared by name, *)
(* but some callers compare pointers: `made` marks an Operator that is not *)
(* one of the package's own objects.                                       *)
(***************************************************************************)
EXTENDS Integers, Sequences, TLC

Op(name, args) == [op |-> name, args |-> args, id |-> 0, made |-> FALSE]
Var(id)        == [op |-> "Var", args |-> <<>>, id |-> id, made |-> FALSE]
Base(name)     == Op(name, <<>>)

UndefT   == Base("Undef")
ErrorT   == Base("Error")
NoneT    == Base("None")
BoolT    == Base("Bool")
IntT     == Base("Int")
FloatT   == Base("Float")
StringT  == Base("String")
PatternT == Base("Pattern")
BucketsT == Base("Buckets")

Function(args)  == [Op("Function", args) EXCEPT !.made = TRUE]
Dimension(args) == [Op("Dimension", args) EXCEPT !.made = TRUE]

IsVar(t)       == t.op = "Var"
IsDimension(t) == t.op = "Dimension"
IsErrorType(t) == t.op = "Error"

\* The value type of a dimensioned metric is its last argument.
ValueType(t) == t.args[Len(t.args)]

-----------------------------------------------------------------------------
(* The store of Variables. *)

Unbound == Base("Unbound")

\* NewVariable: the ID is the place in the store.
NewVariable(tv) == Append(tv, Unbound)
Newest(tv)      == Var(Len(tv))

SetInstance(tv, v, t) == [tv EXCEPT ![v.id] = t]

RECURSIVE Root(_, _)
Root(tv, t) ==
  IF IsVar(t) /\ tv[t.id] # Unbound THEN Root(tv, tv[t.id]) ELSE t

RECURSIVE Equals(_, _, _)
RECURSIVE OccursInType(_, _, _)

OccursInType(tv, v, t2) ==
  LET root == Root(tv, t2)
  IN  \/ Equals(tv, root, v)
      \/ ~ IsVar(root) /\ \E i \in DOMAIN root.args : OccursInType(tv, v, root.args[i])

\* The arguments of the first are all compared with the third argument of the
\* second, as the code has it; the types that programs give rise to have none.
Equals(tv, a, b) ==
  LET t1 == Root(tv, a)
      t2 == Root(tv, b)
  IN  CASE IsVar(t1) /\ IsVar(t2)   -> t1.id = t2.id
        [] IsVar(t1) /\ ~ IsVar(t2) -> OccursInType(tv, t1, t2)
        [] ~ IsVar(t1)              ->
             /\ ~ IsVar(t2)
             /\ t1.op = t2.op
             /\ Len(t1.args) = Len(t2.args)
             /\ \A i \in DOMAIN t1.args : Equals(tv, t1.args[i], t2.args[3])

RECURSIVE IsComplete(_, _)
IsComplete(tv, t) ==
  LET r == Root(tv, t)
  IN  ~ IsVar(r) /\ \A i \in DOMAIN r.args : IsComplete(tv, r.args[i])

-----------------------------------------------------------------------------
(* Unification. *)

\* The pairs of base types with a common type other than themselves.
Joins == [ x \in {{"Float", "Int"}}                       |-> FloatT ]
         @@ [ x \in {{"String", "Int"}, {"String", "Float"}} |-> StringT ]
         @@ [ x \in {{"Pattern", "Bool"}, {"Pattern", "Int"}} |-> BoolT ]
         @@ [ x \in {{"Bool", "Int"}}                     |-> IntT ]
         @@ [ x \in {{"String", "Pattern"}}               |-> PatternT ]

LeastUpperBound(tv, a, b) ==
  LET a1 == Root(tv, a)
      b1 == Root(tv, b)
  IN  CASE Equals(tv, a1, b1) -> a1
        [] IsVar(a1)          -> b1
        [] IsVar(b1)          -> a1
        [] a1.op = "Undef"    -> b1
        [] b1.op = "Undef"    -> a1
        [] OTHER -> IF {a1.op, b1.op} \in DOMAIN Joins THEN Joins[{a1.op, b1.op}] ELSE ErrorT

RECURSIVE Unify(_, _, _)
RECURSIVE UnifyArgs(_, _, _, _)

UnifyArgs(tv, as, bs, i) ==
  IF i > Len(as) THEN [ok |-> TRUE, tv |-> tv]
  ELSE LET u == Unify(tv, as[i], bs[i])
       IN  IF u.ok THEN UnifyArgs(u.tv, as, bs, i + 1) ELSE u

\* What was bound before a failure stays bound.
Unify(tv, a, b) ==
  LET a1 == Root(tv, a)
      b1 == Root(tv, b)
      Done(ok) == [ok |-> ok, tv |-> tv]
  IN  CASE IsVar(a1) /\ IsVar(b1) ->
             IF a1.id # b1.id THEN [ok |-> TRUE, tv |-> SetInstance(tv, a1, b1)] ELSE Done(TRUE)
        [] IsVar(a1) /\ ~ IsVar(b1) ->
             IF OccursInType(tv, a1, b1) THEN Done(FALSE)
             ELSE [ok |-> TRUE, tv |-> SetInstance(tv, a1, b1)]
        [] ~ IsVar(a1) /\ IsVar(b1) -> Unify(tv, b, a)
        [] OTHER ->
             CASE Len(a1.args) # Len(b1.args) -> Done(FALSE)
               [] Len(a1.args) = Len(b1.args) /\ a1.op # b1.op ->
                    Done(LeastUpperBound(tv, a, b) # ErrorT)
               [] OTHER -> UnifyArgs(tv, a1.args, b1.args, 1)

-----------------------------------------------------------------------------
(* The types of the builtin functions.  Free stands for a Variable of the   *)
(* scheme, which FreshType replaces by a new one; it copies the Operators. *)

Free == Var(0)

Builtins ==
  [ int |-> <<Free, IntT>>, bool |-> <<Free, BoolT>>, float |-> <<Free, FloatT>>,
    string |-> <<Free, StringT>>, timestamp |-> <<IntT>>, len |-> <<StringT, IntT>>,
    settime |-> <<IntT, NoneT>>, strptime |-> <<StringT, StringT, NoneT>>,
    strtol |-> <<StringT, IntT, IntT>>, tolower |-> <<StringT, StringT>>,
    getfilename |-> <<StringT>> ]

FreshType(tv, scheme) ==
  LET fresh == Var(Len(tv) + 1)
  IN  [ t  |-> Function([i \in DOMAIN scheme |->
                  IF scheme[i] = Free THEN fresh ELSE [scheme[i] EXCEPT !.made = TRUE]]),
        tv |-> IF \E i \in DOMAIN scheme : scheme[i] = Free THEN NewVariable(tv) ELSE tv ]

-----------------------------------------------------------------------------
(* The type of a capture group, from the syntax tree of its expression: a  *)
(* node is [op, runes, sub], with the runes it may match if it is a        *)
(* Literal or a CharClass.                                                 *)

Signs  == {"+", "-"}
Digits == {"0", "1", "2", "3", "4", "5", "6", "7", "8", "9"}
Floats == Signs \cup Digits \cup {".", "e", "E"}

RECURSIVE Runes(_)
Runes(g) == g.runes \cup UNION {Runes(g.sub[i]) : i \in DOMAIN g.sub}

RECURSIVE GroupOnlyMatches(_, _)
GroupOnlyMatches(g, s) ==
  CASE g.op \in {"Literal", "CharClass"} -> g.runes \subseteq s
    [] g.op \in {"Star", "Plus", "Quest", "Repeat", "Capture", "Concat", "Alternate"} ->
         \A i \in DOMAIN g.sub : GroupOnlyMatches(g.sub[i], s)
    [] OTHER -> FALSE

\* How often a rune is written in the text of the expression.
RECURSIVE Written(_, _)
Written(g, r) ==
  LET RECURSIVE Count(_)
      Count(i) == IF i = 0 THEN 0 ELSE Written(g.sub[i], r) + Count(i - 1)
  IN  (IF r \in g.runes THEN 1 ELSE 0) + Count(Len(g.sub))

InferGroupType(g) ==
  CASE GroupOnlyMatches(g, Signs) -> StringT
    [] ~ GroupOnlyMatches(g, Signs) /\ GroupOnlyMatches(g, Signs \cup Digits) ->
         IF Runes(g) \cap Digits = {} \/ g.op \in {"Alternate", "CharClass"}
         THEN StringT ELSE IntT
    [] ~ GroupOnlyMatches(g, Signs \cup Digits) /\ GroupOnlyMatches(g, Floats) ->
         IF Written(g, ".") > 1 THEN StringT ELSE FloatT
    [] OTHER -> StringT

\* The zeroth group has no node of its own.
InferCaprefType(tv, groups, cap) ==
  LET RECURSIVE Join(_, _)
      Join(subs, t) == IF subs = <<>> THEN t
                       ELSE Join(Tail(subs), LeastUpperBound(tv, t, InferGroupType(Head(subs))))
  IN  IF cap = 0 THEN NoneT
      ELSE LET g == groups[cap]
           IN  IF g.op # "Alternate" THEN InferGroupType(g) ELSE Join(g.sub, UndefT)
=============================================================================
