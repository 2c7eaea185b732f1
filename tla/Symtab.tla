------------------------------- MODULE Symtab -------------------------------
(***************************************************************************)
(* Scopes and symbols (internal/vm/symbol/symtab.go).  Scopes and symbols  *)
(* are referred to by their places in two sequences; a scope has a parent  *)
(* (0 for none) and maps names to symbols.                                 *)
(***************************************************************************)
EXTENDS Ast

NewSymbol(name, kind) ==
  [name |-> name, kind |-> kind, type |-> UndefT, binding |-> Nil, addr |-> 0, used |-> FALSE]

NewScope(parent) == [parent |-> parent, syms |-> <<>>]

\* Insert and InsertAlias: the symbol that has the name keeps it.
Taken(scopes, s, name) == name \in DOMAIN scopes[s].syms
Insert(scopes, s, name, sym) ==
  IF Taken(scopes, s, name) THEN scopes
  ELSE [scopes EXCEPT ![s].syms = @ @@ (name :> sym)]

\* The nearest symbol of that name and kind; 0 if there is none.  A symbol of
\* another kind does not hide those of the parents.
RECURSIVE Lookup(_, _, _, _, _)
Lookup(scopes, symbols, s, name, kind) ==
  IF s = 0 THEN 0
  ELSE IF Taken(scopes, s, name) /\ symbols[scopes[s].syms[name]].kind = kind
       THEN scopes[s].syms[name]
       ELSE Lookup(scopes, symbols, scopes[s].parent, name, kind)

\* Copies the symbols of a scope and of its parents, each under its own name,
\* which for a named capture group is not its number.
RECURSIVE CopyFrom(_, _, _, _)
CopyFrom(scopes, symbols, s, o) ==
  IF o = 0 THEN scopes
  ELSE LET from   == scopes[o].syms
           named  == {from[x] : x \in DOMAIN from}
           new    == {i \in named : ~ Taken(scopes, s, symbols[i].name)}
           copied == [x \in {symbols[i].name : i \in new} |->
                        CHOOSE i \in new : symbols[i].name = x]
       IN  CopyFrom([scopes EXCEPT ![s].syms = @ @@ copied], symbols, s, scopes[o].parent)
=============================================================================
