------------------------------ MODULE MCServer ------------------------------
(* A small server: a program that counts by label and one with a histogram,*)
(* one that sets a text beside one that does not compile, one whose metric *)
(* has a key named prog, and, with more lines than a read takes and nothing *)
(* exported, two that count.                                               *)
EXTENDS Server

MCKind == [m \in Metrics |-> CASE m = "hist" -> "Histogram" [] m = "text" -> "Text"
                                 [] OTHER -> "Counter"]
Lines == [listing |-> <<"line", "prog">>, good |-> {"line", "prog"}]
MCDirectories ==
  {[listing |-> <<"count", "hist">>, good |-> {"count", "hist"}],
   [listing |-> <<"count", "text">>, good |-> {"text"}],
   [listing |-> <<"prog">>, good |-> {"prog"}],
   Lines}
MCMaxLines == [d \in MCDirectories |-> IF d = Lines THEN 3 ELSE 1]
\* Two exports, at the same time if so it happens, of a single counter.
MCMaxExports == [s \in SUBSET Metrics |-> CASE s = {} \/ "line" \in s -> 0 [] s = {"prog"} -> 2
                                             [] OTHER -> 1]
MCBounds == <<1, 2>>
=============================================================================
