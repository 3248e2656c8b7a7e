------------------------------- MODULE MCPaths -------------------------------
(* Paths that users type, for TLC.  Word(w, n): a component of n letters.  *)
EXTENDS Paths

Word(w, n) == [w |-> w, lo |-> 1, hi |-> n]
Up == Word("..", 2)
Here == Word(".", 1)
Rel(cs) == [abs |-> FALSE, comps |-> cs, slash |-> FALSE]
Abs(cs) == [abs |-> TRUE, comps |-> cs, slash |-> FALSE]

(* Names within 8.3, one of them longer than it and cut to the same name.  *)
A == Word("a", 2)
ALong == Word("a", 3)
B == Word("b", 1)
ShortPaths == {Abs(<<>>), Rel(<<A>>), Rel(<<ALong>>), Rel(<<B>>), Rel(<<Up>>),
               Rel(<<A, Up, B>>), Abs(<<B, Here, A>>), [Rel(<<B>>) EXCEPT !.slash = TRUE]}

(* At most three directories, or two entries with a file among them.       *)
SmallTree ==
  Cardinality(entries) <= (IF \E e \in entries : ~e.isdir THEN 2 ELSE 3)
=============================================================================
