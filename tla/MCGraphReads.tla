----------------------------- MODULE MCGraphReads -----------------------------
(* Graphs of four packages, one of another node type and without versions.   *)
EXTENDS GraphReads, TLC

CONSTANTS file, a, b, c, d, a0, a1, b0, c0, npm, pypi

SomeTypes == [p \in {a, b, c, d} |-> IF p = d THEN pypi ELSE npm]
SomeOwners == [v \in {a0, a1, b0, c0} |-> CASE v \in {a0, a1} -> a [] v = b0 -> b
                                           [] v = c0 -> c]

Unparsed == [parses |-> FALSE, admits |-> {}]
Only(admits) == [parses |-> TRUE, admits |-> admits]
On(from, to, constraint) == [from |-> from, to |-> to, constraint |-> constraint]

\* The file requires a, and perhaps d; b and c are reached over one or two
\* versions of a, over each other, or directly, under several constraints.
Optional ==
  {On(file, d, Unparsed), On(file, c, Only({c0})),
   On(a0, b, Only({b0})), On(a1, b, Unparsed), On(a1, c, Only({})),
   On(b0, c, Unparsed), On(c0, a, Only({a0})), On(c0, d, Only({}))}

SomeGraphs == {{On(file, a, Only({a1}))} \cup some : some \in SUBSET Optional}

SomeDepths == {-2, -1, 0, 1, 2, 3}
===============================================================================
