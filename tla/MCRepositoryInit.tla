-------------------------- MODULE MCRepositoryInit ---------------------------
(* Small instances of RepositoryInit. *)
EXTENDS RepositoryProperties, TLC

CONSTANTS r1, r2, ann, bob, t1, t2, t3, f1, f2, p1, p2, c1, c2

OneRepo == [t \in Tasks |-> r1]
OneUser == [t \in Tasks |-> ann]
MixedUsers == [t \in Tasks |-> IF t = t1 THEN ann ELSE bob]

Both == [p \in Packages |-> c1]
Only(p, c) == [Nothing EXCEPT ![p] = c]
TreeOf(a, b) == [f \in Files |-> IF f = f1 THEN a ELSE b]
ThreeTrees == {TreeOf(Both, None), TreeOf(Only(p1, c2), Only(p2, c1)),
               TreeOf(None, Only(p1, c1))}
TwoTrees == {TreeOf(Only(p2, c1), Only(p1, c1)), TreeOf(Only(p2, c2), None)}
=============================================================================
