---------------------------- MODULE MCPackageQueue ----------------------------
(* Two requests that one server serves.                                    *)
EXTENDS PackageQueue

CONSTANTS s1, m1, m2, c1, c2

OneServer == [m \in Requests |-> s1]
=============================================================================
