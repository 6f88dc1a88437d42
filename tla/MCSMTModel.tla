------------------------------ MODULE MCSMTModel ------------------------------
(* Small graphs for SMTModel: a is a direct requirement, b may be one or be  *)
(* required by a, and c is required by versions of either.                   *)
EXTENDS SMTModel

CONSTANTS a, b, c

Only(admits) == [parses |-> TRUE, admits |-> admits]
Unparsed == [parses |-> FALSE, admits |-> {}]

DirectOn(p, con) == [package |-> p, constraint |-> con]
IndirectOn(p, con, parent, serial) ==
  [package |-> p, constraint |-> con, parent |-> parent, serial |-> serial]
Maybe(requirements) == {{}} \cup {{r} : r \in requirements}

Have == (a :> <<1, 0>>) @@ (b :> <<1, 0>>) @@ (c :> <<2, 1, 0>>)
SomeImpact ==
  (a :> <<2, 0>>) @@ (b :> <<0, 1>>) @@ (c :> <<None, 2, 1>>)
ImpactOf == [p \in {a, b, c} |-> [s \in 0 .. 2 |->
  IF s + 1 \in DOMAIN SomeImpact[p] THEN SomeImpact[p][s + 1] ELSE None]]

OnA == {{DirectOn(a, con)} : con \in {Unparsed, Only({1})}}
OnB == Maybe({DirectOn(b, con) : con \in {Unparsed, Only({0})}})
AOnB == Maybe({IndirectOn(b, con, a, 1) : con \in {Unparsed, Only({})}})
AOnC == Maybe({IndirectOn(c, con, a, 1) : con \in {Only({1, 2}), Only({0, 2})}})
A0OnC == Maybe({IndirectOn(c, con, a, 0) : con \in {Only({0})}})
BOnC == Maybe({IndirectOn(c, con, b, 0) : con \in {Only({0, 1}), Only({})}})
COnB == Maybe({IndirectOn(b, con, c, 2) : con \in {Unparsed}})

SomeGraphs ==
  {[have |-> Have, impact |-> ImpactOf, direct |-> da \cup db,
    indirect |-> ab \cup ac \cup a0 \cup bc \cup cb] :
     da \in OnA, db \in OnB, ab \in AOnB, ac \in AOnC, a0 \in A0OnC,
     bc \in BOnC, cb \in COnB}
SomeConfigs ==
  {Name(a) :> Release(1),
   (Name(b) :> Release(0)) @@ (Name(c) :> Release(1)),
   (Name(b) :> Release(2)) @@ (Purl(a) :> Release(0))}
=============================================================================
