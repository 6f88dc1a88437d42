------------------------------- MODULE SMTModel -------------------------------
(***************************************************************************)
(* The encoding of a dependency graph as constraints and the operations    *)
(* that ask the solver about them: app/domain/smt/model/smt_model.py,      *)
(* app/domain/smt/operations/, app/domain/smt/config_sanitizer/ and        *)
(* VersionFilter of app/utils/version_filter.py; and the two lookups of     *)
(* VersionService between the releases a client names and serial numbers.  *)
(*                                                                         *)
(* The text of the constraints is not built: `model' holds what the fields *)
(* of SMTModel hold, and Solutions says which assignments the text has.    *)
(* Real variables range over the finite set Reals.                         *)
(***************************************************************************)
EXTENDS Integers, Sequences, FiniteSets, SequencesExt

CONSTANTS
  Packages,
  Identified, \* those with a purl; the others only have a name
  MaxSerial, \* bound on the serial numbers of versions
  Reals,     \* the values of impact variables
  Graphs,    \* what read_data_for_smt_transform may return
  Configs,   \* partial configurations a request may send
  Limits,    \* how many configurations it may ask for
  Targets,   \* the impacts it may name
  Flaky,     \* may a check that is repeated answer differently?
  None

Serials == 0 .. MaxSerial
Absent == -1  \* the serial number of a package that is not installed

Name(p) == <<"name", p>>
Purl(p) == <<"purl", p>>

\* What the data for SMT call a package, and so its variable.
Key(p) == IF p \in Identified THEN Purl(p) ELSE Name(p)

\* The variable as the text of the constraints has it, between bars.
Quoted(p) == <<"quoted", Key(p)>>

\* The name of the version with this serial number, and the number itself,
\* as values of a configuration.
Release(serial) == <<"release", serial>>
Number(serial) == <<"number", serial>>

ASSUME SerialsAssumption == MaxSerial \in Nat
ASSUME NoneAssumption == None \notin {"answered", "timeout", "valid", "invalid"}
ASSUME RealsAssumption == 0 \in Reals /\ Reals \subseteq Int /\ Targets \subseteq Int
ASSUME LimitsAssumption == Limits \subseteq Nat \ {0} /\ Flaky \in BOOLEAN
ASSUME ConfigsAssumption ==
  /\ Identified \subseteq Packages
  /\ \A c \in Configs :
       /\ DOMAIN c \subseteq {Name(p) : p \in Packages} \cup {Purl(p) : p \in Packages}
       /\ Range(c) \subseteq {Release(serial) : serial \in Serials}

\* A constraint is the versions it admits, or one that univers cannot parse.
Constraint == [parses : BOOLEAN, admits : SUBSET Serials]
Direct == [package : Packages, constraint : Constraint]
Indirect == [package : Packages, constraint : Constraint,
             parent : Packages, serial : Serials]

\* No package depends on itself.
ASSUME GraphsAssumption ==
  \A g \in Graphs :
    /\ g.have \in [Packages -> Seq(Serials)]
    /\ g.impact \in [Packages -> [Serials -> Reals \cup {None}]]
    /\ g.direct \subseteq Direct
    /\ g.indirect \subseteq {r \in Indirect : r.package # r.parent}

VARIABLES
  source,   \* source_data
  todo,     \* the requirements transform has not reached
  model,    \* the fields of SMTModel
  domain,   \* the assignments the asserted text allows
  phase, request,
  found,    \* the models the operation has got from the solver
  outcome   \* how it ended

vars == <<source, todo, model, domain, phase, request, found, outcome>>

FilterVersions(versions, constraint) ==
  LET kept[n \in 0 .. Len(versions)] ==
        IF n = 0 THEN << >>
        ELSE IF versions[n] \in constraint.admits
             THEN Append(kept[n - 1], versions[n]) ELSE kept[n - 1]
  IN  IF constraint.parses THEN kept[Len(versions)] ELSE versions

Candidates(r) == FilterVersions(source.have[r.package], r.constraint)

\* Mutant: a null impact is passed on.
Impact_Null(package, serial) == source.impact[package][serial]

Impact(package, serial) ==
  IF source.impact[package][serial] = None
  THEN 0 ELSE source.impact[package][serial]
-------------------------------------------------------------------------------
(* Version service *)

\* By the name of the package; an entry that finds no version is left out.
ReadSerialNumbersByReleases(config) ==
  LET Finds(key, serial) ==
        \E p \in Packages :
          key = Name(p) /\ config[key] = Release(serial)
            /\ serial \in Range(source.have[p])
  IN  [key \in {k \in DOMAIN config : \E serial \in Serials : Finds(k, serial)}
         |-> CHOOSE serial \in Serials : Finds(key, serial)]

\* By the purl of the package; an entry that finds none keeps its number.
ReadReleasesBySerialNumbers(config) ==
  [key \in DOMAIN config |->
     IF \E p \in Packages : key = Purl(p) /\ config[key] \in Range(source.have[p])
     THEN Release(config[key]) ELSE Number(config[key])]
-------------------------------------------------------------------------------
(* Groups of consecutive serial numbers *)

\* The runs of versions, each from its first to its last, in the order
\* given: step is 1 for an ascending list and -1 for a descending one.
GroupVersions(versions, step) ==
  FoldLeft(LAMBDA groups, v :
             IF groups # << >> /\ v = Last(groups)[2] + step
             THEN Append(Front(groups), <<Last(groups)[1], v>>)
             ELSE Append(groups, <<v, v>>),
           << >>, versions)

\* Mutant: the last of a run is left out.
InGroups_Short(value, groups, step) ==
  \E g \in Range(groups) :
    IF g[1] = g[2] THEN value = g[1]
    ELSE value \in (IF step = 1 THEN g[1] .. g[2] - 1 ELSE g[2] + 1 .. g[1])

InGroups(value, groups, step) ==
  \E g \in Range(groups) :
    value \in (IF step = 1 THEN g[1] .. g[2] ELSE g[2] .. g[1])

\* Python iterates a set of small integers in ascending order, but for Absent,
\* whose hash puts it last.  In another order, as of larger ones, the groups
\* are others and the serial numbers in them the same.
AsList(serials) ==
  LET there == CHOOSE list \in SetToSeqs(serials \ {Absent}) :
                 \A i, j \in DOMAIN list : i < j => list[i] < list[j]
  IN  IF Absent \in serials THEN Append(there, Absent) ELSE there
-------------------------------------------------------------------------------
(* transform *)

Init ==
  /\ source \in Graphs
  /\ todo = source.direct \cup source.indirect
  /\ model = [directs |-> {}, filtered |-> << >>, required |-> {},
              childs |-> {}, parents |-> {}, ctcs |-> {},
              impacts |-> {}, indirectVars |-> {}]
  /\ domain = {} /\ phase = "transform"
  /\ request = None /\ found = << >> /\ outcome = None

IsIndirect(r) == "parent" \in DOMAIN r

InFiltered(m, r) ==
  r.parent \in DOMAIN m.filtered /\ r.serial \in Range(m.filtered[r.parent])

\* Mutant: nothing is registered that removes the child with its parent.
AppendIndirectConstraint_NoParents(m, r, versions) ==
  IF versions # << >> /\ InFiltered(m, r)
  THEN [m EXCEPT !.childs = @ \cup
          {[child |-> r.package, groups |-> GroupVersions(versions, -1),
            parent |-> r.parent, serial |-> r.serial]}]
  ELSE m

\* directs holds quoted variables and is asked for bare ones, so that a direct
\* package has parents like any other.
AppendIndirectConstraint(m, r, versions) ==
  IF versions # << >> /\ InFiltered(m, r)
  THEN [m EXCEPT
         !.childs = @ \cup
           {[child |-> r.package, groups |-> GroupVersions(versions, -1),
             parent |-> r.parent, serial |-> r.serial]},
         !.parents = IF Key(r.package) \in m.directs THEN @ ELSE @ \cup
           {[child |-> r.package, parent |-> r.parent, serial |-> r.serial]}]
  ELSE m

\* Mutant: the entry is missing.
ImpactBase_None(m, r, versions) == {}

\* The impact of a package that is not installed is 0; only a package whose
\* first versions come from an indirect requirement gets this entry.
ImpactBase(m, r, versions) ==
  IF IsIndirect(r) /\ versions # << >> /\ \A c \in m.ctcs : c.package # r.package
  THEN {[package |-> r.package, impact |-> 0, version |-> Absent]}
  ELSE {}

TransformVersions(m, r, versions) ==
  IF IsIndirect(r) /\ ~InFiltered(m, r)
  THEN m
  ELSE [m EXCEPT
         !.impacts = @ \cup {r.package},
         !.indirectVars =
           IF IsIndirect(r) THEN @ \cup {r.package, r.parent} ELSE @,
         !.ctcs = @ \cup ImpactBase(m, r, versions) \cup
           {[package |-> r.package, impact |-> Impact(r.package, v), version |-> v]
              : v \in Range(versions)}]

Filtered(m, r, versions) ==
  [m EXCEPT !.filtered =
     [p \in DOMAIN @ \cup {r.package} |-> IF p = r.package THEN versions ELSE @[p]]]

DirectConstraint(package, versions) ==
  [package |-> package,
   groups  |-> IF versions = << >> THEN << <<Absent, Absent>> >>
               ELSE GroupVersions(versions, -1)]

TransformDirectPackage(r) ==
  /\ phase = "transform" /\ r \in todo /\ ~IsIndirect(r)
  /\ LET versions == Candidates(r)
         with == [model EXCEPT
                   !.directs = @ \cup {Quoted(r.package)},
                   !.required = @ \cup {DirectConstraint(r.package, versions)}]
     IN  model' = TransformVersions(Filtered(with, r, versions), r, versions)
  /\ todo' = todo \ {r}
  /\ UNCHANGED <<source, domain, phase, request, found, outcome>>

\* The indirect requirements come sorted by the serial number of the parent,
\* highest first.
TransformIndirectPackage(r) ==
  /\ phase = "transform" /\ r \in todo /\ IsIndirect(r)
  /\ \A q \in todo : IsIndirect(q) /\ q.serial <= r.serial
  /\ LET versions == Candidates(r)
         with == AppendIndirectConstraint(model, r, versions)
     IN  model' = TransformVersions(Filtered(with, r, versions), r, versions)
  /\ todo' = todo \ {r}
  /\ UNCHANGED <<source, domain, phase, request, found, outcome>>

\* The serials of e.parent under the same key of childs or parents.
SerialsOf(entries, e) ==
  {o.serial : o \in {o \in entries : [o EXCEPT !.serial = e.serial] = e}}

\* The variables that occur in some constraint.
Mentioned(m) ==
  {c.package : c \in m.required} \cup UNION {{e.child, e.parent} : e \in m.childs}

Versionings(m) ==
  LET When(entries, e) == GroupVersions(AsList(SerialsOf(entries, e)), 1)
      implied  == {[entry |-> e, when |-> When(m.childs, e)] : e \in m.childs}
      excluded == {[entry |-> e, when |-> When(m.parents, e)] : e \in m.parents}
  IN  {v \in [Packages -> Serials \cup {Absent}] :
         /\ \A p \in Packages \ Mentioned(m) : v[p] = Absent
         /\ \A c \in m.required : InGroups(v[c.package], c.groups, -1)
         /\ \A i \in implied :
              InGroups(v[i.entry.parent], i.when, 1)
                => InGroups(v[i.entry.child], i.entry.groups, -1)
         /\ \A x \in excluded :
              ~InGroups(v[x.entry.parent], x.when, 1)
                => v[x.entry.child] = Absent}

ImpactsOf(m, v) ==
  LET groups == {[package |-> c.package, impact |-> c.impact,
                  when |-> GroupVersions(AsList(
                     {o.version : o \in {o \in m.ctcs :
                        o.package = c.package /\ o.impact = c.impact}}), 1)]
                   : c \in m.ctcs}
  IN  {i \in [Packages -> Reals] :
         /\ \A p \in Packages \ m.impacts : i[p] = 0
         /\ \A g \in groups :
              InGroups(v[g.package], g.when, 1) => i[g.package] = g.impact}

Solutions(m) ==
  UNION {{[version |-> v, impact |-> i, risk |-> SumFunctionOnSet(i, m.impacts)]
            : i \in ImpactsOf(m, v)} : v \in Versionings(m)}

Transformed ==
  /\ phase = "transform" /\ todo = {}
  /\ domain' = Solutions(model) /\ phase' = "ready"
  /\ UNCHANGED <<source, todo, model, request, found, outcome>>
-------------------------------------------------------------------------------
(* The operations *)

Enumerating == {"minimize_impact", "maximize_impact", "filter_configs"}
Single == {"complete_config", "config_by_impact"}
Validating == {"valid_config", "valid_graph"}

Requests ==
  [op : {"minimize_impact", "maximize_impact"}, limit : Limits]
    \cup [op : {"filter_configs"}, limit : Limits, min : Targets, max : Targets]
    \cup [op : {"complete_config", "valid_config"}, config : Configs]
    \cup [op : {"config_by_impact"}, impact : Targets]
    \cup [op : {"valid_graph"}]

Receive(q) ==
  /\ phase = "ready"
  /\ request' = q /\ phase' = "solving"
  /\ UNCHANGED <<source, todo, model, domain, found, outcome>>

\* The configuration reaches the operation as serial numbers.  A key that is
\* no variable of the model is constrained to no effect.
Agrees(config, s) ==
  LET serials == ReadSerialNumbersByReleases(config)
  IN  \A p \in Mentioned(model) :
        Key(p) \in DOMAIN serials => s.version[p] = serials[Key(p)]

\* Mutant: a completion is not held to the configuration.
Asked_ValidOnly(q, s) ==
  /\ q.op = "valid_config" => Agrees(q.config, s)
  /\ q.op = "filter_configs" => q.min <= s.risk /\ s.risk <= q.max

\* What the request adds to the constraints.
Asked(q, s) ==
  /\ q.op \in {"complete_config", "valid_config"} => Agrees(q.config, s)
  /\ q.op = "filter_configs" => q.min <= s.risk /\ s.risk <= q.max

Distance(x, y) == IF x > y THEN x - y ELSE y - x

\* Mutant: the difference has a sign.
Cost_Signed(q, s) ==
  CASE q.op \in {"minimize_impact", "complete_config"} -> s.risk
    [] q.op = "maximize_impact" -> -s.risk
    [] q.op = "config_by_impact" -> q.impact - s.risk
    [] OTHER -> 0

\* The objective, to be minimised.
Cost(q, s) ==
  CASE q.op \in {"minimize_impact", "complete_config"} -> s.risk
    [] q.op = "maximize_impact" -> -s.risk
    [] q.op = "config_by_impact" -> Distance(q.impact, s.risk)
    [] OTHER -> 0

\* Mutant: what was found is not blocked.
Allowed_Unblocked == {s \in domain : Asked(request, s)}

\* What the solver may still find: each model found is blocked.
Allowed == {s \in domain : Asked(request, s)} \ Range(found)

Best == {s \in Allowed : \A o \in Allowed : Cost(request, s) <= Cost(request, o)}

\* The answers check may give: a timeout makes any of them unknown.
CheckResults == {IF Allowed = {} THEN "unsat" ELSE "sat", "unknown"}
Again(first) == IF Flaky THEN CheckResults ELSE {first}

\* Minimise, maximise and filter go round until they have enough.
Enumerate(s) ==
  /\ phase = "solving" /\ request.op \in Enumerating
  /\ Len(found) < request.limit /\ s \in Best
  /\ found' = Append(found, s)
  /\ UNCHANGED <<source, todo, model, domain, phase, request, outcome>>

\* They check once more after the last, which can only turn out badly.
Enough ==
  /\ phase = "solving" /\ request.op \in Enumerating
  /\ Len(found) = request.limit
  /\ \E last \in CheckResults :
       outcome' = IF last = "unknown" THEN "timeout" ELSE "answered"
  /\ phase' = "done"
  /\ UNCHANGED <<source, todo, model, domain, request, found>>

TakeBest(s) ==
  /\ phase = "solving" /\ request.op \in Single /\ s \in Best
  /\ found' = <<s>> /\ outcome' = "answered" /\ phase' = "done"
  /\ UNCHANGED <<source, todo, model, domain, request>>

\* Mutant: only the first check is looked at.
GiveUp_Silent ==
  /\ phase = "solving" /\ request.op \in Enumerating \cup Single
  /\ request.op \in Enumerating => Len(found) < request.limit
  /\ \E first \in CheckResults \ {"sat"} : outcome' = "answered"
  /\ phase' = "done"
  /\ UNCHANGED <<source, todo, model, domain, request, found>>

\* A check that is not sat is repeated to see whether it was a timeout.
GiveUp ==
  /\ phase = "solving" /\ request.op \in Enumerating \cup Single
  /\ request.op \in Enumerating => Len(found) < request.limit
  /\ \E first \in CheckResults \ {"sat"} : \E second \in Again(first) :
       outcome' = IF second = "unknown" THEN "timeout" ELSE "answered"
  /\ phase' = "done"
  /\ UNCHANGED <<source, todo, model, domain, request, found>>

Validate ==
  /\ phase = "solving" /\ request.op \in Validating
  /\ \E first \in CheckResults : \E second \in Again(first) :
       outcome' = CASE first = "unknown" -> "timeout"
                    [] first # "unknown" /\ second = "sat" -> "valid"
                    [] OTHER -> "invalid"
  /\ phase' = "done"
  /\ UNCHANGED <<source, todo, model, domain, request, found>>

Next ==
  \/ \E r \in todo : TransformDirectPackage(r) \/ TransformIndirectPackage(r)
  \/ Transformed
  \/ \E q \in Requests : Receive(q)
  \/ \E s \in domain : Enumerate(s) \/ TakeBest(s)
  \/ Enough \/ GiveUp \/ Validate

Spec == Init /\ [][Next]_vars

\* What ConfigSanitizer leaves of a model: the installed packages, without
\* the impacts.
Sanitized(s) ==
  LET installed == {p \in Mentioned(model) : s.version[p] # Absent}
  IN  ReadReleasesBySerialNumbers(
        [key \in {Key(p) : p \in installed} |-> s.version[key[2]]])
-------------------------------------------------------------------------------
(* What a configuration of the graph is *)

Requirements == source.direct \cup source.indirect

\* The requirements that hold under the versions v.
Demanded(v) ==
  {r \in Requirements : IsIndirect(r) => v[r.parent] = r.serial}

Fits(r, serial) == serial \in Range(Candidates(r))

Unsatisfiable(r) == Candidates(r) = << >>

\* Every demand is met and nothing else is installed.  A direct requirement
\* that no version fits is left out, as build_direct_constraint does.
Resolution(v) ==
  /\ \A r \in Demanded(v) :
       \/ Fits(r, v[r.package])
       \/ ~IsIndirect(r) /\ Unsatisfiable(r) /\ v[r.package] = Absent
  /\ \A p \in Packages :
       v[p] # Absent => \E r \in Demanded(v) : r.package = p

\* The requirements on the parent of r are read before r and all admit the
\* version r belongs to.
Settled(r) ==
  LET onParent == {q \in Requirements : q.package = r.parent}
  IN  /\ onParent # {}
      /\ \A q \in onParent :
           Fits(q, r.serial) /\ (IsIndirect(q) => q.serial > r.serial)

\* Some package is installed, for the file or for one of its parents, at a
\* version of another of its parents that does not require it.
SharedUnevenly(v) ==
  \E r \in source.indirect :
    /\ ~Unsatisfiable(r) /\ v[r.package] # Absent
    /\ \A q \in source.indirect :
         q.package = r.package /\ q.parent = r.parent => v[q.parent] # q.serial

Kept(v) == \E s \in domain : \A p \in Mentioned(model) : s.version[p] = v[p]

Versions == [Packages -> Serials \cup {Absent}]
IsTransformed == phase # "transform"
-------------------------------------------------------------------------------
(* Properties *)

\* The fields are as typed in SMTModel.__init__; in particular every version
\* constraint of an impact variable equates it with a number.
TypeOK ==
  /\ todo \subseteq Direct \cup Indirect
  /\ model.directs \subseteq {Quoted(p) : p \in Packages}
  /\ model.impacts \subseteq Packages /\ model.indirectVars \subseteq Packages
  /\ \A p \in DOMAIN model.filtered : model.filtered[p] \in Seq(Serials)
  /\ model.parents \subseteq [child : Packages, parent : Packages, serial : Serials]
  /\ model.ctcs \subseteq
       [package : Packages, impact : Reals, version : Serials \cup {Absent}]
  /\ \A s \in domain : s.version \in Versions /\ s.impact \in [Packages -> Reals]
  /\ phase \in {"transform", "ready", "solving", "done"}
  /\ request \in Requests \cup {None}
  /\ Range(found) \subseteq domain
  /\ outcome \in {None, "answered", "timeout", "valid", "invalid"}

\* Nothing the solver returns breaks a requirement of the file, nor one of a
\* version whose package was settled when transform read it, nor installs a
\* package with such a requirement that nobody needs.
SolutionsResolve ==
  \A s \in domain :
    /\ \A r \in source.direct :
         \/ Fits(r, s.version[r.package])
         \/ Unsatisfiable(r) /\ s.version[r.package] = Absent
    /\ \A r \in source.indirect :
         Settled(r) /\ ~Unsatisfiable(r) =>
           /\ r \in Demanded(s.version) => Fits(r, s.version[r.package])
           /\ s.version[r.package] # Absent =>
                \E q \in Demanded(s.version) : q.package = r.package

\* A resolution of the graph is lost only when a shared dependency is needed
\* by the file or by one parent and not by another parent, or a requirement
\* was read before the package it belongs to was settled.
NoResolutionLost ==
  IsTransformed =>
    \A v \in Versions :
      Resolution(v) =>
        \/ Kept(v)
        \/ SharedUnevenly(v)
        \/ \E r \in Demanded(v) : IsIndirect(r) /\ ~Settled(r)

\* The risk of a solution is the sum of what its versions contribute: no
\* impact is left for the solver to choose, unless a requirement on the
\* package fits no version.
ImpactDetermined ==
  \A s \in domain, p \in model.impacts :
    (\A r \in Requirements : r.package = p => ~Unsatisfiable(r)) =>
      s.impact[p] = IF s.version[p] = Absent THEN 0 ELSE Impact(p, s.version[p])

\* The answers come best first, and nothing better was passed over: what
\* follows the n-th answer in the list, or is not in it, has no lower risk
\* (no higher risk, no risk nearer to the one asked for).
BestFirst ==
  \A n \in DOMAIN found : \A s \in domain \ {found[k] : k \in 1 .. n - 1} :
    Asked(request, s) =>
      /\ request.op \in {"minimize_impact", "complete_config"} =>
           found[n].risk <= s.risk
      /\ request.op = "maximize_impact" => found[n].risk >= s.risk
      /\ request.op = "config_by_impact" =>
           Distance(request.impact, found[n].risk) <= Distance(request.impact, s.risk)

\* No configuration is answered twice, as the client sees it, when every
\* requirement fits some version.
AnswersDiffer ==
  (\A r \in Requirements : ~Unsatisfiable(r)) =>
    \A m, n \in DOMAIN found :
      m # n => Sanitized(found[m]) # Sanitized(found[n])

\* An answer shorter than asked means there is no more, and "invalid" that
\* there is none: a timeout is never taken for one of these.
NothingWithheld ==
  /\ outcome = "answered" /\ request.op \in Enumerating /\ Len(found) < request.limit
       => Allowed = {}
  /\ outcome = "answered" /\ request.op \in Single /\ found = << >> => Allowed = {}
  /\ outcome = "invalid" => Allowed = {}

\* What a client asks of a package it names, that has no purl, that the model
\* has a variable for, at a release that exists, is never passed over: a
\* completion has it, and "valid" means some solution has all of it.
ConfigHonoured ==
  LET Honoured(s) ==
        \A p \in Mentioned(model) \ Identified, n \in Serials :
          Name(p) \in DOMAIN request.config /\ request.config[Name(p)] = Release(n)
            /\ n \in Range(source.have[p]) => s.version[p] = n
  IN  /\ request # None /\ request.op = "complete_config" =>
           \A k \in DOMAIN found : Honoured(found[k])
      /\ request # None /\ request.op = "valid_config" /\ outcome = "valid" =>
           \E s \in domain : Honoured(s)

=============================================================================
