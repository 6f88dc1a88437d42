------------------------------ MODULE GraphReads ------------------------------
(***************************************************************************)
(* What the service reads from the dependency graph for its clients: the   *)
(* supply chain reports of a requirement file, a package and a version,    *)
(* the data for SMT, and the expansions of one node                        *)
(* (app/services/{requirement_file,package,version}_service.py), with what *)
(* the request models of app/schemas/ make of the depth and what the       *)
(* endpoints make of the versions.                                         *)
(*                                                                         *)
(* Neo4j and its procedures (apoc.path) are external and modelled from the *)
(* configuration the queries give them: a traversal extends one path by    *)
(* one relationship at a time, breadth first, and takes the relationships  *)
(* of a node in any order.  Each read is one transaction, so the graph     *)
(* stays as it is.                                                         *)
(***************************************************************************)
EXTENDS Integers, Sequences, FiniteSets

CONSTANTS
  File,       \* the requirement file
  Packages, Versions,
  NodeTypes,
  TypeOf,     \* the node type, a label, of each package
  OwnerOf,    \* the package that has each version
  Graphs,     \* the sets of requirements that may be in the graph
  Depths,     \* what clients send as max_depth
  None

Reports == {"file_info", "package_info", "version_info"}
Expansions == {"expand_req_file", "expand_package", "expand_version"}

\* The versions a constraint admits, or one that cannot be parsed.
Constraint == [parses : BOOLEAN, admits : SUBSET Versions]

Requirement == [from : {File} \cup Versions, to : Packages, constraint : Constraint]

ASSUME FileAssumption == /\ File \notin Packages /\ File \notin Versions
                         /\ Packages \cap Versions = {}
ASSUME PackagesAssumption == IsFiniteSet(Packages)
ASSUME GraphsAssumption == /\ TypeOf \in [Packages -> NodeTypes]
                           /\ OwnerOf \in [Versions -> Packages]
                           /\ \A g \in Graphs : g \subseteq Requirement
ASSUME DepthsAssumption == Depths \subseteq Int
ASSUME NoneAssumption == /\ None \notin Versions
                         /\ None \notin Constraint
                         /\ None \notin {"REQUIRE", "HAVE"}

VARIABLES
  requires, \* the REQUIRE relationships
  request,
  phase,
  paths,    \* what the traversal has yielded, in the order it did
  at,       \* the path being extended
  answer

vars == <<requires, request, phase, paths, at, answer>>

VersionsOf(p) == {v \in Versions : OwnerOf[v] = p}

\* The relationships of the graph.
Relations ==
  {[type |-> "REQUIRE", from |-> r.from, to |-> r.to, constraint |-> r.constraint]
     : r \in requires}
    \cup {[type |-> "HAVE", from |-> OwnerOf[v], to |-> v, constraint |-> None]
            : v \in Versions}

Requests ==
  [kind : {"file_info", "smt"}, start : {File}, node : NodeTypes, depth : Depths]
    \cup {[kind |-> "package_info", start |-> p, node |-> TypeOf[p], depth |-> d]
            : p \in Packages, d \in Depths}
    \cup {[kind |-> "version_info", start |-> v, node |-> TypeOf[OwnerOf[v]],
           depth |-> d] : v \in Versions, d \in Depths}
    \cup [kind : {"expand_req_file"}, start : {File}]
    \cup [kind : {"expand_package"}, start : Packages,
          constraint : {None} \cup {r.constraint : r \in requires}]
    \cup [kind : {"expand_version"}, start : Versions]

Init ==
  /\ requires \in Graphs
  /\ request = None /\ phase = "idle"
  /\ paths = << >> /\ at = 0 /\ answer = None
-------------------------------------------------------------------------------
(* The traversals *)

\* A file and a version are an odd number of relationships away from the
\* packages, a package and the versions SMT needs as well an even one.
\* Mutant: the data for SMT end at the packages.
MaxLevel_Odd(q) ==
  CASE q.depth = -1 -> -1
    [] q.depth # -1 /\ q.kind = "package_info" -> 2 * q.depth
    [] OTHER -> 2 * q.depth - 1

MaxLevel(q) ==
  CASE q.depth = -1 -> -1
    [] q.depth # -1 /\ q.kind \in {"file_info", "version_info"} -> 2 * q.depth - 1
    [] OTHER -> 2 * q.depth

\* -1 is no limit.
ValidMaxDepth(level) == level >= 1 \/ level = -1

\* The path of no length has no last relationship: its type is null.
NoRelation == [type |-> None]
StartPath(node) == [node |-> node, length |-> 0, last |-> NoRelation]

Receive(q) ==
  /\ phase = "idle" /\ q.kind \notin Expansions
  /\ request' = q
  /\ IF ValidMaxDepth(MaxLevel(q))
     THEN phase' = "traversing" /\ paths' = <<StartPath(q.start)>> /\ at' = 1
     ELSE phase' = "refused" /\ UNCHANGED <<paths, at>>
  /\ UNCHANGED <<requires, answer>>

\* NODE_GLOBAL: no node is visited twice.
Visited == {paths[k].node : k \in DOMAIN paths}

\* The reports keep to one node type, the data for SMT follow everything.
Whitelisted(node) ==
  request.kind # "smt" /\ node \in Packages => TypeOf[node] = request.node

Extends(rel) ==
  /\ rel.from = paths[at].node
  /\ MaxLevel(request) = -1 \/ paths[at].length < MaxLevel(request)
  /\ rel.to \notin Visited
  /\ Whitelisted(rel.to)

Traversing == phase = "traversing" /\ at <= Len(paths)

Extend(rel) ==
  /\ Traversing /\ Extends(rel)
  /\ paths' = Append(paths, [node |-> rel.to, length |-> paths[at].length + 1,
                             last |-> rel])
  /\ UNCHANGED <<requires, request, phase, at, answer>>

NextPath ==
  /\ Traversing
  /\ \A rel \in Relations : ~Extends(rel)
  /\ at' = at + 1
  /\ UNCHANGED <<requires, request, phase, paths, answer>>

\* A query that takes three seconds or all memory ends with an error that says
\* so; after any other the endpoint has {} and finds nothing in it.
QueryFails ==
  /\ Traversing
  /\ phase' \in {"memory_out", "failed"}
  /\ UNCHANGED <<requires, request, paths, at, answer>>
-------------------------------------------------------------------------------
(* The answers *)

\* VersionFilter.filter_versions: all of them when there is no constraint or
\* it cannot be parsed.  None is a version of which everything is null.
FilterVersions(versions, constraint) ==
  IF constraint # None /\ constraint.parses
  THEN versions \cap constraint.admits ELSE versions

\* OPTIONAL MATCH: a package without versions is listed with None.
CollectedVersions(p) == IF VersionsOf(p) = {} THEN {None} ELSE VersionsOf(p)

\* Mutant: halved for every start.
DepthOf_Half(length) == length \div 2

DepthOf(length) ==
  IF request.kind = "package_info" THEN length \div 2 ELSE (length + 1) \div 2

\* Mutant: the versions are listed as well.
Rows_AnyRelation ==
  {[package    |-> path.node,
    depth      |-> DepthOf(path.length),
    constraint |-> path.last.constraint,
    versions   |-> FilterVersions(CollectedVersions(path.node), path.last.constraint)]
     : path \in {paths[k] : k \in {k \in DOMAIN paths : paths[k].last.type # None}}}

\* The packages a report lists, before they are parted by depth.
Rows ==
  {[package    |-> path.node,
    depth      |-> DepthOf(path.length),
    constraint |-> path.last.constraint,
    versions   |-> FilterVersions(CollectedVersions(path.node), path.last.constraint)]
     : path \in {paths[k] : k \in {k \in DOMAIN paths :
                                  paths[k].last.type = "REQUIRE"}}}

Report ==
  LET direct == {row \in Rows : row.depth = 1}
      indirect == {row \in Rows : row.depth > 1}
  IN  [direct   |-> direct, totalDirect |-> Cardinality(direct),
       indirect |-> [d \in {row.depth : row \in indirect} |->
                       {row \in indirect : row.depth = d}],
       totalIndirect |-> Cardinality(indirect)]

\* subgraphAll: every relationship between nodes the traversal has visited.
DataForSmt ==
  LET inside == {rel \in Relations : rel.from \in Visited /\ rel.to \in Visited}
  IN  [require |-> {rel \in inside : rel.type = "REQUIRE"},
       have    |-> {rel \in inside : rel.type = "HAVE"}]

Answer ==
  /\ phase = "traversing" /\ at > Len(paths)
  /\ answer' = IF request.kind = "smt" THEN DataForSmt ELSE Report
  /\ phase' = "answered"
  /\ UNCHANGED <<requires, request, paths, at>>
-------------------------------------------------------------------------------
(* The expansions *)

RequiredBy(node) ==
  {[node |-> r.to, constraint |-> r.constraint] : r \in {r \in requires : r.from = node}}

Reply(q, nodes) ==
  /\ phase = "idle"
  /\ request' = q /\ answer' = nodes /\ phase' = "answered"
  /\ UNCHANGED <<requires, paths, at>>

ExpandReqFile(q) == q.kind = "expand_req_file" /\ Reply(q, RequiredBy(q.start))

\* Mutant: the constraint is not looked at.
ExpandPackage_Unfiltered(q) ==
  q.kind = "expand_package" /\ Reply(q, VersionsOf(q.start))

ExpandPackage(q) ==
  /\ q.kind = "expand_package"
  /\ Reply(q, FilterVersions(VersionsOf(q.start), q.constraint))

\* The query returns one record for each relationship, of which one is used.
ExpandVersion(q) ==
  /\ q.kind = "expand_version"
  /\ \E row \in RequiredBy(q.start) : Reply(q, {row})

\* No record: 404.
VersionNotFound(q) ==
  /\ phase = "idle" /\ q.kind = "expand_version" /\ RequiredBy(q.start) = {}
  /\ request' = q /\ phase' = "not_found"
  /\ UNCHANGED <<requires, paths, at, answer>>

Next ==
  \/ \E q \in Requests :
       \/ Receive(q)
       \/ ExpandReqFile(q) \/ ExpandPackage(q)
       \/ ExpandVersion(q) \/ VersionNotFound(q)
  \/ \E rel \in Relations : Extend(rel)
  \/ NextPath \/ QueryFails \/ Answer

Spec == Init /\ [][Next]_vars
-------------------------------------------------------------------------------
(* How far packages are *)

AllRows == answer.direct \cup UNION {answer.indirect[d] : d \in DOMAIN answer.indirect}

\* The requirement r is one of the start, n = 0, or of what the report lists
\* at depth n.
Holds(r, n) ==
  \/ n = 0 /\ r.from = request.start
  \/ /\ r.from \in Versions
     /\ \/ n = 0 /\ OwnerOf[r.from] = request.start
        \/ \E row \in AllRows : row.package = OwnerOf[r.from] /\ row.depth = n

\* The report was to go beyond depth n.  That of a file or a version has no
\* limit at depth 0 either, which becomes level -1.
Beyond(n) == request.depth \in {-1, 0} \/ n < request.depth

Follows(nodes) == {r.to : r \in {r \in requires : r.from \in nodes}}

\* The packages required in at most n steps from the file: by the file, by
\* versions of those packages, and so on.
Within ==
  LET Holders(packages) == {v \in Versions : OwnerOf[v] \in packages}
      within[n \in 0 .. Cardinality(Packages)] ==
        IF n = 0 THEN {}
        ELSE within[n - 1] \cup Follows({File} \cup Holders(within[n - 1]))
  IN  within

Limit(q) ==
  IF q.depth \in {-1, 0} \/ q.depth > Cardinality(Packages)
  THEN Cardinality(Packages) ELSE q.depth
-------------------------------------------------------------------------------
(* Properties *)

\* The traversal yields paths of the graph, and what a report lists are
\* packages with the constraint of a requirement.
TypeOK ==
  /\ requires \subseteq Requirement
  /\ request \in Requests \cup {None}
  /\ phase \in {"idle", "traversing", "refused", "answered", "not_found",
               "memory_out", "failed"}
  /\ paths \in Seq([node : {File} \cup Packages \cup Versions, length : Nat,
                    last : Relations \cup {NoRelation}])
  /\ at \in 0 .. Len(paths) + 1
  /\ phase = "answered" /\ request.kind \in Reports =>
       \A row \in AllRows :
         /\ row.package \in Packages /\ row.depth \in Nat
         /\ row.constraint \in Constraint

\* Whatever the order in which relationships are followed, a report lists a
\* package once and at its least depth: each is required, under the
\* constraint shown, by something one step nearer, and whatever is required
\* at some depth within the one asked for is listed no deeper than the next.
LeastDepths ==
  phase = "answered" /\ request.kind \in Reports =>
    /\ \A x, y \in AllRows : x.package = y.package => x = y
    /\ \A row \in AllRows :
         /\ row.package # request.start
         /\ row.depth >= 1 /\ Beyond(row.depth - 1)
         /\ \E r \in requires :
              /\ r.to = row.package /\ r.constraint = row.constraint
              /\ TypeOf[r.to] = request.node
              /\ Holds(r, row.depth - 1)
    /\ \A r \in requires, n \in {0} \cup {row.depth : row \in AllRows} :
         /\ Holds(r, n) /\ Beyond(n)
         /\ TypeOf[r.to] = request.node /\ r.to # request.start
         => \E row \in AllRows : row.package = r.to /\ row.depth <= n + 1

\* The data for SMT of some depth have the packages within that depth, of
\* whatever type, with all their versions, and every requirement among them:
\* all requirements of what is nearer than the depth, and none whose parent
\* has no versions to choose from.
DataCoverDepth ==
  phase = "answered" /\ request.kind = "smt" =>
    LET within == Within
        limit == Limit(request)
        nearer == {File} \cup {v \in Versions : OwnerOf[v] \in within[limit - 1]}
    IN  /\ {rel.to : rel \in answer.require} = within[limit]
        /\ \A v \in Versions :
             (\E rel \in answer.have : rel.to = v) <=> OwnerOf[v] \in within[limit]
        /\ \A r \in requires : r.from \in nearer =>
             \E rel \in answer.require :
               rel.from = r.from /\ rel.to = r.to /\ rel.constraint = r.constraint
        /\ \A rel \in answer.require :
             rel.from = File \/ \E h \in answer.have : h.to = rel.from

\* Browsing agrees with the reports: the expansion of a file or a package has
\* all it leads to and, of a package, the versions a report would list for
\* the same constraint; that of a version has one requirement, if there is
\* any, and is not found only if there is none.
ExpansionsExact ==
  /\ phase = "answered" /\ request.kind = "expand_req_file" =>
       {row.node : row \in answer} = Follows({File})
  /\ phase = "answered" /\ request.kind = "expand_package" =>
       \A v \in Versions :
         v \in answer <=>
           /\ OwnerOf[v] = request.start
           /\ request.constraint # None /\ request.constraint.parses
                => v \in request.constraint.admits
  /\ request # None /\ request.kind = "expand_version" =>
       /\ phase = "not_found" <=> Follows({request.start}) = {}
       /\ phase = "answered" =>
            \E row \in answer : row.node \in Follows({request.start}) /\ answer = {row}
=============================================================================
