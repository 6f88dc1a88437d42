--------------------------- MODULE GraphReadsProofs ---------------------------
(***************************************************************************)
(* Proofs about GraphReads.  Trail says what the paths yielded so far are: *)
(* each extends an earlier one, none ends where another does, they come by *)
(* length, and whatever a path already extended leads to has been visited  *)
(* no further away than one step more.  When nothing is left to extend,    *)
(* that makes the depths of a report least.                                *)
(*                                                                         *)
(* The data for SMT are compared with Within, a recursive function of the  *)
(* steps: AllNaturals, a form of induction that takes a set and no         *)
(* operator, follows it and the traversal.                                 *)
(***************************************************************************)
EXTENDS GraphReads, FiniteSetTheorems, WellFoundedInduction, TLAPS

Path == [node : {File} \cup Packages \cup Versions, length : Nat,
         last : Relations \cup {NoRelation}]

Shorter(length) == MaxLevel(request) = -1 \/ length < MaxLevel(request)

\* Packages are found at odd lengths, or at even ones from a package.
Alternates(path) ==
  path.node \in Packages <=> path.length % 2 = IF request.start \in Packages THEN 0 ELSE 1

\* The path extends one yielded before.
Grown(k) ==
  \E j \in 1 .. k - 1 :
    /\ paths[k].last \in Relations
    /\ paths[k].last.from = paths[j].node /\ paths[k].last.to = paths[k].node
    /\ paths[k].length = paths[j].length + 1 /\ Shorter(paths[j].length)
    /\ Whitelisted(paths[k].node)

\* Whatever path j leads to is reached, one step further away at most.
Closed(j) ==
  \A rel \in Relations :
    /\ rel.from = paths[j].node /\ Shorter(paths[j].length) /\ Whitelisted(rel.to)
    => \E k \in DOMAIN paths :
         paths[k].node = rel.to /\ paths[k].length <= paths[j].length + 1

RequestOK ==
  /\ request.kind \in Reports \cup {"smt"}
  /\ request.start \in {File} \cup Packages \cup Versions
  /\ request.start \in Packages <=> request.kind = "package_info"
  /\ request.node \in NodeTypes /\ request.depth \in Int
  /\ ValidMaxDepth(MaxLevel(request))

Trail ==
  /\ RequestOK
  /\ at >= 1 /\ paths[1] = StartPath(request.start)
  /\ \A k \in DOMAIN paths : Alternates(paths[k])
  /\ \A k \in DOMAIN paths : k # 1 => Grown(k)
  /\ \A j, k \in DOMAIN paths : paths[j].node = paths[k].node => j = k
  /\ \A j, k \in DOMAIN paths : j <= k => paths[j].length <= paths[k].length
  /\ \A k \in DOMAIN paths :
       at <= Len(paths) => paths[k].length <= paths[at].length + 1
  /\ \A j \in DOMAIN paths : j < at => Closed(j)

Inv ==
  /\ requires \subseteq Requirement
  /\ request \in Requests \cup {None}
  /\ phase \in {"idle", "traversing", "refused", "answered", "not_found",
               "memory_out", "failed"}
  /\ paths \in Seq(Path) /\ at \in 0 .. Len(paths) + 1
  /\ paths # << >> => Trail
  /\ phase = "idle" => paths = << >> /\ request = None
  /\ phase = "traversing" => paths # << >>
  /\ phase = "answered" /\ request.kind \in Reports =>
       paths # << >> /\ at > Len(paths) /\ answer = Report

USE FileAssumption, GraphsAssumption, DepthsAssumption, NoneAssumption
-------------------------------------------------------------------------------
(* Relationships and requests *)

\* A relationship leads from a file or a version to a package, as a
\* requirement, or from a package to one of its versions.
LEMMA RelationParts ==
  ASSUME requires \subseteq Requirement, NEW rel \in Relations
  PROVE  \/ /\ rel.type = "REQUIRE" /\ rel.from \in {File} \cup Versions
            /\ rel.to \in Packages /\ rel.constraint \in Constraint
            /\ \E r \in requires : /\ r.from = rel.from /\ r.to = rel.to
                                   /\ r.constraint = rel.constraint
         \/ /\ rel.type = "HAVE" /\ rel.to \in Versions
            /\ rel.from = OwnerOf[rel.to] /\ rel.from \in Packages
BY DEF Relations, Requirement

\* Each requirement and each version has its relationship.
LEMMA RelationOf ==
  ASSUME requires \subseteq Requirement
  PROVE  /\ \A r \in requires :
              [type |-> "REQUIRE", from |-> r.from, to |-> r.to,
               constraint |-> r.constraint] \in Relations
         /\ \A v \in Versions :
              [type |-> "HAVE", from |-> OwnerOf[v], to |-> v,
               constraint |-> None] \in Relations
BY DEF Relations

\* What is received is a report or the data for SMT, of an existing node.
LEMMA RequestParts ==
  ASSUME NEW q \in Requests, q.kind \notin Expansions
  PROVE  /\ q.kind \in Reports \cup {"smt"}
         /\ q.start \in {File} \cup Packages \cup Versions
         /\ q.start \in Packages <=> q.kind = "package_info"
         /\ q.node \in NodeTypes /\ q.depth \in Int
<1>1. CASE q \in [kind : {"file_info", "smt"}, start : {File}, node : NodeTypes,
                  depth : Depths]
  BY <1>1 DEF Reports
<1>2. CASE \E p \in Packages, d \in Depths :
             q = [kind |-> "package_info", start |-> p, node |-> TypeOf[p], depth |-> d]
  BY <1>2 DEF Reports
<1>3. CASE \E v \in Versions, d \in Depths :
             q = [kind |-> "version_info", start |-> v, node |-> TypeOf[OwnerOf[v]],
                  depth |-> d]
  BY <1>3 DEF Reports
<1>4. CASE q \in [kind : {"expand_req_file"}, start : {File}]
  BY <1>4 DEF Expansions
<1>5. CASE q \in [kind : {"expand_package"}, start : Packages,
                  constraint : {None} \cup {r.constraint : r \in requires}]
  BY <1>5 DEF Expansions
<1>6. CASE q \in [kind : {"expand_version"}, start : Versions]
  BY <1>6 DEF Expansions
<1> QED
  BY <1>1, <1>2, <1>3, <1>4, <1>5, <1>6 DEF Requests
-------------------------------------------------------------------------------
(* The steps of a traversal *)

\* A traversal starts with one path, of no length, that is still open.
LEMMA ReceiveTrail ==
  ASSUME Inv, NEW q \in Requests, Receive(q)
  PROVE  Inv'
<1>1. request' = q /\ requires' = requires /\ answer' = answer
      /\ paths = << >> /\ q.kind \notin Expansions
  BY DEF Receive, Inv
<1>2. Requests' = Requests
  BY <1>1 DEF Requests
<1>3. CASE ~ValidMaxDepth(MaxLevel(q))
  <2>1. phase' = "refused" /\ paths' = paths /\ at' = at
    BY <1>3 DEF Receive
  <2> QED
    BY <1>1, <1>2, <2>1 DEF Inv
<1>4. CASE ValidMaxDepth(MaxLevel(q))
  <2>1. phase' = "traversing" /\ paths' = <<StartPath(q.start)>> /\ at' = 1
    BY <1>4 DEF Receive
  <2>2. RequestOK'
    BY <1>1, <1>4, RequestParts DEF RequestOK, MaxLevel, ValidMaxDepth
  <2>3. StartPath(q.start) \in Path /\ Path' = Path
    BY <1>1, <2>2 DEF StartPath, NoRelation, Path, RequestOK, Relations
  <2>4. Alternates(paths[1])'
    BY <1>1, <2>1, <2>2 DEF Alternates, StartPath, RequestOK
  <2>5. Trail'
    BY <1>1, <2>1, <2>2, <2>3, <2>4 DEF Trail, StartPath
  <2> QED
    BY <1>1, <1>2, <2>1, <2>3, <2>5 DEF Inv
<1> QED
  BY <1>3, <1>4

\* A path that extends an open one is as long as any, ends at a new node, and
\* leaves what was reached as it was.
LEMMA ExtendTrail ==
  ASSUME Inv, NEW rel \in Relations, Extend(rel)
  PROVE  Inv'
<1> DEFINE new == [node |-> rel.to, length |-> paths[at].length + 1, last |-> rel]
<1> PICK n \in Nat : n = Len(paths) + 1
  BY DEF Inv
<1>1. /\ request' = request /\ requires' = requires /\ answer' = answer
      /\ phase' = phase /\ at' = at /\ paths' = Append(paths, new)
      /\ phase = "traversing" /\ at <= Len(paths) /\ Extends(rel)
  BY DEF Extend, Traversing
<1>2. /\ Requests' = Requests /\ Relations' = Relations /\ Path' = Path
      /\ MaxLevel(request)' = MaxLevel(request)
  BY <1>1 DEF Requests, Relations, Path, MaxLevel
<1>3. /\ Trail /\ paths \in Seq(Path) /\ at \in DOMAIN paths /\ at \in Nat
      /\ RequestOK
  BY <1>1 DEF Inv, Trail
<1>4. /\ paths[at] \in Path /\ paths[at].length \in Nat
      /\ \A k \in DOMAIN paths : paths[k].length \in Nat
  <2>1. \A k \in DOMAIN paths : paths[k] \in Path
    BY <1>3
  <2> QED
    BY <1>3, <2>1 DEF Path
<1>5. new \in Path
  BY <1>3, <1>4, RelationParts DEF Path, Inv
<1>6. /\ paths' \in Seq(Path) /\ Len(paths') = n /\ DOMAIN paths' = 1 .. n
      /\ paths'[n] = new /\ \A k \in DOMAIN paths : paths'[k] = paths[k]
      /\ DOMAIN paths = 1 .. n - 1 /\ n \in Nat /\ n > 1
  BY <1>1, <1>2, <1>3, <1>5
<1>7. \A k \in DOMAIN paths : paths[k].node # rel.to
  BY <1>1 DEF Extends, Visited
<1>8. Alternates(new)
  <2>1. paths[at].node = rel.from /\ Alternates(paths[at])
    BY <1>1, <1>3 DEF Extends, Trail
  <2>2. rel.from \in Packages <=> rel.to \notin Packages
    BY RelationParts DEF Inv
  <2> QED
    BY <1>4, <2>1, <2>2 DEF Alternates
<1>9. Grown(n)'
  BY <1>1, <1>2, <1>3, <1>6 DEF Grown, Extends, Shorter, Whitelisted
<1>10. \A k \in DOMAIN paths : k # 1 => Grown(k)'
  <2> SUFFICES ASSUME NEW k \in DOMAIN paths, k # 1
               PROVE  Grown(k)'
    OBVIOUS
  <2>1. PICK j \in 1 .. k - 1 :
          /\ paths[k].last \in Relations
          /\ paths[k].last.from = paths[j].node /\ paths[k].last.to = paths[k].node
          /\ paths[k].length = paths[j].length + 1 /\ Shorter(paths[j].length)
          /\ Whitelisted(paths[k].node)
    BY <1>3 DEF Trail, Grown
  <2>2. j \in DOMAIN paths
    BY <1>6
  <2>3. paths'[k] = paths[k] /\ paths'[j] = paths[j]
    BY <1>6, <2>2
  <2>4. Shorter(paths[j].length)' /\ Whitelisted(paths[k].node)'
    BY <1>1, <1>2, <2>1, <2>3 DEF Shorter, Whitelisted
  <2> QED
    BY <1>2, <2>1, <2>3, <2>4 DEF Grown
<1>11. \A k \in DOMAIN paths : paths[k].length <= new.length /\ paths[k].length \in Nat
  BY <1>1, <1>3, <1>4 DEF Trail
<1>12. \A j \in DOMAIN paths : j < at => Closed(j)'
  <2> SUFFICES ASSUME NEW j \in DOMAIN paths, j < at
               PROVE  Closed(j)'
    OBVIOUS
  <2>1. Closed(j)
    BY <1>3 DEF Trail
  <2>2. paths'[j] = paths[j]
    BY <1>6
  <2> SUFFICES ASSUME NEW other \in Relations, other.from = paths[j].node,
                      Shorter(paths[j].length), Whitelisted(other.to)
               PROVE  \E k \in DOMAIN paths' :
                        /\ paths'[k].node = other.to
                        /\ paths'[k].length <= paths[j].length + 1
    BY <1>1, <1>2, <2>2 DEF Closed, Shorter, Whitelisted
  <2>3. PICK k \in DOMAIN paths : /\ paths[k].node = other.to
                                 /\ paths[k].length <= paths[j].length + 1
    BY <2>1 DEF Closed
  <2> QED
    BY <1>6, <2>3
<1>13. Trail'
  <2>1. \A k \in DOMAIN paths' : Alternates(paths[k])'
    <3>1. \A k \in DOMAIN paths : Alternates(paths[k])
      BY <1>3 DEF Trail
    <3> QED
      BY <1>1, <1>6, <1>8, <3>1 DEF Alternates
  <2>2. \A k \in DOMAIN paths' : k # 1 => Grown(k)'
    BY <1>6, <1>9, <1>10
  <2>3. \A j, k \in DOMAIN paths' : paths'[j].node = paths'[k].node => j = k
    BY <1>3, <1>6, <1>7 DEF Trail
  <2>4. \A j, k \in DOMAIN paths' : j <= k => paths'[j].length <= paths'[k].length
    BY <1>3, <1>4, <1>6, <1>11 DEF Trail
  <2>5. \A k \in DOMAIN paths' : paths'[k].length <= paths'[at].length + 1
    BY <1>1, <1>3, <1>4, <1>6 DEF Trail
  <2>6. \A j \in DOMAIN paths' : j < at => Closed(j)'
    BY <1>3, <1>6, <1>12
  <2>7. RequestOK'
    BY <1>1, <1>2, <1>3 DEF RequestOK
  <2>8. paths'[1] = StartPath(request.start)
    <3>1. 1 \in DOMAIN paths
      BY <1>6
    <3> QED
      BY <1>3, <1>6, <3>1 DEF Trail
  <2> QED
    BY <1>1, <1>3, <2>1, <2>2, <2>3, <2>4, <2>5, <2>6, <2>7, <2>8 DEF Trail
<1> QED
  BY <1>1, <1>2, <1>3, <1>6, <1>13 DEF Inv

\* A path is left when nothing extends it: what it leads to has been reached,
\* and no path is more than one step longer.
LEMMA NextPathTrail ==
  ASSUME Inv, NextPath
  PROVE  Inv'
<1>1. /\ request' = request /\ requires' = requires /\ answer' = answer
      /\ phase' = phase /\ at' = at + 1 /\ paths' = paths
      /\ phase = "traversing" /\ at <= Len(paths)
      /\ \A rel \in Relations : ~Extends(rel)
  BY DEF NextPath, Traversing
<1>2. /\ Requests' = Requests /\ Relations' = Relations /\ Path' = Path
      /\ MaxLevel(request)' = MaxLevel(request)
  BY <1>1 DEF Requests, Relations, Path, MaxLevel
<1>3. /\ Trail /\ paths \in Seq(Path) /\ at \in DOMAIN paths /\ at \in Nat
  BY <1>1 DEF Inv, Trail
<1>4. \A k \in DOMAIN paths : paths[k] \in Path
  BY <1>3
<1>5. \A k \in DOMAIN paths : paths[k].length \in Nat
  BY <1>4 DEF Path
<1>6. Closed(at)
  <2> SUFFICES ASSUME NEW rel \in Relations, rel.from = paths[at].node,
                      Shorter(paths[at].length), Whitelisted(rel.to)
               PROVE  \E k \in DOMAIN paths : /\ paths[k].node = rel.to
                                             /\ paths[k].length <= paths[at].length + 1
    BY DEF Closed
  <2>1. rel.to \in Visited
    BY <1>1 DEF Extends, Shorter
  <2>2. PICK k \in DOMAIN paths : paths[k].node = rel.to
    BY <2>1 DEF Visited
  <2> QED
    BY <1>1, <1>3, <2>2 DEF Trail
<1>7. \A j \in DOMAIN paths : j < at + 1 => Closed(j)'
  <2> SUFFICES ASSUME NEW j \in DOMAIN paths, j < at + 1
               PROVE  Closed(j)'
    OBVIOUS
  <2>1. Closed(j)
    BY <1>3, <1>6 DEF Trail
  <2> QED
    BY <1>1, <1>2, <2>1 DEF Closed, Shorter, Whitelisted
<1>8. \A k \in DOMAIN paths :
        at + 1 <= Len(paths) => paths[k].length <= paths[at + 1].length + 1
  <2> SUFFICES ASSUME NEW k \in DOMAIN paths, at + 1 <= Len(paths)
               PROVE  paths[k].length <= paths[at + 1].length + 1
    OBVIOUS
  <2>1. at + 1 \in DOMAIN paths
    BY <1>3
  <2>2. /\ paths[k].length <= paths[at].length + 1
        /\ paths[at].length <= paths[at + 1].length
    BY <1>1, <1>3, <2>1 DEF Trail
  <2> QED
    BY <1>3, <1>5, <2>1, <2>2
<1>9. Trail'
  <2>1. \A k \in DOMAIN paths : k # 1 => Grown(k)'
    <3> SUFFICES ASSUME NEW k \in DOMAIN paths, k # 1
                 PROVE  Grown(k)'
      OBVIOUS
    <3>1. Grown(k)
      BY <1>3 DEF Trail
    <3> QED
      BY <1>1, <1>2, <3>1 DEF Grown, Shorter, Whitelisted
  <2>2. RequestOK'
    BY <1>1, <1>2, <1>3 DEF RequestOK, Trail
  <2>3. \A k \in DOMAIN paths : Alternates(paths[k])'
    BY <1>1, <1>3 DEF Trail, Alternates
  <2> QED
    BY <1>1, <1>3, <1>7, <1>8, <2>1, <2>2, <2>3 DEF Trail
<1> QED
  BY <1>1, <1>2, <1>3, <1>9 DEF Inv

\* What leaves the traversal alone keeps what is known of it.
LEMMA FrameTrail ==
  ASSUME Inv, UNCHANGED <<requires, request, paths, at>>
  PROVE  /\ Requests' = Requests /\ Path' = Path
         /\ paths # << >> => Trail'
<1>1. /\ Requests' = Requests /\ Relations' = Relations /\ Path' = Path
      /\ MaxLevel(request)' = MaxLevel(request)
  BY DEF Requests, Relations, Path, MaxLevel
<1>2. ASSUME paths # << >>
      PROVE  Trail'
  <2>1. Trail
    BY <1>2 DEF Inv
  <2>2. RequestOK'
    BY <1>1, <2>1 DEF RequestOK, Trail
  <2>3. \A k \in DOMAIN paths : Alternates(paths[k])'
    BY <2>1 DEF Trail, Alternates
  <2>4. \A k \in DOMAIN paths : k # 1 => Grown(k)'
    <3> SUFFICES ASSUME NEW k \in DOMAIN paths, k # 1
                 PROVE  Grown(k)'
      OBVIOUS
    <3>1. Grown(k)
      BY <2>1 DEF Trail
    <3> QED
      BY <1>1, <3>1 DEF Grown, Shorter, Whitelisted
  <2>5. \A j \in DOMAIN paths : j < at => Closed(j)'
    <3> SUFFICES ASSUME NEW j \in DOMAIN paths, j < at
                 PROVE  Closed(j)'
      OBVIOUS
    <3>1. Closed(j)
      BY <2>1 DEF Trail
    <3> QED
      BY <1>1, <3>1 DEF Closed, Shorter, Whitelisted
  <2> QED
    BY <2>1, <2>2, <2>3, <2>4, <2>5 DEF Trail
<1> QED
  BY <1>1, <1>2

\* The traversals keep what Inv says of them.
LEMMA InvInvariant == Spec => []Inv
<1>1. Init => Inv
  <2> SUFFICES ASSUME Init
               PROVE  Inv
    OBVIOUS
  <2>1. requires \subseteq Requirement
    BY DEF Init
  <2> QED
    BY <2>1 DEF Init, Inv
<1>2. Inv /\ [Next]_vars => Inv'
  <2> SUFFICES ASSUME Inv, [Next]_vars
               PROVE  Inv'
    OBVIOUS
  <2>1. ASSUME NEW q \in Requests, Receive(q)
        PROVE  Inv'
    BY <2>1, ReceiveTrail
  <2>2. ASSUME NEW q \in Requests, NEW nodes, Reply(q, nodes),
               q.kind \in Expansions
        PROVE  Inv'
    <3>1. /\ paths = << >> /\ paths' = paths /\ at' = at /\ requires' = requires
          /\ phase' = "answered" /\ request' = q
      BY <2>2 DEF Reply, Inv
    <3>2. Requests' = Requests /\ Path' = Path
      BY <3>1 DEF Requests, Path, Relations
    <3>3. q.kind \notin Reports
      BY <2>2 DEF Expansions, Reports
    <3> QED
      BY <3>1, <3>2, <3>3 DEF Inv
  <2>3. ASSUME NEW q \in Requests,
               ExpandReqFile(q) \/ ExpandPackage(q) \/ ExpandVersion(q)
        PROVE  Inv'
    <3>1. q.kind \in Expansions /\ \E nodes : Reply(q, nodes)
      BY <2>3 DEF ExpandReqFile, ExpandPackage, ExpandVersion, Expansions
    <3> QED
      BY <2>2, <3>1
  <2>4. ASSUME NEW q \in Requests, VersionNotFound(q)
        PROVE  Inv'
    <3>1. /\ paths = << >> /\ paths' = paths /\ at' = at /\ requires' = requires
          /\ phase' = "not_found" /\ request' = q
      BY <2>4 DEF VersionNotFound, Inv
    <3>2. Requests' = Requests /\ Path' = Path
      BY <3>1 DEF Requests, Path, Relations
    <3> QED
      BY <3>1, <3>2 DEF Inv
  <2>5. ASSUME NEW rel \in Relations, Extend(rel)
        PROVE  Inv'
    BY <2>5, ExtendTrail
  <2>6. CASE NextPath
    BY <2>6, NextPathTrail
  <2>7. CASE QueryFails
    <3>1. /\ UNCHANGED <<requires, request, paths, at>>
          /\ phase' \in {"memory_out", "failed"}
      BY <2>7 DEF QueryFails
    <3> QED
      BY <3>1, FrameTrail DEF Inv
  <2>8. CASE Answer
    <3>1. /\ UNCHANGED <<requires, request, paths, at>>
          /\ phase = "traversing" /\ at > Len(paths) /\ phase' = "answered"
          /\ request.kind # "smt" => answer' = Report
      BY <2>8 DEF Answer
    <3>2. Report' = Report
      BY <3>1 DEF Report, Rows, DepthOf
    <3>3. request.kind \in Reports => request.kind # "smt"
      BY DEF Reports
    <3> QED
      BY <3>1, <3>2, <3>3, FrameTrail DEF Inv
  <2>9. CASE UNCHANGED vars
    <3>1. UNCHANGED <<requires, request, paths, at>>
          /\ phase' = phase /\ answer' = answer
      BY <2>9 DEF vars
    <3>2. Report' = Report
      BY <3>1 DEF Report, Rows, DepthOf
    <3> QED
      BY <3>1, <3>2, FrameTrail DEF Inv
  <2> QED
    BY <2>1, <2>3, <2>4, <2>5, <2>6, <2>7, <2>8, <2>9 DEF Next
<1> QED
  BY <1>1, <1>2, PTL DEF Spec
-------------------------------------------------------------------------------
(* What a report lists *)

\* The paths to packages of a finished report, or of one under way.
PathsToPackages == {k \in DOMAIN paths : k # 1 /\ paths[k].node \in Packages}

\* The depth of a package counts the packages on the way to it.
LEMMA Halves ==
  ASSUME Inv, Trail, NEW k \in PathsToPackages
  PROVE  /\ DepthOf(paths[k].length) \in Nat /\ DepthOf(paths[k].length) >= 1
         /\ paths[k].length = IF request.kind = "package_info"
                              THEN 2 * DepthOf(paths[k].length)
                              ELSE 2 * DepthOf(paths[k].length) - 1
<1>1. \A i \in DOMAIN paths : paths[i] \in Path
  BY DEF Inv
<1>2. \A i \in DOMAIN paths : paths[i].length \in Nat
  BY <1>1 DEF Path
<1>3. paths[k].length >= 1
  BY <1>2 DEF Trail, Grown, PathsToPackages
<1>4. paths[k].length % 2 = IF request.kind = "package_info" THEN 0 ELSE 1
  BY DEF Trail, Alternates, RequestOK, PathsToPackages
<1> DEFINE n == paths[k].length
<1>5. n \in Nat /\ n >= 1
  BY <1>2, <1>3 DEF PathsToPackages
<1>6. CASE request.kind = "package_info"
  BY <1>4, <1>5, <1>6 DEF DepthOf
<1>7. CASE request.kind # "package_info"
  BY <1>4, <1>5, <1>7 DEF DepthOf
<1> QED
  BY <1>6, <1>7

\* The way to a package but the start ends with a requirement on it.
LEMMA LastRequires ==
  ASSUME Inv, Trail, NEW k \in DOMAIN paths, k # 1
  PROVE  /\ paths[k].last \in Relations
         /\ paths[k].last.to = paths[k].node
         /\ paths[k].last.type = "REQUIRE" <=> paths[k].node \in Packages
<1>1. /\ paths[k].last \in Relations
      /\ paths[k].last.to = paths[k].node
  BY DEF Trail, Grown
<1> QED
  BY <1>1, RelationParts DEF Inv

\* Each package the traversal found is listed, and nothing else.
LEMMA Listed ==
  ASSUME Inv, Trail
  PROVE  /\ \A row \in Rows : \E k \in PathsToPackages :
              /\ row.package = paths[k].node
              /\ row.depth = DepthOf(paths[k].length)
              /\ row.constraint = paths[k].last.constraint
              /\ row.versions = FilterVersions(CollectedVersions(paths[k].node),
                                               paths[k].last.constraint)
         /\ \A k \in PathsToPackages : \E row \in Rows :
              /\ row.package = paths[k].node
              /\ row.depth = DepthOf(paths[k].length)
<1>1. 1 \in DOMAIN paths => paths[1].last.type # "REQUIRE"
  BY DEF Trail, StartPath, NoRelation
<1>2. \A k \in DOMAIN paths : paths[k].last.type = "REQUIRE" <=> k \in PathsToPackages
  BY <1>1, LastRequires DEF PathsToPackages
<1> QED
  <2>1. ASSUME NEW row \in Rows
        PROVE  \E k \in PathsToPackages :
                 /\ row.package = paths[k].node
                 /\ row.depth = DepthOf(paths[k].length)
                 /\ row.constraint = paths[k].last.constraint
                 /\ row.versions = FilterVersions(CollectedVersions(paths[k].node),
                                                  paths[k].last.constraint)
    <3>1. PICK k \in DOMAIN paths :
            /\ paths[k].last.type = "REQUIRE"
            /\ row = [package    |-> paths[k].node,
                      depth      |-> DepthOf(paths[k].length),
                      constraint |-> paths[k].last.constraint,
                      versions   |-> FilterVersions(CollectedVersions(paths[k].node),
                                                    paths[k].last.constraint)]
      BY DEF Rows
    <3> QED
      BY <1>2, <3>1
  <2>2. ASSUME NEW k \in PathsToPackages
        PROVE  \E row \in Rows :
                 row.package = paths[k].node /\ row.depth = DepthOf(paths[k].length)
    <3>1. k \in DOMAIN paths /\ paths[k].last.type = "REQUIRE"
      BY <1>2 DEF PathsToPackages
    <3>2. [package    |-> paths[k].node,
           depth      |-> DepthOf(paths[k].length),
           constraint |-> paths[k].last.constraint,
           versions   |-> FilterVersions(CollectedVersions(paths[k].node),
                                         paths[k].last.constraint)] \in Rows
      BY <3>1 DEF Rows
    <3> QED
      BY <3>2
  <2> QED
    BY <2>1, <2>2

\* Parting the rows by depth loses none.
LEMMA AllListed ==
  ASSUME Inv, phase = "answered", request.kind \in Reports
  PROVE  Trail /\ at > Len(paths) /\ AllRows = Rows
<1>1. Trail /\ at > Len(paths) /\ answer = Report
  BY DEF Inv
<1>2. \A row \in Rows : row.depth \in Nat /\ row.depth >= 1
  BY <1>1, Listed, Halves
<1>3. \A row \in Rows : row.depth = 1 \/ row.depth > 1
  BY <1>2
<1> DEFINE indirect == {row \in Rows : row.depth > 1}
           depths == {row.depth : row \in indirect}
<1>4. /\ answer.direct = {row \in Rows : row.depth = 1}
      /\ answer.indirect = [d \in depths |-> {row \in indirect : row.depth = d}]
  BY <1>1 DEF Report
<1>5. UNION {answer.indirect[d] : d \in DOMAIN answer.indirect} = indirect
  <2>1. DOMAIN answer.indirect = depths
    BY <1>4
  <2>2. \A d \in depths : answer.indirect[d] = {row \in indirect : row.depth = d}
    BY <1>4
  <2>3. ASSUME NEW row \in indirect
        PROVE  row \in UNION {answer.indirect[d] : d \in DOMAIN answer.indirect}
    <3>1. row.depth \in depths
      OBVIOUS
    <3>2. row \in answer.indirect[row.depth]
      BY <2>2, <3>1
    <3> QED
      BY <2>1, <3>1, <3>2
  <2>4. ASSUME NEW row \in UNION {answer.indirect[d] : d \in DOMAIN answer.indirect}
        PROVE  row \in indirect
    BY <2>1, <2>2, <2>4
  <2> QED
    BY <2>3, <2>4
<1>6. Rows = {row \in Rows : row.depth = 1} \cup indirect
  BY <1>3
<1> QED
  BY <1>1, <1>4, <1>5, <1>6 DEF AllRows
\* A report is of at least one level, or has no limit.
LEMMA Level ==
  ASSUME RequestOK, request.kind \in Reports
  PROVE  /\ request.kind = "package_info" =>
              \/ request.depth = -1 /\ MaxLevel(request) = -1
              \/ request.depth >= 1 /\ MaxLevel(request) = 2 * request.depth
         /\ request.kind # "package_info" =>
              \/ request.depth \in {-1, 0} /\ MaxLevel(request) = -1
              \/ request.depth >= 1 /\ MaxLevel(request) = 2 * request.depth - 1
BY DEF RequestOK, ValidMaxDepth, MaxLevel, Reports

\* Before the requirement that ends the way to a package there is nothing, a
\* version of the start, or a version of a package listed one step nearer.
LEMMA Origin ==
  ASSUME Inv, Trail, request.kind \in Reports, NEW k \in PathsToPackages
  PROVE  \E r \in requires :
           /\ r.to = paths[k].node /\ r.constraint = paths[k].last.constraint
           /\ TypeOf[r.to] = request.node
           /\ Beyond(DepthOf(paths[k].length) - 1)
           /\ \/ DepthOf(paths[k].length) = 1 /\ r.from = request.start
              \/ /\ r.from \in Versions
                 /\ \/ /\ DepthOf(paths[k].length) = 1
                       /\ OwnerOf[r.from] = request.start
                    \/ \E i \in PathsToPackages :
                         /\ paths[i].node = OwnerOf[r.from]
                         /\ DepthOf(paths[i].length) = DepthOf(paths[k].length) - 1
<1> DEFINE d == DepthOf(paths[k].length)
<1>1. PICK j \in 1 .. k - 1 :
        /\ paths[k].last \in Relations
        /\ paths[k].last.from = paths[j].node /\ paths[k].last.to = paths[k].node
        /\ paths[k].length = paths[j].length + 1 /\ Shorter(paths[j].length)
        /\ Whitelisted(paths[k].node)
  BY DEF Trail, Grown, PathsToPackages
<1>2. k \in DOMAIN paths /\ j \in DOMAIN paths /\ paths[k].node \in Packages
  BY DEF PathsToPackages, Inv
<1>3. PICK r \in requires :
        /\ r.from = paths[j].node /\ r.to = paths[k].node
        /\ r.constraint = paths[k].last.constraint /\ r.from \in {File} \cup Versions
  BY <1>1, <1>2, RelationParts DEF Inv
<1>4. TypeOf[r.to] = request.node
  BY <1>1, <1>2, <1>3 DEF Whitelisted, Reports
<1>5. \A i \in DOMAIN paths : paths[i].length \in Nat
  <2>1. \A i \in DOMAIN paths : paths[i] \in Path
    BY DEF Inv
  <2> QED
    BY <2>1 DEF Path
<1>6. RequestOK /\ request.depth \in Int
  BY DEF Trail, RequestOK
<1>7. d \in Nat /\ d >= 1
      /\ paths[k].length = IF request.kind = "package_info" THEN 2 * d ELSE 2 * d - 1
  BY Halves
<1>8. Beyond(d - 1)
  <2>1. paths[j].length = IF request.kind = "package_info"
                          THEN 2 * d - 1 ELSE 2 * d - 2
    BY <1>1, <1>2, <1>5, <1>7
  <2>2. MaxLevel(request) = -1 \/ paths[j].length < MaxLevel(request)
    BY <1>1 DEF Shorter
  <2>3. request.depth \in {-1, 0} \/ d - 1 < request.depth
    <3>1. CASE request.kind = "package_info"
      BY <1>6, <1>7, <2>1, <2>2, <3>1, Level
    <3>2. CASE request.kind # "package_info"
      BY <1>6, <1>7, <2>1, <2>2, <3>2, Level
    <3> QED
      BY <3>1, <3>2
  <2> QED
    BY <2>3 DEF Beyond
<1>9. CASE j = 1
  <2>1. paths[j].node = request.start /\ paths[j].length = 0
    BY <1>9 DEF Trail, StartPath
  <2>2. d = 1
    BY <1>1, <1>7, <2>1
  <2> QED
    BY <1>3, <1>4, <1>8, <2>1, <2>2
<1>10. CASE j # 1
  <2>1. PICK i \in 1 .. j - 1 :
          /\ paths[j].last \in Relations
          /\ paths[j].last.from = paths[i].node /\ paths[j].last.to = paths[j].node
          /\ paths[j].length = paths[i].length + 1
    BY <1>2, <1>10 DEF Trail, Grown
  <2>2. i \in DOMAIN paths
    BY <1>2 DEF Inv
  <2>3. r.from \notin Packages
    BY <1>3
  <2>4. /\ r.from \in Versions /\ paths[i].node = OwnerOf[r.from]
        /\ paths[i].node \in Packages
    BY <1>3, <2>1, <2>3, RelationParts DEF Inv
  <2>5. paths[k].length = paths[i].length + 2
    BY <1>1, <1>2, <1>5, <2>1, <2>2
  <2>6. CASE i = 1
    <3>1. paths[i].node = request.start /\ paths[i].length = 0
      BY <2>6 DEF Trail, StartPath
    <3>2. d = 1
      BY <1>7, <2>5, <3>1
    <3> QED
      BY <1>3, <1>4, <1>8, <2>4, <3>1, <3>2
  <2>7. CASE i # 1
    <3>1. i \in PathsToPackages
      BY <2>2, <2>4, <2>7 DEF PathsToPackages
    <3>2. /\ DepthOf(paths[i].length) \in Nat
          /\ paths[i].length = IF request.kind = "package_info"
                               THEN 2 * DepthOf(paths[i].length)
                               ELSE 2 * DepthOf(paths[i].length) - 1
      BY <3>1, Halves
    <3>3. DepthOf(paths[i].length) = d - 1
      <4>1. PICK e \in Nat : e = DepthOf(paths[i].length)
        BY <3>2
      <4>2. PICK c \in Nat : c = DepthOf(paths[k].length)
        BY <1>7
      <4>3. 2 * c = 2 * e + 2
        <5>1. CASE request.kind = "package_info"
          <6>1. paths[k].length = 2 * c /\ paths[i].length = 2 * e
            BY <1>7, <3>2, <4>1, <4>2, <5>1
          <6> QED
            BY <2>5, <6>1
        <5>2. CASE request.kind # "package_info"
          <6>1. paths[k].length = 2 * c - 1 /\ paths[i].length = 2 * e - 1
            BY <1>7, <3>2, <4>1, <4>2, <5>2
          <6> QED
            BY <2>5, <6>1
        <5> QED
          BY <5>1, <5>2
      <4>4. e = c - 1
        BY <4>3
      <4> QED
        BY <4>1, <4>2, <4>4
    <3> QED
      BY <1>3, <1>4, <1>8, <2>4, <3>1, <3>3
  <2> QED
    BY <2>6, <2>7
<1> QED
  BY <1>9, <1>10

\* A finished traversal has followed a requirement whose parent it reached
\* within n steps, if the report was to go beyond n.
LEMMA ReachRequired ==
  ASSUME Inv, Trail, at > Len(paths), request.kind \in Reports,
         NEW r \in requires, TypeOf[r.to] = request.node, r.to # request.start,
         NEW n \in Nat, Beyond(n),
         NEW j \in DOMAIN paths, paths[j].node = r.from,
         paths[j].length <= IF request.kind = "package_info" THEN 2 * n + 1 ELSE 2 * n
  PROVE  \E k \in PathsToPackages :
           paths[k].node = r.to /\ DepthOf(paths[k].length) <= n + 1
<1> DEFINE rel == [type |-> "REQUIRE", from |-> r.from, to |-> r.to,
                   constraint |-> r.constraint]
<1>1. rel \in Relations /\ r.to \in Packages
  BY RelationOf DEF Inv, Requirement
<1>2. \A i \in DOMAIN paths : paths[i].length \in Nat
  <2>1. \A i \in DOMAIN paths : paths[i] \in Path
    BY DEF Inv
  <2> QED
    BY <2>1 DEF Path
<1>3. RequestOK /\ request.depth \in Int
  BY DEF Trail, RequestOK
<1>4. Shorter(paths[j].length)
  <2>1. request.depth \in {-1, 0} \/ n < request.depth
    BY DEF Beyond
  <2>2. MaxLevel(request) = -1 \/ paths[j].length < MaxLevel(request)
    <3>1. CASE request.kind = "package_info"
      BY <1>2, <1>3, <2>1, <3>1, Level
    <3>2. CASE request.kind # "package_info"
      BY <1>2, <1>3, <2>1, <3>2, Level
    <3> QED
      BY <3>1, <3>2
  <2> QED
    BY <2>2 DEF Shorter
<1>5. Closed(j)
  BY DEF Trail, Inv
<1>6. Whitelisted(rel.to)
  BY DEF Whitelisted
<1>7. PICK k \in DOMAIN paths :
        paths[k].node = r.to /\ paths[k].length <= paths[j].length + 1
  BY <1>1, <1>4, <1>5, <1>6 DEF Closed
<1>8. k \in PathsToPackages
  BY <1>1, <1>7 DEF PathsToPackages, Trail, StartPath
<1>9. /\ DepthOf(paths[k].length) \in Nat
      /\ paths[k].length = IF request.kind = "package_info"
                           THEN 2 * DepthOf(paths[k].length)
                           ELSE 2 * DepthOf(paths[k].length) - 1
  BY <1>8, Halves
<1>10. DepthOf(paths[k].length) <= n + 1
  BY <1>2, <1>7, <1>9
<1> QED
  BY <1>7, <1>8, <1>10

\* It has also followed the versions of a package reached at depth n, or at
\* the start.
LEMMA ReachVersion ==
  ASSUME Inv, Trail, at > Len(paths), request.kind \in Reports,
         NEW v \in Versions, NEW n \in Nat, Beyond(n),
         NEW i \in DOMAIN paths, paths[i].node = OwnerOf[v],
         \/ i = 1 /\ n = 0
         \/ i \in PathsToPackages /\ DepthOf(paths[i].length) = n
  PROVE  \E j \in DOMAIN paths :
           /\ paths[j].node = v
           /\ paths[j].length <= IF request.kind = "package_info"
                                 THEN 2 * n + 1 ELSE 2 * n
<1> DEFINE rel == [type |-> "HAVE", from |-> OwnerOf[v], to |-> v, constraint |-> None]
<1>1. rel \in Relations /\ v \notin Packages /\ OwnerOf[v] \in Packages
  BY RelationOf DEF Inv
<1>2. \A k \in DOMAIN paths : paths[k].length \in Nat
  <2>1. \A k \in DOMAIN paths : paths[k] \in Path
    BY DEF Inv
  <2> QED
    BY <2>1 DEF Path
<1>3. RequestOK /\ request.depth \in Int
  BY DEF Trail, RequestOK
<1>4. paths[i].length = IF request.kind = "package_info" THEN 2 * n ELSE 2 * n - 1
  <2>1. CASE i = 1 /\ n = 0
    <3>1. paths[i].node = request.start /\ paths[i].length = 0
      BY <2>1 DEF Trail, StartPath
    <3>2. request.kind = "package_info"
      BY <1>1, <1>3, <3>1 DEF RequestOK
    <3> QED
      BY <2>1, <3>1, <3>2
  <2>2. CASE i \in PathsToPackages /\ DepthOf(paths[i].length) = n
    BY <2>2, Halves
  <2> QED
    BY <2>1, <2>2
<1>5. Shorter(paths[i].length)
  <2>1. request.depth \in {-1, 0} \/ n < request.depth
    BY DEF Beyond
  <2>2. MaxLevel(request) = -1 \/ paths[i].length < MaxLevel(request)
    <3>1. CASE request.kind = "package_info"
      BY <1>3, <1>4, <2>1, <3>1, Level
    <3>2. CASE request.kind # "package_info"
      BY <1>3, <1>4, <2>1, <3>2, Level
    <3> QED
      BY <3>1, <3>2
  <2> QED
    BY <2>2 DEF Shorter
<1>6. Closed(i)
  BY DEF Trail, Inv
<1>7. Whitelisted(rel.to)
  BY <1>1 DEF Whitelisted
<1>8. PICK j \in DOMAIN paths :
        paths[j].node = v /\ paths[j].length <= paths[i].length + 1
  BY <1>1, <1>5, <1>6, <1>7 DEF Closed
<1>9. paths[j].length <= IF request.kind = "package_info" THEN 2 * n + 1 ELSE 2 * n
  BY <1>2, <1>4, <1>8
<1> QED
  BY <1>8, <1>9
-------------------------------------------------------------------------------
(* Theorems *)

\* The traversal yields paths of the graph, and a report lists packages with
\* the constraint of a requirement.
THEOREM TypeCorrect == Spec => []TypeOK
<1>1. Inv => TypeOK
  <2> SUFFICES ASSUME Inv
               PROVE  TypeOK
    OBVIOUS
  <2>1. ASSUME phase = "answered", request.kind \in Reports, NEW row \in AllRows
        PROVE  /\ row.package \in Packages /\ row.depth \in Nat
               /\ row.constraint \in Constraint
    <3>1. Trail /\ row \in Rows
      BY <2>1, AllListed
    <3>2. PICK k \in PathsToPackages :
            /\ row.package = paths[k].node
            /\ row.depth = DepthOf(paths[k].length)
            /\ row.constraint = paths[k].last.constraint
      BY <3>1, Listed
    <3>3. k \in DOMAIN paths /\ k # 1 /\ paths[k].node \in Packages
      BY DEF PathsToPackages
    <3>4. paths[k].last \in Relations /\ paths[k].last.type = "REQUIRE"
      BY <3>1, <3>3, LastRequires
    <3>5. paths[k].last.constraint \in Constraint
      BY <3>4, RelationParts DEF Inv
    <3>6. row.depth \in Nat
      BY <3>1, <3>2, Halves
    <3> QED
      BY <3>2, <3>3, <3>5, <3>6
  <2> QED
    BY <2>1 DEF Inv, TypeOK, Path
<1> QED
  BY <1>1, InvInvariant, PTL

\* In whatever order the relationships are followed and whatever the graph,
\* the depths a report shows are least and it lists all within the depth asked.
THEOREM ReportsLeast == Spec => []LeastDepths
<1>1. ASSUME Inv
      PROVE  LeastDepths
  <2> SUFFICES ASSUME phase = "answered", request.kind \in Reports
               PROVE  LeastDepths
    BY DEF LeastDepths
  <2>1. Trail /\ at > Len(paths) /\ AllRows = Rows
    BY <1>1, AllListed
  <2>2. ASSUME NEW x \in AllRows, NEW y \in AllRows, x.package = y.package
        PROVE  x = y
    <3>1. \A row \in AllRows : \E k \in DOMAIN paths :
            row = [package    |-> paths[k].node,
                   depth      |-> DepthOf(paths[k].length),
                   constraint |-> paths[k].last.constraint,
                   versions   |-> FilterVersions(CollectedVersions(paths[k].node),
                                                 paths[k].last.constraint)]
      BY <2>1 DEF Rows
    <3>2. \A j, k \in DOMAIN paths : paths[j].node = paths[k].node => j = k
      BY <2>1 DEF Trail
    <3> QED
      BY <2>2, <3>1, <3>2
  <2>3. ASSUME NEW row \in AllRows
        PROVE  /\ row.package # request.start
               /\ row.depth >= 1 /\ Beyond(row.depth - 1)
               /\ \E r \in requires :
                    /\ r.to = row.package /\ r.constraint = row.constraint
                    /\ TypeOf[r.to] = request.node
                    /\ Holds(r, row.depth - 1)
    <3>1. PICK k \in PathsToPackages :
            /\ row.package = paths[k].node
            /\ row.depth = DepthOf(paths[k].length)
            /\ row.constraint = paths[k].last.constraint
      BY <1>1, <2>1, Listed
    <3>2. row.depth \in Nat /\ row.depth >= 1
      BY <1>1, <2>1, <3>1, Halves
    <3>3. row.package # request.start
      <4>1. 1 \in DOMAIN paths /\ paths[1].node = request.start
        BY <1>1, <2>1 DEF Trail, StartPath, PathsToPackages, Inv
      <4> QED
        BY <2>1, <3>1, <4>1 DEF Trail, PathsToPackages
    <3>4. PICK r \in requires :
            /\ r.to = paths[k].node /\ r.constraint = paths[k].last.constraint
            /\ TypeOf[r.to] = request.node
            /\ Beyond(DepthOf(paths[k].length) - 1)
            /\ \/ DepthOf(paths[k].length) = 1 /\ r.from = request.start
               \/ /\ r.from \in Versions
                  /\ \/ /\ DepthOf(paths[k].length) = 1
                        /\ OwnerOf[r.from] = request.start
                     \/ \E i \in PathsToPackages :
                          /\ paths[i].node = OwnerOf[r.from]
                          /\ DepthOf(paths[i].length) = DepthOf(paths[k].length) - 1
      BY <1>1, <2>1, Origin
    <3>5. \A i \in PathsToPackages : \E other \in AllRows :
            other.package = paths[i].node /\ other.depth = DepthOf(paths[i].length)
      BY <1>1, <2>1, Listed
    <3>6. Holds(r, row.depth - 1)
      BY <3>1, <3>2, <3>4, <3>5 DEF Holds
    <3> QED
      BY <3>1, <3>2, <3>3, <3>4, <3>6
  <2>4. ASSUME NEW r \in requires, NEW n \in {0} \cup {row.depth : row \in AllRows},
               Holds(r, n), Beyond(n), TypeOf[r.to] = request.node,
               r.to # request.start
        PROVE  \E row \in AllRows : row.package = r.to /\ row.depth <= n + 1
    <3>1. n \in Nat
      BY <1>1, <2>1, Listed, Halves
    <3>2. 1 \in DOMAIN paths /\ paths[1].node = request.start /\ paths[1].length = 0
      <4>1. paths # << >>
        BY <1>1 DEF Inv
      <4> QED
        BY <1>1, <2>1, <4>1 DEF Trail, StartPath, Inv
    <3>3. \E j \in DOMAIN paths :
            /\ paths[j].node = r.from
            /\ paths[j].length <= IF request.kind = "package_info"
                                  THEN 2 * n + 1 ELSE 2 * n
      <4>1. CASE n = 0 /\ r.from = request.start
        BY <3>2, <4>1
      <4>2. CASE r.from \in Versions /\ n = 0 /\ OwnerOf[r.from] = request.start
        BY <1>1, <2>1, <2>4, <3>1, <3>2, <4>2, ReachVersion
      <4>3. ASSUME r.from \in Versions, NEW row \in AllRows,
                   row.package = OwnerOf[r.from], row.depth = n
            PROVE  \E j \in DOMAIN paths :
                     /\ paths[j].node = r.from
                     /\ paths[j].length <= IF request.kind = "package_info"
                                           THEN 2 * n + 1 ELSE 2 * n
        <5>1. PICK i \in PathsToPackages :
                row.package = paths[i].node /\ row.depth = DepthOf(paths[i].length)
          BY <1>1, <2>1, Listed
        <5>2. i \in DOMAIN paths
          BY DEF PathsToPackages
        <5>3. paths[i].node = OwnerOf[r.from] /\ DepthOf(paths[i].length) = n
          BY <4>3, <5>1
        <5>4. Inv /\ Trail /\ at > Len(paths) /\ Beyond(n) /\ r.from \in Versions
          BY <1>1, <2>1, <2>4, <4>3
        <5>5. \E j \in DOMAIN paths :
                /\ paths[j].node = r.from
                /\ paths[j].length <= IF request.kind = "package_info"
                                      THEN 2 * n + 1 ELSE 2 * n
          <6> HIDE DEF Inv, Trail
          <6> QED
            BY <3>1, <5>1, <5>2, <5>3, <5>4, ReachVersion
        <5> QED
          BY <5>5
      <4> QED
        BY <2>4, <4>1, <4>2, <4>3 DEF Holds
    <3>4. PICK k \in PathsToPackages :
            paths[k].node = r.to /\ DepthOf(paths[k].length) <= n + 1
      BY <1>1, <2>1, <2>4, <3>1, <3>3, ReachRequired
    <3> QED
      BY <1>1, <2>1, <3>4, Listed
  <2> QED
    BY <2>2, <2>3, <2>4 DEF LeastDepths
<1> QED
  BY <1>1, InvInvariant, PTL
-------------------------------------------------------------------------------
(* The expansions *)

\* The data for SMT come from a finished traversal.
DataInv ==
  /\ phase # "idle" => request \in Requests
  /\ phase = "answered" /\ request.kind = "smt" =>
       paths # << >> /\ at > Len(paths) /\ answer = DataForSmt

\* The graph stays, and what a request is with it.
LEMMA RequestStays ==
  ASSUME Inv, DataInv, [Next]_vars
  PROVE  phase' # "idle" => request' \in Requests'
<1>1. requires' = requires
      /\ \/ request' = request /\ (phase = "idle" => phase' = "idle")
         \/ request' \in Requests
  BY DEF Next, vars, Receive, ExpandReqFile, ExpandPackage, ExpandVersion,
     VersionNotFound,
         Reply, Extend, NextPath, QueryFails, Answer, Traversing
<1>2. Requests' = Requests
  BY <1>1 DEF Requests
<1> QED
  BY <1>1, <1>2 DEF DataInv

\* While a traversal is under way, and before any request, nothing was expanded.
LEMMA NoExpansion ==
  ASSUME Inv, phase \in {"idle", "traversing"}
  PROVE  phase = "traversing" => request.kind \notin Expansions
BY DEF Inv, Trail, RequestOK, Reports, Expansions

\* A step of the system, told by what it does to the phase.
LEMMA PhaseSteps ==
  ASSUME Inv, [Next]_vars
  PROVE  \/ /\ phase = "idle" /\ phase' \in {"traversing", "refused"}
            /\ request'.kind \notin Expansions
         \/ /\ phase = "idle"
            /\ \E q \in Requests : ExpandReqFile(q) \/ ExpandPackage(q)
                                     \/ ExpandVersion(q) \/ VersionNotFound(q)
         \/ /\ phase = "traversing"
            /\ phase' \in {"traversing", "memory_out", "failed"} /\ request' = request
         \/ phase = "traversing" /\ Answer
         \/ UNCHANGED vars
<1>1. ASSUME NEW q \in Requests, Receive(q)
      PROVE  /\ phase = "idle" /\ phase' \in {"traversing", "refused"}
             /\ request'.kind \notin Expansions
  BY <1>1 DEF Receive
<1>2. ASSUME NEW q \in Requests,
             ExpandReqFile(q) \/ ExpandPackage(q) \/ ExpandVersion(q) \/ VersionNotFound(q)
      PROVE  phase = "idle"
  BY <1>2 DEF ExpandReqFile, ExpandPackage, ExpandVersion, VersionNotFound,
     Reply
<1>3. ASSUME NEW rel \in Relations, Extend(rel)
      PROVE  phase = "traversing" /\ phase' = "traversing" /\ request' = request
  BY <1>3 DEF Extend, Traversing
<1>4. NextPath => phase = "traversing" /\ phase' = "traversing" /\ request' = request
  BY DEF NextPath, Traversing
<1>5. QueryFails => /\ phase = "traversing" /\ phase' \in {"memory_out", "failed"}
                    /\ request' = request
  BY DEF QueryFails, Traversing
<1>6. Answer => phase = "traversing"
  BY DEF Answer
<1> QED
  BY <1>1, <1>2, <1>3, <1>4, <1>5, <1>6 DEF Next

\* The data for SMT are what the finished traversal has visited.
LEMMA DataInvariant == Spec => []DataInv
<1>1. Init => DataInv
  BY DEF Init, DataInv
<1>2. Inv /\ DataInv /\ [Next]_vars => DataInv'
  <2> SUFFICES ASSUME Inv, DataInv, [Next]_vars, phase' = "answered", request'.kind = "smt"
               PROVE  paths' # << >> /\ at' > Len(paths') /\ answer' = DataForSmt'
    BY RequestStays DEF DataInv
  <2>1. ASSUME NEW q \in Requests, ExpandReqFile(q) \/ ExpandPackage(q) \/ ExpandVersion(q)
                                     \/ VersionNotFound(q)
        PROVE  FALSE
    <3>1. request' = q /\ q.kind \in Expansions
      BY <2>1 DEF ExpandReqFile, ExpandPackage, ExpandVersion,
         VersionNotFound, Reply, Expansions
    <3> QED
      BY <3>1 DEF Expansions
  <2>2. CASE Answer
    <3>1. /\ UNCHANGED <<requires, request, paths, at>> /\ phase = "traversing"
          /\ at > Len(paths) /\ (request.kind = "smt" => answer' = DataForSmt)
      BY <2>2 DEF Answer
    <3>2. DataForSmt' = DataForSmt
      BY <3>1 DEF DataForSmt, Relations, Visited
    <3> QED
      BY <3>1, <3>2 DEF Inv
  <2>3. CASE UNCHANGED vars
    <3>1. UNCHANGED <<requires, request, paths, at, phase, answer>>
      BY <2>3 DEF vars
    <3>2. DataForSmt' = DataForSmt
      BY <3>1 DEF DataForSmt, Relations, Visited
    <3> QED
      BY <3>1, <3>2 DEF DataInv
  <2> QED
    BY <2>1, <2>2, <2>3, PhaseSteps
<1> QED
  BY <1>1, <1>2, InvInvariant, PTL DEF Spec

\* What is required by one node, and what that leads to.
LEMMA RequiredNodes ==
  ASSUME NEW node
  PROVE  {row.node : row \in RequiredBy(node)} = Follows({node})
<1>1. ASSUME NEW r \in requires, r.from = node
      PROVE  r.to \in {row.node : row \in RequiredBy(node)}
  <2>1. [node |-> r.to, constraint |-> r.constraint] \in RequiredBy(node)
    BY <1>1 DEF RequiredBy
  <2> QED
    BY <2>1
<1>2. ASSUME NEW row \in RequiredBy(node) PROVE row.node \in Follows({node})
  <2>1. PICK r \in requires :
          r.from = node /\ row = [node |-> r.to, constraint |-> r.constraint]
    BY <1>2 DEF RequiredBy
  <2> QED
    BY <2>1 DEF Follows
<1>3. \A n \in Follows({node}) : \E r \in requires : r.from = node /\ n = r.to
  BY DEF Follows
<1>4. {row.node : row \in RequiredBy(node)} \subseteq Follows({node})
  BY <1>2
<1>5. ASSUME NEW n \in Follows({node}) PROVE n \in {row.node : row \in RequiredBy(node)}
  <2>1. PICK r \in requires : r.from = node /\ n = r.to
    BY <1>3
  <2> QED
    BY <1>1, <2>1
<1>6. Follows({node}) \subseteq {row.node : row \in RequiredBy(node)}
  BY <1>5
<1> QED
  BY <1>4, <1>6

\* Browsing shows of a file and of a package all they lead to, of a version
\* one requirement if there is any, and "not found" only if there is none.
THEOREM BrowsingExact == Spec => []ExpansionsExact
<1>1. Init => ExpansionsExact
  BY DEF Init, ExpansionsExact
<1>2. Inv /\ ExpansionsExact /\ [Next]_vars => ExpansionsExact'
  <2> SUFFICES ASSUME Inv, ExpansionsExact, [Next]_vars PROVE ExpansionsExact'
    OBVIOUS
  <2>1. ASSUME request'.kind \notin Expansions PROVE ExpansionsExact'
    BY <2>1 DEF ExpansionsExact, Expansions
  <2>2. ASSUME NEW q \in Requests, ExpandReqFile(q) PROVE ExpansionsExact'
    <3>1. /\ request' = q /\ q.kind = "expand_req_file" /\ answer' = RequiredBy(q.start)
          /\ requires' = requires
      BY <2>2 DEF ExpandReqFile, Reply
    <3>2. q.start = File
      BY <3>1 DEF Requests
    <3>3. Follows({File})' = Follows({File})
      BY <3>1 DEF Follows
    <3> QED
      BY <3>1, <3>2, <3>3, RequiredNodes DEF ExpansionsExact
  <2>3. ASSUME NEW q \in Requests, ExpandPackage(q) PROVE ExpansionsExact'
    <3>1. /\ request' = q /\ q.kind = "expand_package"
          /\ answer' = FilterVersions(VersionsOf(q.start), q.constraint)
      BY <2>3 DEF ExpandPackage, Reply
    <3> QED
      BY <3>1 DEF ExpansionsExact, FilterVersions, VersionsOf
  <2>4. ASSUME NEW q \in Requests, ExpandVersion(q) PROVE ExpansionsExact'
    <3>1. PICK row \in RequiredBy(q.start) : Reply(q, {row})
      BY <2>4 DEF ExpandVersion
    <3>2. /\ request' = q /\ q.kind = "expand_version" /\ answer' = {row}
          /\ requires' = requires /\ phase' = "answered"
      BY <2>4, <3>1 DEF ExpandVersion, Reply
    <3>3. row.node \in Follows({q.start}) /\ Follows({q.start})' = Follows({q.start})
      BY <3>1, <3>2 DEF RequiredBy, Follows
    <3> QED
      BY <3>2, <3>3 DEF ExpansionsExact
  <2>5. ASSUME NEW q \in Requests, VersionNotFound(q) PROVE ExpansionsExact'
    <3>1. /\ request' = q /\ q.kind = "expand_version" /\ RequiredBy(q.start) = {}
          /\ requires' = requires /\ phase' = "not_found"
      BY <2>5 DEF VersionNotFound
    <3>2. Follows({q.start})' = Follows({q.start})
      BY <3>1 DEF Follows
    <3>3. {row.node : row \in RequiredBy(q.start)} = {}
      BY <3>1
    <3>4. Follows({q.start}) = {}
      BY <3>3, RequiredNodes
    <3> QED
      BY <3>1, <3>2, <3>4 DEF ExpansionsExact
  <2>6. CASE Answer
    <3>1. phase = "traversing" /\ request' = request
      BY <2>6 DEF Answer
    <3> QED
      BY <2>1, <3>1, NoExpansion
  <2>7. CASE UNCHANGED vars
    <3>1. \A nodes : Follows(nodes)' = Follows(nodes)
      BY <2>7 DEF vars, Follows
    <3>2. UNCHANGED <<requires, request, phase, answer>>
      BY <2>7 DEF vars
    <3> QED
      BY <3>1, <3>2 DEF ExpansionsExact
  <2> QED
    BY <2>1, <2>2, <2>3, <2>4, <2>5, <2>6, <2>7, PhaseSteps, NoExpansion
<1> QED
  BY <1>1, <1>2, InvInvariant, PTL DEF Spec
-------------------------------------------------------------------------------
(* How far packages are *)

\* A set of naturals that holds 0 and the successor of each of its members
\* holds them all.
LEMMA AllNaturals ==
  ASSUME NEW S, 0 \in S, \A n \in Nat : n \in S => n + 1 \in S
  PROVE  Nat \subseteq S
<1> SUFFICES ASSUME Nat \ S # {} PROVE FALSE
  OBVIOUS
<1> DEFINE T == Nat \ S
<1>1. PICK n \in T : \A m \in T : ~(m < n)
  <2>1. T \subseteq Nat /\ T # {}
    OBVIOUS
  <2>2. PICK n \in T : \A m \in T : ~(<<m, n>> \in OpToRel(<, Nat))
    <3> HIDE DEF T
    <3> QED
      BY <2>1, NatLessThanWellFounded, WFMin
  <2> QED
    BY <2>1, <2>2 DEF OpToRel
<1>2. n \in Nat /\ n # 0 /\ n - 1 \in Nat /\ n - 1 < n
  OBVIOUS
<1>3. n - 1 \in S
  BY <1>1, <1>2
<1>4. (n - 1) + 1 \in S /\ (n - 1) + 1 = n
  BY <1>2, <1>3
<1> QED
  BY <1>4

\* One step further from the file.
Holders(packages) == {v \in Versions : OwnerOf[v] \in packages}
Further(packages) == packages \cup Follows({File} \cup Holders(packages))

Count == Cardinality(Packages)

\* What Within is: the function its recursive definition describes.
LEMMA WithinIs ==
  /\ Count \in Nat /\ Within[0] = {}
  /\ \A n \in 1 .. Count : Within[n] = Further(Within[n - 1])
<1> DEFINE Loop(f, n) == IF n = 0 THEN {} ELSE Further(f[n - 1])
           Upto(k) == \E f : f = [n \in 0 .. k |-> Loop(f, n)]
           K == {k \in Nat : Upto(k)}
           within[n \in 0 .. Count] ==
             IF n = 0 THEN {}
             ELSE within[n - 1] \cup Follows({File} \cup Holders(within[n - 1]))
<1>1. Count \in Nat
  BY FS_CardinalityType, PackagesAssumption DEF Count
<1>2. 0 \in K
  <2> DEFINE f == [n \in 0 .. 0 |-> {}]
  <2>1. \A n \in 0 .. 0 : n = 0
    OBVIOUS
  <2>2. f = [n \in 0 .. 0 |-> Loop(f, n)]
    BY <2>1
  <2> QED
    BY <2>2
<1>3. ASSUME NEW k \in Nat, k \in K PROVE k + 1 \in K
  <2>1. PICK f : f = [n \in 0 .. k |-> Loop(f, n)]
    BY <1>3
  <2> DEFINE g == [n \in 0 .. k + 1 |-> IF n = k + 1 THEN Further(f[k]) ELSE f[n]]
  <2>2. ASSUME NEW n \in 0 .. k + 1 PROVE g[n] = Loop(g, n)
    <3>1. CASE n = k + 1
      <4>1. n # 0 /\ n - 1 = k /\ k \in 0 .. k + 1 /\ k # k + 1
        BY <3>1
      <4>2. g[n - 1] = f[k] /\ g[n] = Further(f[k])
        BY <3>1, <4>1
      <4> QED
        BY <4>1, <4>2
    <3>2. CASE n \in 1 .. k
      <4>1. n - 1 \in 0 .. k + 1 /\ n - 1 # k + 1 /\ n # k + 1 /\ n \in 0 .. k /\ n # 0
        BY <3>2
      <4>2. g[n - 1] = f[n - 1] /\ g[n] = f[n]
        BY <4>1
      <4>3. f[n] = Loop(f, n)
        BY <2>1, <4>1
      <4> QED
        BY <4>1, <4>2, <4>3
    <3>3. CASE n = 0
      <4>1. 0 \in 0 .. k /\ 0 # k + 1 /\ 0 \in 0 .. k + 1
        OBVIOUS
      <4>2. f[0] = {}
        BY <2>1, <4>1
      <4> QED
        BY <3>3, <4>1, <4>2
    <3> QED
      BY <3>1, <3>2, <3>3
  <2>3. g = [n \in 0 .. k + 1 |-> Loop(g, n)]
    BY <2>2
  <2> HIDE DEF g, Loop
  <2>4. Upto(k + 1)
    BY <2>3
  <2> HIDE DEF Upto
  <2> QED
    BY <2>4
<1>4. \E f : f = [n \in 0 .. Count |-> Loop(f, n)]
  <2>1. \A k \in Nat : k \in K => k + 1 \in K
    BY <1>3
  <2>2. Count \in K
    <3> HIDE DEF K
    <3> QED
      BY <1>1, <1>2, <2>1, AllNaturals
  <2>3. Upto(Count)
    <3> HIDE DEF Upto
    <3> QED
      BY <2>2
  <2> QED
    BY <2>3
<1>5. within = [n \in 0 .. Count |-> Loop(within, n)]
  <2>1. \E f : f = [n \in 0 .. Count |->
              IF n = 0 THEN {} ELSE f[n - 1] \cup Follows({File} \cup Holders(f[n - 1]))]
    BY <1>4 DEF Further
  <2>2. within = [n \in 0 .. Count |->
          IF n = 0 THEN {} ELSE within[n - 1] \cup Follows({File} \cup Holders(within[n - 1]))]
    BY <2>1
  <2> QED
    BY <2>2 DEF Further
<1>6. Within = within
  BY DEF Within, Holders, Count
<1> HIDE DEF within
<1>7. 0 \in 0 .. Count /\ \A n \in 1 .. Count : n \in 0 .. Count /\ n # 0
  BY <1>1
<1> QED
  BY <1>1, <1>5, <1>6, <1>7

\* Within n steps, however large n.
Reach(n) == IF n <= Count THEN Within[n] ELSE Within[Count]

\* There are no more steps to take than there are packages: each either finds
\* a package more or shows that all are found.
LEMMA ReachCloses ==
  ASSUME requires \subseteq Requirement
  PROVE  /\ \A n \in 0 .. Count : Within[n] \subseteq Packages
         /\ Further(Within[Count]) = Within[Count]
<1>0. /\ Count \in Nat /\ Within[0] = {} /\ IsFiniteSet(Packages)
      /\ \A n \in 1 .. Count : Within[n] = Further(Within[n - 1])
  BY WithinIs, PackagesAssumption
<1>1. \A nodes : Follows(nodes) \subseteq Packages
  BY DEF Follows, Requirement
<1>2. \A X : X \subseteq Further(X) /\ (X \subseteq Packages => Further(X) \subseteq Packages)
  BY <1>1 DEF Further
<1> DEFINE Grows(n) == /\ Within[n] \subseteq Packages
                       /\ Cardinality(Within[n]) >= n \/ Further(Within[n]) = Within[n]
           G == {n \in Nat : n <= Count => Grows(n)}
<1>3. 0 \in G
  <2>1. Grows(0)
    BY <1>0, FS_EmptySet
  <2> HIDE DEF Grows
  <2> QED
    BY <2>1
<1>4. ASSUME NEW n \in Nat, n \in G PROVE n + 1 \in G
  <2> SUFFICES ASSUME n + 1 <= Count PROVE Grows(n + 1)
    <3> HIDE DEF Grows
    <3> QED
      OBVIOUS
  <2>1. Grows(n)
    <3> HIDE DEF Grows
    <3> QED
      BY <1>0, <1>4
  <2>2. Within[n + 1] = Further(Within[n])
    <3>1. n + 1 \in 1 .. Count /\ n + 1 - 1 = n
      BY <1>0
    <3> QED
      BY <1>0, <3>1
  <2>3. Within[n + 1] \subseteq Packages /\ Within[n] \subseteq Within[n + 1]
    BY <1>2, <2>1, <2>2
  <2>4. CASE Further(Within[n]) = Within[n]
    BY <2>2, <2>3, <2>4
  <2>5. CASE Cardinality(Within[n]) >= n /\ Further(Within[n]) # Within[n]
    <3>1. IsFiniteSet(Within[n + 1]) /\ IsFiniteSet(Within[n])
      BY <1>0, <2>1, <2>3, FS_Subset
    <3>2. Cardinality(Within[n]) < Cardinality(Within[n + 1])
      <4>1. Within[n] # Within[n + 1]
        BY <2>2, <2>5
      <4>2. /\ Cardinality(Within[n]) <= Cardinality(Within[n + 1])
            /\ Cardinality(Within[n]) = Cardinality(Within[n + 1]) => Within[n] = Within[n + 1]
        BY <2>3, <3>1, FS_Subset
      <4>3. Cardinality(Within[n]) \in Nat /\ Cardinality(Within[n + 1]) \in Nat
        BY <3>1, FS_CardinalityType
      <4> QED
        BY <4>1, <4>2, <4>3
    <3>3. Cardinality(Within[n]) \in Nat /\ Cardinality(Within[n + 1]) \in Nat
      BY <3>1, FS_CardinalityType
    <3> QED
      BY <2>3, <2>5, <3>2, <3>3
  <2> QED
    BY <2>1, <2>4, <2>5
<1>5. \A n \in Nat : n <= Count => Grows(n)
  <2>1. \A n \in Nat : n \in G => n + 1 \in G
    BY <1>4
  <2>2. Nat \subseteq G
    <3> HIDE DEF G
    <3> QED
      BY <1>3, <2>1, AllNaturals
  <2> HIDE DEF Grows
  <2> QED
    BY <2>2
<1>6. Further(Within[Count]) = Within[Count]
  <2>1. Grows(Count) /\ IsFiniteSet(Within[Count])
    BY <1>0, <1>5, FS_Subset
  <2>2. CASE Cardinality(Within[Count]) >= Count
    <3>1. Cardinality(Within[Count]) <= Count /\ Cardinality(Within[Count]) \in Nat
      BY <1>0, <2>1, FS_Subset, FS_CardinalityType DEF Count
    <3>2. Cardinality(Within[Count]) = Cardinality(Packages)
      BY <1>0, <2>2, <3>1 DEF Count
    <3>3. Within[Count] = Packages
      BY <1>0, <2>1, <3>2, FS_Subset
    <3> QED
      BY <1>2, <3>3
  <2> QED
    BY <2>1, <2>2
<1>7. \A n \in 0 .. Count : Within[n] \subseteq Packages
  BY <1>0, <1>5
<1> QED
  BY <1>6, <1>7

\* One step more adds what the versions reached so far require.
LEMMA ReachGrows ==
  ASSUME requires \subseteq Requirement, NEW n \in Nat
  PROVE  /\ Reach(0) = {} /\ Reach(n) \subseteq Packages
         /\ Reach(n + 1) = Further(Reach(n))
         /\ Reach(n) \subseteq Reach(n + 1)
<1>1. /\ Count \in Nat /\ Within[0] = {}
      /\ \A k \in 1 .. Count : Within[k] = Further(Within[k - 1])
  BY WithinIs
<1>2. Reach(n + 1) = Further(Reach(n))
  <2>1. CASE n < Count
    <3>1. n + 1 \in 1 .. Count /\ n + 1 - 1 = n /\ n + 1 <= Count /\ n <= Count
      BY <1>1, <2>1
    <3> QED
      BY <1>1, <3>1 DEF Reach
  <2>2. CASE n >= Count
    <3>1. Reach(n + 1) = Within[Count] /\ Reach(n) = Within[Count]
      BY <1>1, <2>2 DEF Reach
    <3> QED
      BY <3>1, ReachCloses
  <2> QED
    BY <1>1, <2>1, <2>2
<1>3. Reach(0) = {}
  BY <1>1 DEF Reach
<1>4. Reach(n) \subseteq Packages
  BY <1>1, ReachCloses DEF Reach
<1> QED
  BY <1>2, <1>3, <1>4 DEF Further

\* What is reached in fewer steps is reached in more.
LEMMA ReachMonotone ==
  ASSUME requires \subseteq Requirement
  PROVE  \A m, n \in Nat : m <= n => Reach(m) \subseteq Reach(n)
<1> SUFFICES ASSUME NEW m \in Nat PROVE \A n \in Nat : m <= n => Reach(m) \subseteq Reach(n)
  OBVIOUS
<1> DEFINE G == {n \in Nat : m <= n => Reach(m) \subseteq Reach(n)}
<1>1. 0 \in G
  OBVIOUS
<1>2. ASSUME NEW n \in Nat, n \in G PROVE n + 1 \in G
  <2>1. Reach(n) \subseteq Reach(n + 1)
    BY ReachGrows
  <2> QED
    BY <1>2, <2>1
<1>3. Nat \subseteq G
  <2>1. \A n \in Nat : n \in G => n + 1 \in G
    BY <1>2
  <2> HIDE DEF G
  <2> QED
    BY <1>1, <2>1, AllNaturals
<1> QED
  BY <1>3

\* The limit of a request takes in all it reaches.
LEMMA ReachLimit ==
  ASSUME requires \subseteq Requirement, request.depth \in Int,
         NEW n \in Nat, request.depth = -1 \/ (request.depth >= 1 /\ n <= request.depth)
  PROVE  /\ Limit(request) \in Nat /\ Limit(request) <= Count
         /\ Reach(n) \subseteq Within[Limit(request)]
<1>1. Count \in Nat
  BY WithinIs
<1>2. /\ Limit(request) \in Nat /\ Limit(request) <= Count
      /\ Limit(request) = Count \/ n <= Limit(request)
  BY <1>1 DEF Limit, Count
<1>3. Reach(Limit(request)) = Within[Limit(request)]
  BY <1>2 DEF Reach
<1>4. CASE n <= Limit(request)
  BY <1>2, <1>3, <1>4, ReachMonotone
<1>5. CASE Limit(request) = Count
  <2>1. CASE n <= Count
    BY <1>1, <1>3, <1>5, <2>1, ReachMonotone
  <2>2. CASE n > Count
    BY <1>1, <1>5, <2>2 DEF Reach
  <2> QED
    BY <1>1, <2>1, <2>2
<1> QED
  BY <1>2, <1>4, <1>5
-------------------------------------------------------------------------------
(* The traversal for SMT *)

\* A traversal for SMT that found all it could.
Finished == Inv /\ paths # << >> /\ at > Len(paths) /\ request.kind = "smt"
            /\ request \in Requests

\* What is known of such a traversal.
LEMMA FinishedParts ==
  ASSUME Finished
  PROVE  /\ Trail /\ requires \subseteq Requirement /\ request.start = File
         /\ request.depth \in Int /\ (request.depth = -1 \/ request.depth >= 1)
         /\ MaxLevel(request) = IF request.depth = -1 THEN -1 ELSE 2 * request.depth
         /\ 1 \in DOMAIN paths /\ paths[1].node = File /\ paths[1].length = 0
         /\ DOMAIN paths = 1 .. Len(paths) /\ Len(paths) \in Nat
         /\ \A k \in DOMAIN paths : paths[k].length \in Nat /\ Closed(k)
         /\ \A node : Whitelisted(node)
<1>1. Trail /\ requires \subseteq Requirement /\ RequestOK /\ paths \in Seq(Path)
  BY DEF Finished, Inv, Trail
<1>2. MaxLevel(request) = IF request.depth = -1 THEN -1 ELSE 2 * request.depth
  BY DEF Finished, MaxLevel
<1>3. request.depth \in Int /\ (request.depth = -1 \/ request.depth >= 1)
  BY <1>1, <1>2 DEF RequestOK, ValidMaxDepth
<1>4. request.start = File
  BY DEF Requests, Finished
<1>5. Len(paths) \in Nat /\ DOMAIN paths = 1 .. Len(paths) /\ 1 \in DOMAIN paths
  BY <1>1 DEF Finished
<1>6. \A k \in DOMAIN paths : paths[k] \in Path
  BY <1>1
<1>7. \A k \in DOMAIN paths : paths[k].length \in Nat
  BY <1>6 DEF Path
<1>8. \A k \in DOMAIN paths : Closed(k)
  BY <1>1, <1>5 DEF Finished, Trail, Inv
<1>9. paths[1].node = File /\ paths[1].length = 0
  BY <1>1, <1>4 DEF Trail, StartPath
<1>10. \A node : Whitelisted(node)
  BY DEF Finished, Whitelisted
<1> QED
  BY <1>1, <1>2, <1>3, <1>4, <1>5, <1>7, <1>8, <1>9, <1>10

\* What a path shows of how far its end is: packages are found at odd
\* lengths, versions at even ones.
Found(k) ==
  /\ paths[k].node = File => k = 1
  /\ paths[k].node \in Packages =>
       \E m \in Nat : paths[k].length = 2 * m - 1 /\ paths[k].node \in Reach(m)
  /\ paths[k].node \in Versions =>
       \E m \in Nat : paths[k].length = 2 * m /\ OwnerOf[paths[k].node] \in Reach(m)

\* A path shows it when those before it do.
LEMMA FoundNext ==
  ASSUME Finished, NEW k \in DOMAIN paths, k # 1,
         \A j \in DOMAIN paths : j < k => Found(j)
  PROVE  Found(k)
<1>1. /\ Trail /\ requires \subseteq Requirement /\ 1 \in DOMAIN paths
      /\ paths[1].node = File /\ paths[1].length = 0
      /\ DOMAIN paths = 1 .. Len(paths) /\ Len(paths) \in Nat
  BY FinishedParts
<1>2. PICK j \in 1 .. k - 1 :
        /\ paths[k].last \in Relations
        /\ paths[k].last.from = paths[j].node /\ paths[k].last.to = paths[k].node
        /\ paths[k].length = paths[j].length + 1
  BY <1>1 DEF Trail, Grown
<1>3. j \in DOMAIN paths /\ j < k /\ paths[j].length \in Nat
  BY <1>1, FinishedParts
<1>4. Found(j)
  BY <1>3
<1>5. paths[k].node = File => k = 1
  BY <1>1 DEF Trail
<1> DEFINE rel == paths[k].last
<1>6. CASE /\ rel.type = "REQUIRE" /\ rel.from \in {File} \cup Versions /\ rel.to \in Packages
           /\ \E r \in requires : r.from = rel.from /\ r.to = rel.to
  <2>1. PICK r \in requires : r.from = rel.from /\ r.to = rel.to
    BY <1>6
  <2>2. paths[k].node \in Packages /\ paths[k].node \notin Versions
    BY <1>2, <1>6
  <2>3. CASE rel.from = File
    <3>1. j = 1 /\ paths[k].length = 1
      BY <1>1, <1>2, <1>4, <2>3 DEF Found
    <3>2. r.to \in Reach(1)
      <4>1. r.to \in Further(Reach(0))
        BY <2>1, <2>3 DEF Further, Follows
      <4>2. Reach(0 + 1) = Further(Reach(0))
        BY <1>1, ReachGrows
      <4> QED
        BY <4>1, <4>2
    <3>3. 1 \in Nat /\ paths[k].length = 2 * 1 - 1 /\ paths[k].node \in Reach(1)
      BY <1>2, <2>1, <3>1, <3>2
    <3> QED
      BY <1>5, <2>2, <3>3 DEF Found
  <2>4. CASE rel.from \in Versions
    <3>1. PICK m \in Nat : paths[j].length = 2 * m /\ OwnerOf[rel.from] \in Reach(m)
      BY <1>2, <1>4, <2>4 DEF Found
    <3>2. r.to \in Further(Reach(m))
      BY <2>1, <2>4, <3>1 DEF Further, Follows, Holders
    <3>3. m + 1 \in Nat /\ paths[k].length = 2 * (m + 1) - 1 /\ paths[k].node \in Reach(m + 1)
      <4>1. Reach(m + 1) = Further(Reach(m))
        BY <1>1, ReachGrows
      <4>2. paths[k].length = 2 * m + 1 /\ paths[k].node = r.to
        BY <1>2, <2>1, <3>1
      <4> QED
        BY <3>2, <4>1, <4>2
    <3> QED
      BY <1>5, <2>2, <3>3 DEF Found
  <2> QED
    BY <1>6, <2>3, <2>4
<1>7. CASE /\ rel.type = "HAVE" /\ rel.to \in Versions
           /\ rel.from = OwnerOf[rel.to] /\ rel.from \in Packages
  <2>1. PICK m \in Nat : paths[j].length = 2 * m - 1 /\ paths[j].node \in Reach(m)
    BY <1>2, <1>4, <1>7 DEF Found
  <2>2. paths[k].length = 2 * m /\ OwnerOf[paths[k].node] \in Reach(m)
    BY <1>2, <1>7, <2>1
  <2>3. paths[k].node \in Versions /\ paths[k].node \notin Packages
    BY <1>2, <1>7
  <2> QED
    BY <1>5, <2>2, <2>3 DEF Found
<1> QED
  BY <1>1, <1>2, <1>6, <1>7, RelationParts

\* Every path shows it.
LEMMA AllFound == ASSUME Finished PROVE \A k \in DOMAIN paths : Found(k)
<1> DEFINE S == {n \in Nat : \A k \in DOMAIN paths : k <= n => Found(k)}
<1>1. DOMAIN paths = 1 .. Len(paths) /\ Len(paths) \in Nat /\ paths[1].node = File
  BY FinishedParts
<1>2. 0 \in S
  BY <1>1
<1>3. ASSUME NEW n \in Nat, n \in S PROVE n + 1 \in S
  <2> SUFFICES ASSUME NEW k \in DOMAIN paths, k <= n + 1 PROVE Found(k)
    OBVIOUS
  <2>1. CASE k <= n
    BY <1>3, <2>1
  <2>2. CASE k = n + 1 /\ k # 1
    <3>1. \A j \in DOMAIN paths : j < k => Found(j)
      BY <1>1, <1>3, <2>2
    <3> QED
      BY <2>2, <3>1, FoundNext
  <2>3. CASE k = 1
    BY <1>1, <2>3 DEF Found
  <2> QED
    BY <1>1, <2>1, <2>2, <2>3
<1>4. Len(paths) \in S
  <2>1. \A n \in Nat : n \in S => n + 1 \in S
    BY <1>3
  <2> HIDE DEF S
  <2> QED
    BY <1>1, <1>2, <2>1, AllNaturals
<1> QED
  BY <1>1, <1>4

\* What is visited is within the limit, for packages and for the packages of
\* versions.
LEMMA VisitedWithin ==
  ASSUME Finished, NEW k \in DOMAIN paths
  PROVE  /\ paths[k].node \in Packages => paths[k].node \in Within[Limit(request)]
         /\ paths[k].node \in Versions => OwnerOf[paths[k].node] \in Within[Limit(request)]
<1>1. /\ Trail /\ requires \subseteq Requirement /\ 1 \in DOMAIN paths
      /\ paths[1].node = File /\ request.depth \in Int
      /\ (request.depth = -1 \/ request.depth >= 1)
      /\ MaxLevel(request) = IF request.depth = -1 THEN -1 ELSE 2 * request.depth
      /\ DOMAIN paths = 1 .. Len(paths) /\ Len(paths) \in Nat
  BY FinishedParts
<1>2. CASE k # 1
  <2>1. PICK j \in 1 .. k - 1 :
          paths[k].length = paths[j].length + 1 /\ Shorter(paths[j].length)
    BY <1>1, <1>2 DEF Trail, Grown
  <2>2. paths[j].length \in Nat
    BY <1>1, FinishedParts
  <2>3. request.depth = -1 \/ paths[k].length <= 2 * request.depth
    BY <1>1, <2>1, <2>2 DEF Shorter
  <2>4. \A m \in Nat : paths[k].length \in {2 * m - 1, 2 * m} =>
          request.depth = -1 \/ (request.depth >= 1 /\ m <= request.depth)
    BY <1>1, <2>3
  <2>5. Found(k)
    BY AllFound
  <2>6. ASSUME paths[k].node \in Packages PROVE paths[k].node \in Within[Limit(request)]
    <3>1. PICK m \in Nat : paths[k].length = 2 * m - 1 /\ paths[k].node \in Reach(m)
      BY <2>5, <2>6 DEF Found
    <3> QED
      BY <1>1, <2>4, <3>1, ReachLimit
  <2>7. ASSUME paths[k].node \in Versions
        PROVE  OwnerOf[paths[k].node] \in Within[Limit(request)]
    <3>1. PICK m \in Nat : paths[k].length = 2 * m /\ OwnerOf[paths[k].node] \in Reach(m)
      BY <2>5, <2>7 DEF Found
    <3> QED
      BY <1>1, <2>4, <3>1, ReachLimit
  <2> QED
    BY <2>6, <2>7
<1>3. CASE k = 1
  BY <1>1, <1>3
<1> QED
  BY <1>2, <1>3

\* An open path's relationships were followed.
LEMMA Followed ==
  ASSUME Finished, NEW j \in DOMAIN paths, NEW rel \in Relations, rel.from = paths[j].node,
         request.depth = -1 \/ paths[j].length < 2 * request.depth
  PROVE  \E k \in DOMAIN paths :
           paths[k].node = rel.to /\ paths[k].length <= paths[j].length + 1
BY FinishedParts DEF Shorter, Closed

\* What is within n steps is visited in 2n - 1 relationships.
Seen(n) ==
  \A p \in Within[n] : \E k \in DOMAIN paths :
    paths[k].node = p /\ paths[k].length <= 2 * n - 1

\* The versions of a package within the limit are visited one step further.
LEMMA SeenVersion ==
  ASSUME Finished, NEW n \in 1 .. Limit(request), Seen(n), NEW v \in Versions,
         OwnerOf[v] \in Within[n]
  PROVE  \E k \in DOMAIN paths : paths[k].node = v /\ paths[k].length <= 2 * n
<1>1. requires \subseteq Requirement /\ request.depth \in Int
      /\ (request.depth = -1 \/ request.depth >= 1)
      /\ \A i \in DOMAIN paths : paths[i].length \in Nat
  BY FinishedParts
<1>2. PICK j \in DOMAIN paths : paths[j].node = OwnerOf[v] /\ paths[j].length <= 2 * n - 1
  BY DEF Seen
<1>3. Count \in Nat
  BY WithinIs
<1>4. request.depth = -1 \/ n <= request.depth
  BY <1>1, <1>3 DEF Limit, Count
<1>5. n \in Nat
  BY <1>1, <1>3 DEF Limit, Count
<1> DEFINE rel == [type |-> "HAVE", from |-> OwnerOf[v], to |-> v, constraint |-> None]
<1>6. rel \in Relations
  BY <1>1, RelationOf
<1>7. request.depth = -1 \/ paths[j].length < 2 * request.depth
  BY <1>1, <1>2, <1>4, <1>5
<1>8. PICK k \in DOMAIN paths : paths[k].node = v /\ paths[k].length <= paths[j].length + 1
  BY <1>2, <1>6, <1>7, Followed
<1> QED
  BY <1>1, <1>2, <1>5, <1>8

\* What they require is visited two steps further.
LEMMA SeenNext ==
  ASSUME Finished, NEW n \in Nat, n + 1 <= Limit(request), Seen(n), NEW r \in requires,
         r.from \in {File} \cup Holders(Within[n])
  PROVE  \E k \in DOMAIN paths : paths[k].node = r.to /\ paths[k].length <= 2 * n + 1
<1>1. /\ requires \subseteq Requirement /\ request.depth \in Int
      /\ (request.depth = -1 \/ request.depth >= 1)
      /\ 1 \in DOMAIN paths /\ paths[1].node = File /\ paths[1].length = 0
      /\ \A i \in DOMAIN paths : paths[i].length \in Nat
  BY FinishedParts
<1>2. Count \in Nat /\ Within[0] = {}
  BY WithinIs
<1>3. Limit(request) \in Nat /\ (request.depth = -1 \/ n + 1 <= request.depth)
  BY <1>1, <1>2 DEF Limit, Count
<1>4. PICK j \in DOMAIN paths : paths[j].node = r.from /\ paths[j].length <= 2 * n
  <2>1. CASE r.from = File
    BY <1>1, <2>1
  <2>2. CASE r.from \in Holders(Within[n])
    <3>1. r.from \in Versions /\ OwnerOf[r.from] \in Within[n]
      BY <2>2 DEF Holders
    <3>2. n \in 1 .. Limit(request)
      BY <1>2, <1>3, <3>1
    <3> QED
      BY <3>1, <3>2, SeenVersion
  <2> QED
    BY <2>1, <2>2
<1> DEFINE rel == [type |-> "REQUIRE", from |-> r.from, to |-> r.to,
                   constraint |-> r.constraint]
<1>5. rel \in Relations
  BY <1>1, RelationOf
<1>6. request.depth = -1 \/ paths[j].length < 2 * request.depth
  BY <1>1, <1>3, <1>4
<1>7. PICK k \in DOMAIN paths : paths[k].node = r.to /\ paths[k].length <= paths[j].length + 1
  BY <1>4, <1>5, <1>6, Followed
<1> QED
  BY <1>1, <1>4, <1>7

\* Whatever is within the limit is visited.
LEMMA AllSeen == ASSUME Finished PROVE \A n \in 0 .. Limit(request) : Seen(n)
<1> DEFINE S == {n \in Nat : n <= Limit(request) => Seen(n)}
<1>1. /\ requires \subseteq Requirement /\ request.depth \in Int
      /\ (request.depth = -1 \/ request.depth >= 1)
      /\ \A i \in DOMAIN paths : paths[i].length \in Nat
  BY FinishedParts
<1>2. /\ Count \in Nat /\ Within[0] = {}
      /\ \A n \in 1 .. Count : Within[n] = Further(Within[n - 1])
  BY WithinIs
<1>3. Limit(request) \in Nat /\ Limit(request) <= Count
  BY <1>1, <1>2 DEF Limit, Count
<1>4. 0 \in S
  BY <1>2 DEF Seen
<1>5. ASSUME NEW n \in Nat, n \in S PROVE n + 1 \in S
  <2> SUFFICES ASSUME n + 1 <= Limit(request) PROVE Seen(n + 1)
    OBVIOUS
  <2>1. Seen(n)
    BY <1>3, <1>5
  <2>2. Within[n + 1] = Further(Within[n])
    <3>1. n + 1 \in 1 .. Count /\ n + 1 - 1 = n
      BY <1>2, <1>3
    <3> QED
      BY <1>2, <3>1
  <2>3. ASSUME NEW p \in Within[n + 1]
        PROVE  \E k \in DOMAIN paths : paths[k].node = p /\ paths[k].length <= 2 * n + 1
    <3>1. CASE p \in Within[n]
      <4>1. PICK k \in DOMAIN paths : paths[k].node = p /\ paths[k].length <= 2 * n - 1
        BY <2>1, <3>1 DEF Seen
      <4> QED
        BY <1>1, <4>1
    <3>2. CASE p \in Follows({File} \cup Holders(Within[n]))
      BY <2>1, <3>2, SeenNext DEF Follows
    <3> QED
      BY <2>2, <3>1, <3>2 DEF Further
  <2>4. 2 * (n + 1) - 1 = 2 * n + 1
    OBVIOUS
  <2> QED
    BY <2>3, <2>4 DEF Seen
<1>6. Nat \subseteq S
  <2>1. \A n \in Nat : n \in S => n + 1 \in S
    BY <1>5
  <2> HIDE DEF S
  <2> QED
    BY <1>4, <2>1, AllNaturals
<1> QED
  BY <1>3, <1>6

\* The relationships the data for SMT have are those between what was visited.
LEMMA DataParts ==
  /\ DataForSmt.require = {rel \in Relations : /\ rel.type = "REQUIRE"
                                              /\ rel.from \in Visited /\ rel.to \in Visited}
  /\ DataForSmt.have = {rel \in Relations : /\ rel.type = "HAVE"
                                           /\ rel.from \in Visited /\ rel.to \in Visited}
BY DEF DataForSmt

\* The data for SMT of a depth have the packages within that depth with all
\* their versions and every requirement among them, whatever the graph.
THEOREM DataDoCoverDepth == Spec => []DataCoverDepth
<1>1. ASSUME Inv, DataInv, phase = "answered", request.kind = "smt"
      PROVE  DataCoverDepth
  <2> DEFINE limit == Limit(request)
             nearer == {File} \cup {v \in Versions : OwnerOf[v] \in Within[limit - 1]}
  <2>1. Finished /\ answer = DataForSmt
    BY <1>1 DEF Finished, DataInv
  <2>2. /\ requires \subseteq Requirement /\ request.depth \in Int
        /\ (request.depth = -1 \/ request.depth >= 1)
        /\ 1 \in DOMAIN paths /\ paths[1].node = File
        /\ DOMAIN paths = 1 .. Len(paths) /\ Len(paths) \in Nat /\ Trail
    BY <2>1, FinishedParts
  <2>3. Count \in Nat /\ limit \in Nat /\ limit <= Count /\ (Count # 0 => limit # 0)
    BY <2>2, WithinIs DEF Limit, Count
  <2>4. \A n \in 0 .. limit : Seen(n)
    BY <2>1, AllSeen
  <2>5. /\ \A p \in Packages : p \in Visited <=> p \in Within[limit]
        /\ \A v \in Versions : v \in Visited <=> OwnerOf[v] \in Within[limit]
    <3>1. \A p \in Packages : p \in Visited => p \in Within[limit]
      BY <2>1, VisitedWithin DEF Visited
    <3>2. \A v \in Versions : v \in Visited => OwnerOf[v] \in Within[limit]
      BY <2>1, VisitedWithin DEF Visited
    <3>3. \A p \in Within[limit] : p \in Visited
      BY <2>3, <2>4 DEF Seen, Visited
    <3>4. ASSUME NEW v \in Versions, OwnerOf[v] \in Within[limit] PROVE v \in Visited
      <4>1. limit # 0
        BY <3>4, WithinIs
      <4>2. limit \in 1 .. Limit(request) /\ Seen(limit)
        BY <2>3, <2>4, <4>1
      <4> QED
        BY <2>1, <3>4, <4>2, SeenVersion DEF Visited
    <3> QED
      BY <3>1, <3>2, <3>3, <3>4
  <2>6. Within[limit] \subseteq Packages
    BY <2>2, <2>3, ReachCloses
  <2>7. File \in Visited
    BY <2>2 DEF Visited
  <2>8. ASSUME NEW p \in Visited, p # File
        PROVE  \E rel \in Relations : rel.to = p /\ rel.from \in Visited
    <3>1. PICK k \in DOMAIN paths : paths[k].node = p
      BY DEF Visited
    <3>2. k # 1
      BY <2>2, <2>8, <3>1
    <3>3. PICK j \in 1 .. k - 1 :
            /\ paths[k].last \in Relations
            /\ paths[k].last.from = paths[j].node /\ paths[k].last.to = paths[k].node
      BY <2>2, <3>2 DEF Trail, Grown
    <3>4. j \in DOMAIN paths
      BY <2>2
    <3> QED
      BY <3>1, <3>3, <3>4 DEF Visited
  <2>9. {rel.to : rel \in answer.require} = Within[limit]
    <3>1. ASSUME NEW rel \in answer.require PROVE rel.to \in Within[limit]
      BY <2>1, <2>2, <2>5, <3>1, DataParts, RelationParts
    <3>2. ASSUME NEW p \in Within[limit] PROVE \E rel \in answer.require : rel.to = p
      <4>1. p \in Packages /\ p \in Visited /\ p # File /\ p \notin Versions
        BY <2>5, <2>6
      <4>2. PICK rel \in Relations : rel.to = p /\ rel.from \in Visited
        BY <2>8, <4>1
      <4>3. rel.type = "REQUIRE"
        BY <2>2, <4>1, <4>2, RelationParts
      <4> QED
        BY <2>1, <4>1, <4>2, <4>3, DataParts
    <3> QED
      BY <3>1, <3>2
  <2>10. ASSUME NEW v \in Versions
         PROVE  (\E rel \in answer.have : rel.to = v) <=> OwnerOf[v] \in Within[limit]
    <3>1. ASSUME NEW rel \in answer.have, rel.to = v PROVE OwnerOf[v] \in Within[limit]
      BY <2>1, <2>5, <3>1, DataParts
    <3>2. ASSUME OwnerOf[v] \in Within[limit] PROVE \E rel \in answer.have : rel.to = v
      <4> DEFINE rel == [type |-> "HAVE", from |-> OwnerOf[v], to |-> v, constraint |-> None]
      <4>1. rel \in Relations /\ v \in Visited /\ OwnerOf[v] \in Visited
        BY <2>2, <2>5, <2>6, <3>2, RelationOf
      <4>2. rel \in answer.have /\ rel.to = v
        BY <2>1, <4>1, DataParts
      <4> QED
        BY <4>2
    <3> QED
      BY <3>1, <3>2
  <2>11. ASSUME NEW r \in requires, r.from \in nearer
         PROVE  \E rel \in answer.require :
                  rel.from = r.from /\ rel.to = r.to /\ rel.constraint = r.constraint
    <3>1. r.to \in Packages /\ OwnerOf \in [Versions -> Packages]
      BY <2>2 DEF Requirement
    <3>2. Count # 0
      BY <3>1, FS_EmptySet, PackagesAssumption DEF Count
    <3>3. limit - 1 \in Nat /\ limit - 1 + 1 <= limit /\ limit - 1 \in 0 .. limit
          /\ limit \in 1 .. Count
      BY <2>3, <3>2
    <3>4. r.from \in {File} \cup Holders(Within[limit - 1])
      BY <2>11 DEF Holders
    <3>5. Seen(limit - 1)
      BY <2>4, <3>3
    <3>6. r.to \in Visited
      BY <2>1, <3>3, <3>4, <3>5, SeenNext DEF Visited
    <3>7. r.from \in Visited
      <4>1. CASE r.from = File
        BY <2>7, <4>1
      <4>2. CASE r.from \in Holders(Within[limit - 1])
        <5>1. Within[limit] = Further(Within[limit - 1])
          BY <3>3, WithinIs
        <5>2. r.from \in Versions /\ OwnerOf[r.from] \in Within[limit]
          BY <4>2, <5>1 DEF Holders, Further
        <5> QED
          BY <2>5, <5>2
      <4> QED
        BY <3>4, <4>1, <4>2
    <3> DEFINE rel == [type |-> "REQUIRE", from |-> r.from, to |-> r.to,
                       constraint |-> r.constraint]
    <3>8. rel \in Relations
      BY <2>2, RelationOf
    <3>9. rel \in answer.require
      BY <2>1, <3>6, <3>7, <3>8, DataParts
    <3> QED
      BY <3>9
  <2>12. ASSUME NEW rel \in answer.require
         PROVE  rel.from = File \/ \E h \in answer.have : h.to = rel.from
    <3>1. rel.from \in Visited /\ rel.from \in {File} \cup Versions
      BY <2>1, <2>2, DataParts, RelationParts
    <3>2. ASSUME rel.from \in Versions PROVE \E h \in answer.have : h.to = rel.from
      BY <2>5, <2>10, <3>1, <3>2
    <3> QED
      BY <3>1, <3>2
  <2> HIDE DEF limit
  <2> QED
    BY <2>9, <2>10, <2>11, <2>12 DEF DataCoverDepth, limit
<1>2. Inv /\ DataInv => DataCoverDepth
  BY <1>1 DEF DataCoverDepth
<1> QED
  BY <1>2, InvInvariant, DataInvariant, PTL
===============================================================================
