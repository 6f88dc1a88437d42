--------------------------- MODULE DependencyGraph ---------------------------
(***************************************************************************)
(* The part of the Neo4j graph that the repository life cycle reads and    *)
(* writes, and one operator per Cypher query of                            *)
(* app/services/{repository,requirement_file,package}_service.py.  Every   *)
(* query is one auto-commit transaction, hence one atomic step.            *)
(*                                                                         *)
(* Node identifiers (elementid) are modelled by their provenance: the      *)
(* Repository node that task t creates is t itself, and the                *)
(* RequirementFile node that t creates for path f is <<t, f>>.  A partial  *)
(* map is a total function into a set with None.                           *)
(***************************************************************************)
EXTENDS Integers, FiniteSets

CONSTANTS
  Repos,            \* owner/name pairs
  Users,            \* user_id values carried by tokens
  KnownUsers,       \* the users that have a User node
  Tasks,            \* init requests; each is also the node it may create
  Files,            \* paths of requirement files
  Packages,
  Constraints,
  InitialPackages,  \* package nodes that exist beforehand
  None

FileIds == Tasks \X Files
Contents == [Packages -> Constraints \cup {None}]
Nothing == [p \in Packages |-> None]

ASSUME UsersAssumption == KnownUsers \subseteq Users
ASSUME PackagesAssumption == InitialPackages \subseteq Packages
ASSUME NoneAssumption ==
  /\ None \notin Tasks
  /\ None \notin Packages
  /\ None \notin Constraints
  /\ None \notin Nat
  /\ None \notin FileIds
  /\ None \notin Contents
  /\ None \notin [repo : Repos, moment : Nat, complete : BOOLEAN]

VARIABLES
  repository,  \* Repository nodes: owner/name, moment, is_complete
  owns,        \* OWN relationships, each with the task that created it
  uses,        \* RequirementFile node -> the Repository node that USEs it
  requires,    \* REQUIRE relationships, each with the task it stems from
  dirty,       \* files whose relationships changed after their moment
  packages     \* package nodes

graphVars == <<repository, owns, uses, requires, dirty, packages>>

Relation == [file : FileIds, pkg : Packages, con : Constraints, by : Tasks]

GraphTypeOK ==
  /\ repository \in [Tasks -> [repo : Repos, moment : Nat, complete : BOOLEAN]
                              \cup {None}]
  /\ owns \subseteq [user : Users, node : Tasks, by : Tasks]
  /\ uses \in [FileIds -> Tasks \cup {None}]
  /\ requires \subseteq Relation
  /\ dirty \subseteq FileIds
  /\ packages \subseteq Packages

GraphInit ==
  /\ repository = [t \in Tasks |-> None]
  /\ owns = {}
  /\ uses = [id \in FileIds |-> None]
  /\ requires = {}
  /\ dirty = {}
  /\ packages = InitialPackages

-----------------------------------------------------------------------------
(* Queries that only read.  A query that may see several rows and uses one *)
(* of them is the set of the answers it may give.                          *)

\* MATCH ... WHERE elementid(...) = $id finds nothing for the empty id.
NodeExists(n) == n # None /\ repository[n] # None
FileExists(id) == id # None /\ uses[id] # None

\* read_repository_by_owner_and_name
NodesOf(r) == {n \in Tasks : repository[n] # None /\ repository[n].repo = r}

\* read_requirement_files_by_repository: apoc.map.fromPairs keeps one of the
\* files that share a name.
FilesNamed(n, f) == {id \in FileIds : uses[id] = n /\ id[2] = f}

FilesRead(n) ==
  {e \in [Files -> FileIds \cup {None}] :
     \A f \in Files : IF FilesNamed(n, f) = {} THEN e[f] = None
                      ELSE e[f] \in FilesNamed(n, f)}

\* read_packages_by_requirement_file: package name -> constraints, keeping one
\* of the relationships that lead to the same package.
RelationsOf(id) == {q \in requires : q.file = id}

PackagesRead(id) ==
  {h \in Contents :
     \A p \in Packages :
       LET cons == {q.con : q \in {x \in RelationsOf(id) : x.pkg = p}}
       IN IF cons = {} THEN h[p] = None ELSE h[p] \in cons}

-----------------------------------------------------------------------------
(* Queries that write.                                                     *)

\* create_repository: MERGE matches every node with the same owner, name,
\* moment and is_complete; OWN is created for each match.  No row at all
\* when the user has no node.
MergedWith(r, moment) ==
  {n \in NodesOf(r) : repository[n].moment = moment /\ ~repository[n].complete}

CreateRepositoryNode(t, r, moment, user) ==
  LET matched == MergedWith(r, moment)
      rows == IF matched = {} THEN {t} ELSE matched
  IN /\ repository' =
          IF matched # {} THEN repository
          ELSE [repository EXCEPT ![t] = [repo |-> r, moment |-> moment,
                                          complete |-> FALSE]]
     /\ owns' = owns \cup {[user |-> user, node |-> n, by |-> t] : n \in rows}
     /\ UNCHANGED <<uses, requires, dirty, packages>>

\* create_user_repository_rel: MATCH the user and the repository, MERGE OWN.
MergeOwner(t, n, user) ==
  /\ owns' = IF \/ ~NodeExists(n) \/ user \notin KnownUsers
                \/ \E o \in owns : o.user = user /\ o.node = n
             THEN owns
             ELSE owns \cup {[user |-> user, node |-> n, by |-> t]}
  /\ UNCHANGED <<repository, uses, requires, dirty, packages>>

\* update_repository_is_complete
SetFlag(n, flag) ==
  /\ repository' = IF NodeExists(n)
                   THEN [repository EXCEPT ![n].complete = flag]
                   ELSE repository
  /\ UNCHANGED <<owns, uses, requires, dirty, packages>>

\* update_repository_moment
SetMoment(n, moment) ==
  /\ repository' = IF NodeExists(n)
                   THEN [repository EXCEPT ![n].moment = moment]
                   ELSE repository
  /\ UNCHANGED <<owns, uses, requires, dirty, packages>>

\* create_requirement_file: a new node with moment now, used by n.
CreateFile(id, n) ==
  /\ uses' = IF NodeExists(n) THEN [uses EXCEPT ![id] = n] ELSE uses
  /\ UNCHANGED <<repository, owns, requires, dirty, packages>>

\* delete_requirement_file: the pattern asks for a relationship from the file
\* to a package, so only files that have one are matched and deleted.
Doomed(n, f) == {id \in FilesNamed(n, f) : RelationsOf(id) # {}}

DeleteFile(n, f) ==
  /\ uses' = [id \in FileIds |-> IF id \in Doomed(n, f) THEN None ELSE uses[id]]
  /\ requires' = {q \in requires : q.file \notin Doomed(n, f)}
  /\ dirty' = dirty \ Doomed(n, f)
  /\ UNCHANGED <<repository, owns, packages>>

\* A query that changes what file id requires leaves its moment behind.
ChangeRelations(id, new) ==
  /\ requires' = new
  /\ dirty' = IF new = requires THEN dirty ELSE dirty \cup {id}

\* update_requirement_rel_constraints
SetConstraint(id, p, c) ==
  /\ ChangeRelations(id, {IF q.file = id /\ q.pkg = p
                          THEN [q EXCEPT !.con = c] ELSE q : q \in requires})
  /\ UNCHANGED <<repository, owns, uses, packages>>

\* Mutant: the package name is missing from the query.
DeleteRelation_WholeFile(id, p) ==
  /\ ChangeRelations(id, {q \in requires : q.file # id})
  /\ UNCHANGED <<repository, owns, uses, packages>>

\* delete_requirement_file_rel
DeleteRelation(id, p) ==
  /\ ChangeRelations(id, {q \in requires : q.file # id \/ q.pkg # p})
  /\ UNCHANGED <<repository, owns, uses, packages>>

\* relate_packages: MATCH the file and each package, CREATE a relationship.
RelateAll(t, id, batch) ==
  /\ IF FileExists(id)
     THEN ChangeRelations(id, requires \cup
            {[file |-> id, pkg |-> p, con |-> batch[p], by |-> t] :
               p \in {x \in packages : batch[x] # None}})
     ELSE UNCHANGED <<requires, dirty>>
  /\ UNCHANGED <<repository, owns, uses, packages>>

\* update_requirement_file_moment
StampMoment(id) ==
  /\ dirty' = dirty \ {id}
  /\ UNCHANGED <<repository, owns, uses, requires, packages>>

\* The extractor that consumes the package stream (another service): it adds
\* the package node and relates the message's parent to it, when there is one.
ExtractInto(m) ==
  /\ packages' = packages \cup {m.pkg}
  /\ IF FileExists(m.parent)
     THEN ChangeRelations(m.parent, requires \cup
            {[file |-> m.parent, pkg |-> m.pkg, con |-> m.con, by |-> m.by]})
     ELSE UNCHANGED <<requires, dirty>>
  /\ UNCHANGED <<repository, owns, uses>>
=============================================================================
