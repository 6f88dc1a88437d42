------------------------ MODULE RepositoryProperties -------------------------
(***************************************************************************)
(* What the repository life cycle of RepositoryInit promises, and under    *)
(* which of the assumptions Racing, HttpErrors and CommitAnytime.          *)
(***************************************************************************)
EXTENDS RepositoryInit

WorksOn(t, n) == task[t].node = n /\ pc[t] \in Writing

-----------------------------------------------------------------------------
(* The lock that is_complete implements.                                   *)

\* An owner/name pair has at most one Repository node.  create_repository
\* merges on moment and is_complete too, so nothing but the handler's read
\* stands between two requests and two nodes.
OneRepositoryPerName == \A r \in Repos : \A m, n \in NodesOf(r) : m = n

\* While is_complete is TRUE nobody rewrites what hangs from the repository:
\* readers that trust the flag see a finished analysis.
CompleteMeansIdle ==
  \A n \in Tasks : repository[n] # None /\ repository[n].complete =>
    \A t \in Tasks : ~WorksOn(t, n)

\* The flag is FALSE only while a task works on the repository or after one
\* died on it: no path of init_repository returns and leaves it FALSE.
IncompleteHasWorker ==
  \A n \in Tasks : repository[n] # None /\ ~repository[n].complete =>
    \E t \in Tasks : WorksOn(t, n) \/ (task[t].node = n /\ pc[t] = "failed")

\* 409 says that the repository is being processed: some task is at it.
RefusalMeansProcessing ==
  [][\A t \in Tasks : RefuseBusy(t) =>
       \E u \in Tasks, n \in NodesOf(RepoOf[t]) : WorksOn(u, n)]_vars

\* A request that was answered 202 runs to its end, whatever the others do:
\* it finishes, or raises because another task removed its directory.
AcceptedIsServed ==
  \A t \in Tasks : pc[t] = "scheduled" ~> pc[t] \in {"done", "failed"}

\* A repository taken for processing is released again.
EventuallyComplete ==
  \A n \in Tasks : (repository[n] # None /\ ~repository[n].complete)
                     ~> (repository[n] # None /\ repository[n].complete)

-----------------------------------------------------------------------------
(* Why the lock works when no two requests for one repository meet between *)
(* the handler's read and the first write (~Racing): the inductive         *)
(* invariant behind OneRepositoryPerName and CompleteMeansIdle.            *)

Accepted == Window \ {"read"}

\* What a task carries about its repository is true of the graph.
NodesTrue ==
  /\ \A n \in Tasks : repository[n] # None => repository[n].repo = RepoOf[n]
  /\ \A t \in Tasks : task[t].node # None =>
       /\ repository[task[t].node] # None
       /\ repository[task[t].node].repo = RepoOf[t]

\* The window is exclusive, and so is writing below one node.
WindowExclusive ==
  \A t, u \in Tasks : Sibling(t, u) => pc[t] \notin Window \/ pc[u] \notin Window

WritersExclusive ==
  \A t, u \in Tasks : t # u /\ task[t].node # None /\ task[t].node = task[u].node
                       => pc[t] \notin Writing \/ pc[u] \notin Writing

WritersLock ==
  \A t \in Tasks : pc[t] \in Writing /\ task[t].node # None =>
    ~repository[task[t].node].complete

\* An accepted request found no writer, and the record it read still decides
\* rightly between creating and updating.
AcceptedAlone ==
  \A t, u \in Tasks : Sibling(t, u) /\ pc[t] \in Accepted =>
    pc[u] \notin Writing \/ task[u].node = None

RecordCurrent ==
  \A t \in Tasks :
    /\ pc[t] \in {"idle", "read"} => task[t].node = None /\ task[t].seen = None
    /\ pc[t] \in Accepted =>
         /\ task[t].seen = None <=> task[t].node = None
         /\ task[t].seen = None => NodesOf(RepoOf[t]) = {}
    /\ pc[t] = "create" => task[t].seen = None
    /\ pc[t] = "mark" => task[t].seen # None

LockInv ==
  /\ OneRepositoryPerName /\ NodesTrue /\ WindowExclusive /\ WritersExclusive
  /\ WritersLock /\ AcceptedAlone /\ RecordCurrent

-----------------------------------------------------------------------------
(* The catalog that the graph is to a reader (RepositoryCatalog).          *)

ASSUME RecordAssumption == None \notin [moment : Nat, complete : BOOLEAN]

RecordOf(r) ==
  IF NodesOf(r) = {} THEN None
  ELSE LET n == CHOOSE x \in NodesOf(r) : TRUE
       IN [moment |-> repository[n].moment, complete |-> repository[n].complete]

HoldersOf(r) == {o.user : o \in {x \in owns : x.node \in NodesOf(r)}}

BelowOf(r) == {<<q.file[2], q.pkg, q.con>> :
                 q \in {x \in requires : uses[x.file] \in NodesOf(r)}}

Catalog == INSTANCE RepositoryCatalog WITH
  Users <- KnownUsers,
  Dependencies <- Files \X Packages \X Constraints,
  record <- [r \in Repos |-> RecordOf(r)],
  holders <- [r \in Repos |-> HoldersOf(r)],
  below <- [r \in Repos |-> BelowOf(r)]

\* Without races the life cycle implements the catalog: every step of a
\* request is one step of it or none.  In particular an update starts only for
\* a commit that is not covered yet, and what lies below a complete repository
\* changes only by the messages that were queued for it.
ImplementsCatalog == Catalog!Spec

-----------------------------------------------------------------------------
(* What a completed repository holds.                                      *)

Pairs(content) ==
  {<<p, content[p]>> : p \in {x \in Packages : content[x] # None}}

\* Each dependency the last completed analysis found is in the graph or in a
\* message that will put it there, under a file node of that repository, even
\* when the extractor runs between exists_package and the queueing.
NoDependencyLost ==
  \A n \in Tasks, f \in Files :
    /\ repository[n] # None /\ repository[n].complete /\ latest[n][f] # None
    => \E id \in FilesNamed(n, f) : \A d \in Pairs(latest[n][f]) :
         \/ \E q \in RelationsOf(id) : <<q.pkg, q.con>> = d
         \/ \E m \in stream : m.parent = id /\ <<m.pkg, m.con>> = d

\* When the graph already knows every package, the three-way merge leaves
\* exactly the relationships the analysis found, one for each dependency.
RelationsExact ==
  \A n \in Tasks, f \in Files :
    repository[n] # None /\ repository[n].complete =>
      LET rels == {q \in requires : q.file \in FilesNamed(n, f)}
          wanted == IF latest[n][f] = None THEN {} ELSE Pairs(latest[n][f])
      IN /\ {<<q.pkg, q.con>> : q \in rels} = wanted
         /\ Cardinality(rels) = Cardinality(wanted)

\* The moment of a file is what the analysis caches compare with: when a task
\* finishes, every file whose relationships changed since its moment is one
\* that the same task created, for an update stamps the files it rewrites.
RestampedByUpdate ==
  [][\A t \in Tasks : SetComplete(t) =>
       \A id \in dirty : uses[id] = task[t].node => id[1] = t]_vars

\* A file node goes away only when HEAD no longer has the file.
OnlyAbsentFilesDeleted ==
  [][\A id \in FileIds : uses[id] # None /\ uses'[id] = None =>
       head[repository[uses[id]].repo][id[2]] = None]_vars

\* A complete repository whose moment is not older than the last commit, so
\* that the next request finds nothing to do, was analysed at that commit.
CaughtUp ==
  \A n \in Tasks :
    /\ repository[n] # None /\ repository[n].complete
    /\ repository[n].moment >= commits[repository[n].repo]
    => latest[n] = head[repository[n].repo]
=============================================================================
