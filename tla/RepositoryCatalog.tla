-------------------------- MODULE RepositoryCatalog --------------------------
(***************************************************************************)
(* What POST /graph/repository/init promises to whoever reads the graph:   *)
(* a catalog with at most one record for each repository.  The record says *)
(* whether the analysis below it is complete and up to which commit, and   *)
(* what lies below a complete record is at rest: only messages that were   *)
(* queued for it still add to it.  RepositoryInit implements this as long  *)
(* as no two requests for one repository meet in the window between the    *)
(* handler's read and the task's first write.                              *)
(***************************************************************************)
EXTENDS Integers

CONSTANTS
  Repos,
  Users,         \* those that may own a repository
  Dependencies,  \* what may lie below a repository
  None

VARIABLES
  commits,  \* how many commits each repository has seen
  record,   \* the moment and completeness of each repository in the catalog
  holders,  \* the users that own it
  below     \* the dependencies recorded below it

vars == <<commits, record, holders, below>>

Entry(m, c) == [moment |-> m, complete |-> c]

Absent(r) == record[r] = None
Complete(r) == record[r] # None /\ record[r].complete
Processing(r) == record[r] # None /\ ~record[r].complete

Init ==
  /\ commits = [r \in Repos |-> 0]
  /\ record = [r \in Repos |-> None]
  /\ holders = [r \in Repos |-> {}]
  /\ below = [r \in Repos |-> {}]

\* GitHub moves on.
Push(r) ==
  /\ commits' = [commits EXCEPT ![r] = @ + 1]
  /\ UNCHANGED <<record, holders, below>>

\* A repository enters the catalog on behalf of a user, as of a commit that
\* exists, with nothing below it that could be mistaken for its analysis.
Register(r, u) ==
  /\ Absent(r) /\ below[r] = {}
  /\ \E m \in 0 .. commits[r] :
       record' = [record EXCEPT ![r] = Entry(m, FALSE)]
  /\ holders' = [holders EXCEPT ![r] = {u}]
  /\ UNCHANGED <<commits, below>>

\* It is analysed again only when there is something new.
Reopen(r) ==
  /\ Complete(r) /\ record[r].moment < commits[r]
  /\ record' = [record EXCEPT ![r] = Entry(@.moment, FALSE)]
  /\ UNCHANGED <<commits, holders, below>>

\* What lies below is rewritten only while the record says so.
Rewrite(r) ==
  /\ Processing(r)
  /\ below'[r] \subseteq Dependencies
  /\ below' = [below EXCEPT ![r] = below'[r]]
  /\ UNCHANGED <<commits, record, holders>>

Restamp(r) ==
  /\ Processing(r)
  /\ record' = [record EXCEPT ![r] = Entry(commits[r], @.complete)]
  /\ UNCHANGED <<commits, holders, below>>

Release(r) ==
  /\ Processing(r)
  /\ record' = [record EXCEPT ![r] = Entry(@.moment, TRUE)]
  /\ UNCHANGED <<commits, holders, below>>

\* The extractor handles a message: at any time, and it only adds.
Deliver(r) ==
  /\ ~Absent(r)
  /\ below[r] \subseteq below'[r] /\ below'[r] \subseteq Dependencies
  /\ below' = [below EXCEPT ![r] = below'[r]]
  /\ UNCHANGED <<commits, record, holders>>

Grant(r, u) ==
  /\ ~Absent(r)
  /\ holders' = [holders EXCEPT ![r] = @ \cup {u}]
  /\ UNCHANGED <<commits, record, below>>

Next == \E r \in Repos :
  \/ Push(r) \/ Reopen(r) \/ Rewrite(r) \/ Restamp(r) \/ Release(r)
  \/ Deliver(r)
  \/ \E u \in Users : Register(r, u) \/ Grant(r, u)

Spec == Init /\ [][Next]_vars
=============================================================================
