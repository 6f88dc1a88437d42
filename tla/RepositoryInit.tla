--------------------------- MODULE RepositoryInit ----------------------------
(***************************************************************************)
(* POST /graph/repository/init: the request handler                        *)
(* (app/controllers/graph_controller.py) and the background task it        *)
(* schedules (app/domain/repository_initializer.py over                    *)
(* app/domain/repo_analyzer/repo_analyzer.py), as one process per request. *)
(* Requests run on one event loop, so a step is the code between two       *)
(* awaits; the database, the shared download directory, GitHub and the     *)
(* package stream are what the processes interleave on.                    *)
(*                                                                         *)
(* Time is the number of commits pushed so far: a repository moment is     *)
(* compared only with commit dates, so datetime.now() is the current count *)
(* and a commit date is the count the commit brings it to.                 *)
(***************************************************************************)
EXTENDS DependencyGraph

CONSTANTS
  RepoOf, UserOf,   \* what each request asks for, and on whose behalf
  RootFiles,        \* the files at the top of the repository
  SbomFiles,        \* files whose packages are keyed "Manager:name"
  Trees,            \* the contents a HEAD commit may have
  MaxCommits,       \* bound on pushes per repository
  MaxFaults,        \* bound on tasks that raise or die with the server
  Racing,           \* may a request arrive while an earlier one for the same
                    \* repository has read the graph and not yet marked it?
  HttpErrors,       \* may GitHub answer a download with another status?
  CommitAnytime     \* may a push land while a request is being served?

ASSUME RequestAssumption ==
  /\ RepoOf \in [Tasks -> Repos]
  /\ UserOf \in [Tasks -> Users]
ASSUME FilesAssumption == RootFiles \subseteq Files /\ SbomFiles \subseteq Files
ASSUME TreesAssumption == Trees \subseteq [Files -> Contents \cup {None}]
ASSUME BoundsAssumption == MaxCommits \in Nat /\ MaxFaults \in Nat
ASSUME SwitchesAssumption ==
  Racing \in BOOLEAN /\ HttpErrors \in BOOLEAN /\ CommitAnytime \in BOOLEAN

VARIABLES
  head,     \* GitHub: the tree at HEAD of each repository
  commits,  \* GitHub: how many commits each repository has seen
  stream,   \* Redis: package messages not consumed yet
  dir,      \* repositories/{owner}/{name} on the local disk
  pc,       \* where each request stands
  task,     \* the local variables of each request
  latest,   \* history: the tree behind the last completion of each node
  faults    \* how many tasks have failed so far

environment == <<head, commits, faults>>
vars == <<graphVars, environment, stream, dir, pc, task, latest>>

NoFiles == [f \in Files |-> None]
Empty == Nothing
Tree == [Files -> Contents \cup {None}]
Message == [pkg : Packages, con : Constraints, parent : FileIds \cup {None},
            by : Tasks]

\* made: the files whose directory exists; writers: the tasks whose open file
\* is still linked in this directory.
Directory == [made : SUBSET Files, entries : Tree, writers : SUBSET Tasks]
NoDirectory == [made |-> {}, entries |-> NoFiles, writers |-> {}]

Labels == {"idle", "read", "conflict", "scheduled", "tree", "fetch", "open",
           "write", "create", "mark", "list", "files", "packages", "xadd",
           "stamp", "finish", "own", "done", "failed"}
Window == {"read", "scheduled", "tree", "fetch", "open", "write", "create",
           "mark"}
Writing == {"list", "files", "packages", "xadd", "stamp", "finish"}
Background == (Window \ {"read"}) \cup Writing \cup {"own"}

\* The locals, named as in the code where it names them: commit is
\* last_commit_date; node is repository_id; seen is repository["moment"], None
\* when repository is None; raw is raw_requirement_files and todo its keys;
\* have, want are existing_packages, new_packages; batch is packages_by_type.
Locals ==
  [commit : Nat, node : Tasks \cup {None}, seen : Nat \cup {None},
   fetching : SUBSET Files, target : Files \cup {None}, content : Contents,
   raw : Tree, todo : SUBSET Files,
   existing : [Files -> FileIds \cup {None}], file : FileIds \cup {None},
   have : Contents, want : Contents, batch : Contents,
   missing : Packages \cup {None}]

NoLocals ==
  [commit |-> 0, node |-> None, seen |-> None, fetching |-> {},
   target |-> None, content |-> Nothing, raw |-> NoFiles, todo |-> {},
   existing |-> NoFiles, file |-> None, have |-> Nothing, want |-> Nothing,
   batch |-> Nothing, missing |-> None]

TypeOK ==
  /\ GraphTypeOK
  /\ head \in [Repos -> Tree]
  /\ commits \in [Repos -> Nat]
  /\ stream \subseteq Message
  /\ dir \in [Repos -> Directory]
  /\ pc \in [Tasks -> Labels]
  /\ task \in [Tasks -> Locals]
  /\ latest \in [Tasks -> Tree \cup {None}]
  /\ faults \in Nat

\* What the keys of raw_requirement_files and the package being queued are.
LocalsCoherent ==
  \A t \in Tasks :
    /\ \A f \in task[t].todo : task[t].raw[f] # None
    /\ pc[t] = "xadd" => /\ task[t].missing # None
                         /\ task[t].want[task[t].missing] # None

Init ==
  /\ GraphInit
  /\ head \in [Repos -> Trees]
  /\ commits = [r \in Repos |-> 0]
  /\ stream = {}
  /\ dir = [r \in Repos |-> NoDirectory]
  /\ pc = [t \in Tasks |-> "idle"]
  /\ task = [t \in Tasks |-> NoLocals]
  /\ latest = [t \in Tasks |-> None]
  /\ faults = 0

Goto(t, here, there) == pc[t] = here /\ pc' = [pc EXCEPT ![t] = there]

Locally(t, locals) == task' = [task EXCEPT ![t] = locals]

Sibling(t, u) == u # t /\ RepoOf[u] = RepoOf[t]

-----------------------------------------------------------------------------
(* The handler.                                                            *)

\* A request arrives and github_service.get_last_commit_date answers.
Request(t) ==
  /\ Racing \/ \A u \in Tasks : Sibling(t, u) => pc[u] \notin Window
  /\ Goto(t, "idle", "read")
  /\ Locally(t, [task[t] EXCEPT !.commit = commits[RepoOf[t]]])
  /\ UNCHANGED <<graphVars, environment, stream, dir, latest>>

\* Mutant: an incomplete repository is taken for a missing one.
AcceptNew_NotComplete(t) ==
  /\ \A n \in NodesOf(RepoOf[t]) : ~repository[n].complete
  /\ Goto(t, "read", "scheduled")
  /\ UNCHANGED <<graphVars, environment, stream, dir, task, latest>>

\* read_repository_by_owner_and_name finds nothing: 202, task scheduled.
AcceptNew(t) ==
  /\ NodesOf(RepoOf[t]) = {}
  /\ Goto(t, "read", "scheduled")
  /\ UNCHANGED <<graphVars, environment, stream, dir, task, latest>>

\* Mutant: is_complete is not looked at.
AcceptKnown_Unchecked(t) ==
  /\ \E n \in NodesOf(RepoOf[t]) :
       Locally(t, [task[t] EXCEPT !.node = n, !.seen = repository[n].moment])
  /\ Goto(t, "read", "scheduled")
  /\ UNCHANGED <<graphVars, environment, stream, dir, latest>>

\* It finds a complete repository: 202, the task keeps the record it read.
AcceptKnown(t) ==
  /\ \E n \in NodesOf(RepoOf[t]) :
       /\ repository[n].complete
       /\ Locally(t, [task[t] EXCEPT !.node = n, !.seen = repository[n].moment])
  /\ Goto(t, "read", "scheduled")
  /\ UNCHANGED <<graphVars, environment, stream, dir, latest>>

\* It finds an incomplete one: 409 REPOSITORY_PROCESSING.
RefuseBusy(t) ==
  /\ \E n \in NodesOf(RepoOf[t]) : ~repository[n].complete
  /\ Goto(t, "read", "conflict")
  /\ UNCHANGED <<graphVars, environment, stream, dir, task, latest>>

-----------------------------------------------------------------------------
(* The background task: RepositoryAnalyzer.analyze.                        *)

\* Mutant: what an earlier download left stays.
StartDownload_Kept(t) ==
  /\ Goto(t, "scheduled", "tree")
  /\ dir' = [dir EXCEPT ![RepoOf[t]].made = @ \cup RootFiles]
  /\ UNCHANGED <<graphVars, environment, stream, task, latest>>

\* rmtree when the directory exists, then makedirs.
StartDownload(t) ==
  /\ Goto(t, "scheduled", "tree")
  /\ dir' = [dir EXCEPT ![RepoOf[t]] = [NoDirectory EXCEPT !.made = RootFiles]]
  /\ UNCHANGED <<graphVars, environment, stream, task, latest>>

\* The recursive tree of HEAD, or another status: then nothing is downloaded.
ListTree(t) ==
  /\ Goto(t, "tree", "fetch")
  /\ \E listed \in {{f \in Files : head[RepoOf[t]][f] # None}} \cup
                   (IF HttpErrors THEN {{}} ELSE {}) :
       Locally(t, [task[t] EXCEPT !.fetching = listed])
  /\ UNCHANGED <<graphVars, environment, stream, dir, latest>>

\* 200: the content HEAD has now; then makedirs of the file's directory.
FetchFile(t, f) ==
  /\ f \in task[t].fetching
  /\ head[RepoOf[t]][f] # None
  /\ Goto(t, "fetch", "open")
  /\ Locally(t, [task[t] EXCEPT !.fetching = @ \ {f}, !.target = f,
                                !.content = head[RepoOf[t]][f]])
  /\ dir' = [dir EXCEPT ![RepoOf[t]].made = @ \cup {f} \cup RootFiles]
  /\ UNCHANGED <<graphVars, environment, stream, latest>>

\* Any other status: the file is skipped.
SkipFile(t, f) ==
  /\ pc[t] = "fetch" /\ f \in task[t].fetching
  /\ HttpErrors \/ head[RepoOf[t]][f] = None
  /\ Locally(t, [task[t] EXCEPT !.fetching = @ \ {f}])
  /\ UNCHANGED <<graphVars, environment, stream, dir, pc, latest>>

\* open(filepath, "w") truncates the file, in a thread.
OpenTarget(t) ==
  LET r == RepoOf[t] IN
  /\ task[t].target \in dir[r].made
  /\ Goto(t, "open", "write")
  /\ dir' = [dir EXCEPT ![r].entries[task[t].target] = Empty,
                        ![r].writers = @ \cup {t}]
  /\ UNCHANGED <<graphVars, environment, stream, task, latest>>

\* FileNotFoundError: another task removed the directory in between.
DirectoryGone(t) ==
  /\ task[t].target \notin dir[RepoOf[t]].made
  /\ Goto(t, "open", "failed")
  /\ UNCHANGED <<graphVars, environment, stream, dir, task, latest>>

\* write and close: the content lands in the file that was opened, whether or
\* not the directory still links it.
WriteTarget(t) ==
  LET r == RepoOf[t] IN
  /\ Goto(t, "write", "fetch")
  /\ dir' = IF t \in dir[r].writers
            THEN [dir EXCEPT ![r].entries[task[t].target] = task[t].content,
                             ![r].writers = @ \ {t}]
            ELSE dir
  /\ UNCHANGED <<graphVars, environment, stream, task, latest>>

\* Mutant: a record as old as the last commit is updated too.
AfterAnalysis_NotNewer(t) ==
  IF task[t].seen = None THEN "create"
  ELSE IF task[t].seen <= task[t].commit THEN "mark" ELSE "own"

\* After the last file, without an await: glob, parse every file on the disk,
\* rmtree; then init_repository chooses what to do with the result.
AfterAnalysis(t) ==
  IF task[t].seen = None THEN "create"
  ELSE IF task[t].seen < task[t].commit THEN "mark" ELSE "own"

Analyze(t) ==
  /\ task[t].fetching = {}
  /\ Goto(t, "fetch", AfterAnalysis(t))
  /\ LET found == dir[RepoOf[t]].entries IN
     Locally(t, [task[t] EXCEPT !.raw = found,
                                !.todo = {f \in Files : found[f] # None}])
  /\ dir' = [dir EXCEPT ![RepoOf[t]] = NoDirectory]
  /\ UNCHANGED <<graphVars, environment, stream, latest>>

-----------------------------------------------------------------------------
(* The background task: RepositoryInitializer.init_repository.             *)

\* create_repository; an unknown user gives no row and the empty id.  With
\* several matches the id is that of any of them.
CreateRepository(t) ==
  LET r == RepoOf[t]
      moment == task[t].commit
      matched == MergedWith(r, moment)
  IN /\ Goto(t, "create", "files")
     /\ IF UserOf[t] \notin KnownUsers
        THEN UNCHANGED <<graphVars, task>>
        ELSE /\ CreateRepositoryNode(t, r, moment, UserOf[t])
             /\ \E n \in IF matched = {} THEN {t} ELSE matched :
                  Locally(t, [task[t] EXCEPT !.node = n])
     /\ UNCHANGED <<environment, stream, dir, latest>>

MarkIncomplete(t) ==
  /\ Goto(t, "mark", "list")
  /\ SetFlag(task[t].node, FALSE)
  /\ UNCHANGED <<environment, stream, dir, task, latest>>

\* replace_repository reads the files the repository has in the graph.
ListFiles(t) ==
  /\ Goto(t, "list", "files")
  /\ \E e \in FilesRead(task[t].node) :
       Locally(t, [task[t] EXCEPT !.existing = e])
  /\ UNCHANGED <<graphVars, environment, stream, dir, latest>>

\* A file of the graph that the analysis did not find.
DropFile(t, f) ==
  /\ pc[t] = "files" /\ task[t].existing[f] # None /\ f \notin task[t].todo
  /\ DeleteFile(task[t].node, f)
  /\ Locally(t, [task[t] EXCEPT !.existing[f] = None])
  /\ UNCHANGED <<environment, stream, dir, pc, latest>>

\* update_requirement_file reads the packages of a file that both have.  Equal
\* constraints need no query, so those packages are already popped here.  The
\* keys of an SBOM file carry a manager prefix and match no package name.
Matches(f, p, have, want) ==
  have[p] # None /\ want[p] # None /\ f \notin SbomFiles

\* Mutant: the file is popped from raw_requirement_files while its entry in
\* existing_files is still to be looked at.
UpdateFile_PoppedEarly(t, f) ==
  /\ task[t].existing[f] # None /\ f \in task[t].todo
  /\ Goto(t, "files", "files")
  /\ Locally(t, [task[t] EXCEPT !.todo = @ \ {f}])
  /\ UNCHANGED <<graphVars, environment, stream, dir, latest>>

UpdateFile(t, f) ==
  /\ task[t].existing[f] # None /\ f \in task[t].todo
  /\ Goto(t, "files", "packages")
  /\ \E have \in PackagesRead(task[t].existing[f]) :
       LET want == task[t].raw[f]
           same == {p \in Packages : Matches(f, p, have, want)
                                     /\ have[p] = want[p]}
           rest(h) == [p \in Packages |-> IF p \in same THEN None ELSE h[p]]
       IN Locally(t, [task[t] EXCEPT !.file = task[t].existing[f],
                                     !.existing[f] = None,
                                     !.todo = @ \ {f},
                                     !.have = rest(have), !.want = rest(want)])
  /\ UNCHANGED <<graphVars, environment, stream, dir, latest>>

ChangeConstraint(t, p) ==
  LET l == task[t] IN
  /\ pc[t] = "packages" /\ Matches(l.file[2], p, l.have, l.want)
  /\ SetConstraint(l.file, p, l.want[p])
  /\ Locally(t, [task[t] EXCEPT !.have[p] = None, !.want[p] = None])
  /\ UNCHANGED <<environment, stream, dir, pc, latest>>

RemovePackage(t, p) ==
  LET l == task[t] IN
  /\ pc[t] = "packages" /\ l.have[p] # None
  /\ ~Matches(l.file[2], p, l.have, l.want)
  /\ DeleteRelation(l.file, p)
  /\ Locally(t, [task[t] EXCEPT !.have[p] = None])
  /\ UNCHANGED <<environment, stream, dir, pc, latest>>

\* Mutant: the file stays in raw_requirement_files.
CreateRequirementFile_NotPopped(t, f) ==
  /\ task[t].existing = NoFiles /\ f \in task[t].todo
  /\ Goto(t, "files", "packages")
  /\ CreateFile(<<t, f>>, task[t].node)
  /\ Locally(t, [task[t] EXCEPT
       !.file = IF NodeExists(task[t].node) THEN <<t, f>> ELSE None,
       !.want = task[t].raw[f]])
  /\ UNCHANGED <<environment, stream, dir, latest>>

\* create_requirement_file, for what is left in raw_requirement_files once the
\* existing files are dealt with.
CreateRequirementFile(t, f) ==
  /\ task[t].existing = NoFiles /\ f \in task[t].todo
  /\ Goto(t, "files", "packages")
  /\ CreateFile(<<t, f>>, task[t].node)
  /\ Locally(t, [task[t] EXCEPT
       !.file = IF NodeExists(task[t].node) THEN <<t, f>> ELSE None,
       !.todo = @ \ {f}, !.want = task[t].raw[f]])
  /\ UNCHANGED <<environment, stream, dir, latest>>

\* Mutant: a package the graph does not know is skipped.
CheckPackage_KnownOnly(t, p) ==
  LET l == task[t] IN
  /\ pc[t] = "packages" /\ l.have = Nothing /\ l.want[p] # None
  /\ Locally(t, [task[t] EXCEPT !.want[p] = None,
                                !.batch[p] = IF p \in packages
                                        THEN l.want[p] ELSE @])
  /\ UNCHANGED <<graphVars, environment, stream, dir, pc, latest>>

\* queue_packages, for each package left: exists_package, then either a place
\* in packages_by_type or, after another await, a message to the stream.
CheckPackage(t, p) ==
  LET l == task[t] IN
  /\ pc[t] = "packages" /\ l.have = Nothing /\ l.want[p] # None
  /\ IF p \in packages
     THEN /\ Locally(t, [l EXCEPT !.batch[p] = l.want[p], !.want[p] = None])
          /\ pc' = pc
     ELSE /\ Locally(t, [task[t] EXCEPT !.missing = p])
          /\ pc' = [pc EXCEPT ![t] = "xadd"]
  /\ UNCHANGED <<graphVars, environment, stream, dir, latest>>

\* Mutant: the constraints are looked up in existing_packages.
AddMessage_OldConstraints(t) ==
  LET l == task[t] IN
  /\ Goto(t, "xadd", "packages")
  /\ stream' = stream \cup {[pkg |-> l.missing, con |-> l.have[l.missing],
                             parent |-> l.file, by |-> t]}
  /\ Locally(t, [task[t] EXCEPT !.want[l.missing] = None, !.missing = None])
  /\ UNCHANGED <<graphVars, environment, dir, latest>>

AddMessage(t) ==
  LET l == task[t] IN
  /\ Goto(t, "xadd", "packages")
  /\ stream' = stream \cup {[pkg |-> l.missing, con |-> l.want[l.missing],
                             parent |-> l.file, by |-> t]}
  /\ Locally(t, [task[t] EXCEPT !.want[l.missing] = None, !.missing = None])
  /\ UNCHANGED <<graphVars, environment, dir, latest>>

\* relate_packages, at the end of queue_packages; update_requirement_file goes
\* on to stamp the file, process_requirement_file does not.
Created(t) == task[t].file = None \/ task[t].file[1] = t

\* Mutant: without new packages the file is not stamped.
RelatePackages_EarlyReturn(t) ==
  /\ task[t].have = Nothing /\ task[t].want = Nothing
  /\ Goto(t, "packages",
          IF Created(t) \/ task[t].batch = Nothing THEN "files" ELSE "stamp")
  /\ RelateAll(t, task[t].file, task[t].batch)
  /\ Locally(t, [task[t] EXCEPT !.batch = Nothing])
  /\ UNCHANGED <<environment, stream, dir, latest>>

RelatePackages(t) ==
  /\ task[t].have = Nothing /\ task[t].want = Nothing
  /\ Goto(t, "packages", IF Created(t) THEN "files" ELSE "stamp")
  /\ RelateAll(t, task[t].file, task[t].batch)
  /\ Locally(t, [task[t] EXCEPT !.batch = Nothing,
                                !.file = IF Created(t) THEN None ELSE @])
  /\ UNCHANGED <<environment, stream, dir, latest>>

StampFile(t) ==
  /\ Goto(t, "stamp", "files")
  /\ StampMoment(task[t].file)
  /\ Locally(t, [task[t] EXCEPT !.file = None])
  /\ UNCHANGED <<environment, stream, dir, latest>>

FilesDone(t) ==
  pc[t] = "files" /\ task[t].existing = NoFiles /\ task[t].todo = {}

\* update_repository_moment: the moment is now, whatever was downloaded.
UpdateMoment(t) ==
  /\ FilesDone(t) /\ task[t].seen # None
  /\ Goto(t, "files", "finish")
  /\ SetMoment(task[t].node, commits[RepoOf[t]])
  /\ UNCHANGED <<environment, stream, dir, task, latest>>

\* Mutant: only the update branch releases the repository.
SetComplete_UpdateOnly(t) ==
  /\ pc[t] = "finish" \/ (FilesDone(t) /\ task[t].seen = None)
  /\ pc' = [pc EXCEPT ![t] = "own"]
  /\ SetFlag(IF pc[t] = "finish" THEN task[t].node ELSE None, TRUE)
  /\ UNCHANGED <<environment, stream, dir, task, latest>>

SetComplete(t) ==
  /\ pc[t] = "finish" \/ (FilesDone(t) /\ task[t].seen = None)
  /\ pc' = [pc EXCEPT ![t] = "own"]
  /\ SetFlag(task[t].node, TRUE)
  /\ latest' = IF task[t].node = None THEN latest
               ELSE [latest EXCEPT ![task[t].node] = task[t].raw]
  /\ UNCHANGED <<environment, stream, dir, task>>

OwnRepository(t) ==
  /\ Goto(t, "own", "done")
  /\ MergeOwner(t, task[t].node, UserOf[t])
  /\ UNCHANGED <<environment, stream, dir, task, latest>>

\* A query, a download or a parse raises, or the server dies: nothing in the
\* code runs afterwards on behalf of this request.
Fail(t) ==
  /\ pc[t] \in Background /\ faults < MaxFaults
  /\ pc' = [pc EXCEPT ![t] = "failed"]
  /\ faults' = faults + 1
  /\ UNCHANGED <<graphVars, head, commits, stream, dir, task, latest>>

-----------------------------------------------------------------------------
(* The environment.                                                        *)

Served(t) == pc[t] \in {"read"} \cup Background

Commit(r) ==
  /\ commits[r] < MaxCommits
  /\ CommitAnytime \/ \A t \in Tasks : RepoOf[t] = r => ~Served(t)
  /\ \E tree \in Trees \ {head[r]} : head' = [head EXCEPT ![r] = tree]
  /\ commits' = [commits EXCEPT ![r] = @ + 1]
  /\ UNCHANGED <<graphVars, faults, stream, dir, pc, task, latest>>

Extract(m) ==
  /\ m \in stream
  /\ ExtractInto(m)
  /\ stream' = stream \ {m}
  /\ UNCHANGED <<environment, dir, pc, task, latest>>

-----------------------------------------------------------------------------
Handle(t) == Request(t) \/ AcceptNew(t) \/ AcceptKnown(t) \/ RefuseBusy(t)

Download(t) ==
  \/ StartDownload(t) \/ ListTree(t) \/ OpenTarget(t) \/ DirectoryGone(t)
  \/ WriteTarget(t) \/ Analyze(t)
  \/ \E f \in Files : FetchFile(t, f) \/ SkipFile(t, f)

Persist(t) ==
  \/ CreateRepository(t) \/ MarkIncomplete(t) \/ ListFiles(t)
  \/ AddMessage(t) \/ RelatePackages(t) \/ StampFile(t)
  \/ UpdateMoment(t) \/ SetComplete(t) \/ OwnRepository(t)
  \/ \E f \in Files :
       DropFile(t, f) \/ UpdateFile(t, f) \/ CreateRequirementFile(t, f)
  \/ \E p \in Packages :
       ChangeConstraint(t, p) \/ RemovePackage(t, p) \/ CheckPackage(t, p)

Next ==
  \/ \E t \in Tasks : Handle(t) \/ Download(t) \/ Persist(t) \/ Fail(t)
  \/ \E r \in Repos : Commit(r)
  \/ \E m \in stream : Extract(m)

Spec == Init /\ [][Next]_vars

\* The event loop runs every task it holds, and every await of a task is
\* answered; nothing obliges a client to send a request, GitHub to move, or the
\* extractor to run.
FairSpec == Spec /\ \A t \in Tasks : WF_vars(Download(t) \/ Persist(t))
=============================================================================
