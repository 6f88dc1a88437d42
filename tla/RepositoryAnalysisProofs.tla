---------------------- MODULE RepositoryAnalysisProofs -----------------------
(***************************************************************************)
(* What a completed analysis leaves behind: that it is the analysis of the *)
(* commit its moment names, that none of its dependencies is lost, that    *)
(* nothing else stays, and which files it stamps.                          *)
(***************************************************************************)
EXTENDS RepositoryCatalogProofs, FiniteSetTheorems, FunctionTheorems

Begun == {"files", "packages", "xadd", "stamp", "finish"}
InHand == {"packages", "xadd", "stamp"}
Early == {"idle", "read"} \cup Accepted \cup {"list"}

-----------------------------------------------------------------------------
(* What each step does to the state the analysis is about, field by field. *)

Others(t) ==
  \A u \in Tasks : u # t => pc'[u] = pc[u] /\ task'[u] = task[u]

\* What the analysis found and where it goes stay as they are.
Carries(t) ==
  /\ task'[t].node = task[t].node /\ task'[t].raw = task[t].raw
  /\ task'[t].commit = task[t].commit

SameMerge(t) ==
  /\ task'[t].have = task[t].have /\ task'[t].want = task[t].want
  /\ task'[t].batch = task[t].batch

SameWork(t) ==
  /\ task'[t].existing = task[t].existing /\ task'[t].file = task[t].file
  /\ task'[t].todo = task[t].todo

SameBelowAll ==
  UNCHANGED <<uses, requires, dirty, packages, stream>>

World == <<head, commits, dir>>

\* A step of one request leaves the locals of the others alone.
LEMMA StepOthers ==
  ASSUME TypeInv, NEW t \in Tasks, Handle(t) \/ Download(t) \/ Persist(t) \/ Fail(t)
  PROVE  Others(t)
BY DEF Others, Handle, Request, AcceptNew, AcceptKnown, RefuseBusy, Download,
       StartDownload, ListTree, OpenTarget, DirectoryGone, WriteTarget, Analyze,
       FetchFile, SkipFile, Persist, CreateRepository, MarkIncomplete,
       ListFiles, AddMessage, RelatePackages, StampFile, UpdateMoment,
       SetComplete, OwnRepository, DropFile, UpdateFile, CreateRequirementFile,
       ChangeConstraint, RemovePackage, CheckPackage, Fail, Goto, Locally,
       TypeInv, TypeOK

\* The handler reads the date of the last commit and the record.
LEMMA HandleDoes ==
  ASSUME TypeInv, NEW t \in Tasks, Handle(t)
  PROVE  /\ pc[t] \in {"idle", "read"}
         /\ pc'[t] \in {"read", "scheduled", "conflict"}
         /\ task'[t].raw = task[t].raw /\ SameWork(t) /\ SameMerge(t)
         /\ SameBelowAll /\ UNCHANGED World /\ UNCHANGED <<latest, repository>>
         /\ task'[t].commit = IF pc[t] = "idle" THEN commits[RepoOf[t]]
                              ELSE task[t].commit
<1> USE DEF SameWork, SameMerge, SameBelowAll, World, graphVars, environment
<1>1. CASE Request(t)
  <2> DEFINE l == [task[t] EXCEPT !.commit = commits[RepoOf[t]]]
  <2>1. /\ l.raw = task[t].raw /\ l.existing = task[t].existing
        /\ l.file = task[t].file /\ l.todo = task[t].todo
        /\ l.have = task[t].have /\ l.want = task[t].want
        /\ l.batch = task[t].batch /\ l.commit = commits[RepoOf[t]]
    BY LocalsType DEF Locals
  <2>2. Locally(t, l)
    BY <1>1 DEF Request
  <2> HIDE DEF l
  <2>3. task'[t] = l
    BY <2>2 DEF Locally, TypeInv, TypeOK
  <2> QED
    BY <1>1, <2>1, <2>3 DEF Request, Goto, TypeInv, TypeOK
<1>2. CASE AcceptNew(t) \/ RefuseBusy(t)
  BY <1>2 DEF AcceptNew, RefuseBusy, Goto, TypeInv, TypeOK
<1>3. CASE AcceptKnown(t)
  <2>1. PICK n \in NodesOf(RepoOf[t]) : Locally(t,
          [task[t] EXCEPT !.node = n, !.seen = repository[n].moment])
    BY <1>3 DEF AcceptKnown
  <2> DEFINE l == [task[t] EXCEPT !.node = n, !.seen = repository[n].moment]
  <2>2. /\ l.raw = task[t].raw /\ l.existing = task[t].existing
        /\ l.file = task[t].file /\ l.todo = task[t].todo
        /\ l.have = task[t].have /\ l.want = task[t].want
        /\ l.batch = task[t].batch /\ l.commit = task[t].commit
    BY LocalsType DEF Locals
  <2>3. Locally(t, l)
    BY <2>1
  <2> HIDE DEF l
  <2>4. task'[t] = l
    BY <2>3 DEF Locally, TypeInv, TypeOK
  <2> QED
    BY <1>3, <2>2, <2>4 DEF AcceptKnown, Goto, TypeInv, TypeOK
<1> QED
  BY <1>1, <1>2, <1>3 DEF Handle

\* A file found on the disk is one that the analysis returns.
Found(content) == {f \in Files : content[f] # None}

\* The files on the disk become raw_requirement_files.
LEMMA AnalyzeDoes ==
  ASSUME TypeInv, NEW t \in Tasks, Analyze(t)
  PROVE  /\ pc[t] = "fetch" /\ pc'[t] \in {"create", "mark", "own"}
         /\ task[t].fetching = {}
         /\ task'[t].node = task[t].node /\ task'[t].commit = task[t].commit
         /\ task'[t].raw = dir[RepoOf[t]].entries
         /\ task'[t].todo = Found(task'[t].raw)
         /\ task'[t].existing = task[t].existing /\ task'[t].file = task[t].file
         /\ SameMerge(t) /\ SameBelowAll
         /\ UNCHANGED <<head, commits, latest, repository>>
         /\ \A r \in Repos : r # RepoOf[t] => dir'[r] = dir[r]
<1> DEFINE found == dir[RepoOf[t]].entries
           l == [task[t] EXCEPT !.raw = found,
                                !.todo = {f \in Files : found[f] # None}]
<1>1. /\ l.node = task[t].node /\ l.raw = found /\ l.todo = Found(found)
      /\ l.existing = task[t].existing /\ l.file = task[t].file
      /\ l.have = task[t].have /\ l.want = task[t].want
      /\ l.batch = task[t].batch /\ l.commit = task[t].commit
  BY LocalsType DEF Locals, Found
<1>2. Locally(t, l)
  BY DEF Analyze
<1> HIDE DEF l
<1>3. task'[t] = l
  BY <1>2 DEF Locally, TypeInv, TypeOK
<1>4. pc[t] = "fetch" /\ pc'[t] = AfterAnalysis(t)
  BY DEF Analyze, Goto, TypeInv, TypeOK
<1> QED
  BY <1>1, <1>3, <1>4
     DEF Analyze, AfterAnalysis, SameMerge, SameBelowAll, graphVars,
        environment,
         TypeInv, TypeOK

\* The directory is emptied before the download.
LEMMA StartDoes ==
  ASSUME TypeInv, NEW t \in Tasks, StartDownload(t)
  PROVE  /\ pc[t] = "scheduled" /\ pc'[t] = "tree" /\ UNCHANGED task
         /\ dir'[RepoOf[t]].entries = NoFiles
         /\ SameBelowAll /\ UNCHANGED <<head, commits, latest, repository>>
         /\ \A r \in Repos : r # RepoOf[t] => dir'[r] = dir[r]
<1> DEFINE new == [NoDirectory EXCEPT !.made = RootFiles]
<1>1. new.entries = NoFiles
  BY DEF NoDirectory
<1>2. dir' = [dir EXCEPT ![RepoOf[t]] = new] /\ RepoOf[t] \in Repos
  BY TaskFacts DEF StartDownload
<1> HIDE DEF new
<1> QED
  BY <1>1, <1>2 DEF StartDownload, SameBelowAll, graphVars, environment, Goto,
                    TypeInv, TypeOK

\* The files to fetch are those of HEAD, or none.
LEMMA ListTreeDoes ==
  ASSUME TypeInv, NEW t \in Tasks, ListTree(t)
  PROVE  /\ pc[t] = "tree" /\ pc'[t] = "fetch" /\ Carries(t) /\ SameWork(t)
         /\ SameMerge(t) /\ SameBelowAll /\ UNCHANGED World
         /\ UNCHANGED <<latest, repository>>
         /\ task'[t].fetching = Found(head[RepoOf[t]])
              \/ (HttpErrors /\ task'[t].fetching = {})
<1>1. PICK listed : /\ listed = Found(head[RepoOf[t]]) \/ (HttpErrors /\ listed = {})
                    /\ Locally(t, [task[t] EXCEPT !.fetching = listed])
  <2>1. PICK listed \in {Found(head[RepoOf[t]])} \cup
                         (IF HttpErrors THEN {{}} ELSE {}) :
          Locally(t, [task[t] EXCEPT !.fetching = listed])
    BY DEF ListTree, Found
  <2>2. listed = Found(head[RepoOf[t]]) \/ (HttpErrors /\ listed = {})
    OBVIOUS
  <2> QED
    BY <2>1, <2>2
<1> DEFINE l == [task[t] EXCEPT !.fetching = listed]
<1>2. /\ l.node = task[t].node /\ l.raw = task[t].raw /\ l.todo = task[t].todo
      /\ l.existing = task[t].existing /\ l.file = task[t].file
      /\ l.have = task[t].have /\ l.want = task[t].want
      /\ l.batch = task[t].batch /\ l.commit = task[t].commit
      /\ l.fetching = listed
  BY LocalsType DEF Locals
<1>3. Locally(t, l)
  BY <1>1
<1> HIDE DEF l
<1>4. task'[t] = l
  BY <1>3 DEF Locally, TypeInv, TypeOK
<1> QED
  BY <1>1, <1>2, <1>4
     DEF ListTree, Carries, SameWork, SameMerge, SameBelowAll, World, graphVars,
         environment, Goto, TypeInv, TypeOK

\* The content fetched is that of HEAD.
LEMMA FetchDoes ==
  ASSUME TypeInv, NEW t \in Tasks, NEW f \in Files, FetchFile(t, f)
  PROVE  /\ pc[t] = "fetch" /\ pc'[t] = "open" /\ Carries(t) /\ SameWork(t)
         /\ f \in task[t].fetching
         /\ SameMerge(t) /\ SameBelowAll
         /\ UNCHANGED <<head, commits, latest, repository>>
         /\ task'[t].fetching = task[t].fetching \ {f}
         /\ task'[t].target = f /\ task'[t].content = head[RepoOf[t]][f]
         /\ dir'[RepoOf[t]].entries = dir[RepoOf[t]].entries
         /\ \A r \in Repos : r # RepoOf[t] => dir'[r] = dir[r]
<1> DEFINE l == [task[t] EXCEPT !.fetching = @ \ {f}, !.target = f,
                                !.content = head[RepoOf[t]][f]]
<1>1. /\ l.node = task[t].node /\ l.raw = task[t].raw /\ l.todo = task[t].todo
      /\ l.existing = task[t].existing /\ l.file = task[t].file
      /\ l.have = task[t].have /\ l.want = task[t].want
      /\ l.batch = task[t].batch /\ l.commit = task[t].commit
      /\ l.fetching = task[t].fetching \ {f} /\ l.target = f
      /\ l.content = head[RepoOf[t]][f]
  BY LocalsType DEF Locals
<1>2. Locally(t, l)
  BY DEF FetchFile
<1> HIDE DEF l
<1>3. task'[t] = l
  BY <1>2 DEF Locally, TypeInv, TypeOK
<1>4. /\ dir'[RepoOf[t]].entries = dir[RepoOf[t]].entries
      /\ \A r \in Repos : r # RepoOf[t] => dir'[r] = dir[r]
  BY TaskFacts DEF FetchFile, TypeInv, TypeOK, Directory
<1> QED
  BY <1>1, <1>3, <1>4
     DEF FetchFile, Carries, SameWork, SameMerge, SameBelowAll, graphVars,
         environment, Goto, TypeInv, TypeOK

\* A skipped file is not fetched.
LEMMA SkipDoes ==
  ASSUME TypeInv, NEW t \in Tasks, NEW f \in Files, SkipFile(t, f)
  PROVE  /\ pc[t] = "fetch" /\ UNCHANGED pc /\ Carries(t) /\ SameWork(t)
         /\ f \in task[t].fetching /\ (HttpErrors \/ head[RepoOf[t]][f] = None)
         /\ SameMerge(t) /\ SameBelowAll /\ UNCHANGED World
         /\ UNCHANGED <<latest, repository>>
<1> DEFINE l == [task[t] EXCEPT !.fetching = @ \ {f}]
<1>1. /\ l.node = task[t].node /\ l.raw = task[t].raw /\ l.todo = task[t].todo
      /\ l.existing = task[t].existing /\ l.file = task[t].file
      /\ l.have = task[t].have /\ l.want = task[t].want
      /\ l.batch = task[t].batch /\ l.commit = task[t].commit
  BY LocalsType DEF Locals
<1>2. Locally(t, l)
  BY DEF SkipFile
<1> HIDE DEF l
<1>3. task'[t] = l
  BY <1>2 DEF Locally, TypeInv, TypeOK
<1> QED
  BY <1>1, <1>3
     DEF SkipFile, Carries, SameWork, SameMerge, SameBelowAll, World, graphVars,
         environment

\* Opening truncates the file, in this repository's directory only.
LEMMA OpenDoes ==
  ASSUME TypeInv, NEW t \in Tasks, OpenTarget(t)
  PROVE  /\ pc[t] = "open" /\ pc'[t] = "write" /\ UNCHANGED task
         /\ SameBelowAll /\ UNCHANGED <<head, commits, latest, repository>>
         /\ \A f \in Files : f # task[t].target =>
              dir'[RepoOf[t]].entries[f] = dir[RepoOf[t]].entries[f]
         /\ t \in dir'[RepoOf[t]].writers
         /\ \A r \in Repos : r # RepoOf[t] => dir'[r] = dir[r]
<1> DEFINE r == RepoOf[t]
           d == dir[r]
           new == [d EXCEPT !.entries = [d.entries EXCEPT ![task[t].target] = Empty],
                            !.writers = d.writers \cup {t}]
<1>1. r \in Repos /\ d \in Directory
  BY TaskFacts DEF TypeInv, TypeOK
<1>2. /\ new.entries = [d.entries EXCEPT ![task[t].target] = Empty]
      /\ new.writers = d.writers \cup {t}
  BY <1>1 DEF Directory
<1>3. dir' = [dir EXCEPT ![r] = new]
  BY <1>1 DEF OpenTarget, TypeInv, TypeOK
<1>4. d.entries \in Tree
  BY <1>1 DEF Directory
<1> HIDE DEF new, d
<1>5. /\ \A f \in Files : f # task[t].target => new.entries[f] = d.entries[f]
      /\ t \in new.writers
  BY <1>2, <1>4 DEF Tree
<1> QED
  BY <1>1, <1>3, <1>5
     DEF OpenTarget, SameBelowAll, graphVars, environment, Goto, TypeInv,
        TypeOK, d

\* What was fetched is written, if the directory still links the file.
LEMMA WriteDoes ==
  ASSUME TypeInv, NEW t \in Tasks, WriteTarget(t)
  PROVE  /\ pc[t] = "write" /\ pc'[t] = "fetch" /\ UNCHANGED task
         /\ SameBelowAll /\ UNCHANGED <<head, commits, latest, repository>>
         /\ t \in dir[RepoOf[t]].writers => \A f \in Files :
              dir'[RepoOf[t]].entries[f] =
                IF f = task[t].target THEN task[t].content
                                      ELSE dir[RepoOf[t]].entries[f]
         /\ \A r \in Repos : r # RepoOf[t] => dir'[r] = dir[r]
<1> DEFINE r == RepoOf[t]
           d == dir[r]
           new == [d EXCEPT
             !.entries = [d.entries EXCEPT ![task[t].target] = task[t].content],
             !.writers = d.writers \ {t}]
<1>1. r \in Repos /\ d \in Directory
  BY TaskFacts DEF TypeInv, TypeOK
<1>2. new.entries = [d.entries EXCEPT ![task[t].target] = task[t].content]
  BY <1>1 DEF Directory
<1>3. IF t \in d.writers THEN dir' = [dir EXCEPT ![r] = new] ELSE dir' = dir
  BY <1>1 DEF WriteTarget, TypeInv, TypeOK
<1>4. d.entries \in Tree
  BY <1>1 DEF Directory
<1> HIDE DEF new, d
<1>5. \A f \in Files : new.entries[f] =
        IF f = task[t].target THEN task[t].content ELSE d.entries[f]
  BY <1>2, <1>4 DEF Tree
<1>6. /\ t \in d.writers => dir'[r] = new
      /\ \A q \in Repos : q # r => dir'[q] = dir[q]
  BY <1>1, <1>3 DEF TypeInv, TypeOK
<1>7. t \in d.writers => \A f \in Files : dir'[r].entries[f] =
        IF f = task[t].target THEN task[t].content ELSE d.entries[f]
  BY <1>5, <1>6
<1> QED
  BY <1>6, <1>7
     DEF WriteTarget, SameBelowAll, graphVars, environment, Goto, TypeInv,
        TypeOK, d

-----------------------------------------------------------------------------
(* The same for the steps of init_repository.                              *)

\* create_repository changes no files and no relationships.
LEMMA CreateDoes ==
  ASSUME TypeInv, NEW t \in Tasks, CreateRepository(t)
  PROVE  /\ pc[t] = "create" /\ pc'[t] = "files"
         /\ task'[t].raw = task[t].raw /\ task'[t].commit = task[t].commit
         /\ SameWork(t) /\ SameMerge(t) /\ SameBelowAll /\ UNCHANGED World
         /\ UNCHANGED latest
         /\ UserOf[t] \notin KnownUsers => UNCHANGED <<task, repository>>
<1> USE DEF SameWork, SameMerge, SameBelowAll, World, graphVars, environment
<1>1. CASE UserOf[t] \notin KnownUsers
  BY <1>1 DEF CreateRepository, Goto, TypeInv, TypeOK
<1>2. CASE UserOf[t] \in KnownUsers
  <2>1. PICK n : Locally(t, [task[t] EXCEPT !.node = n])
    BY <1>2 DEF CreateRepository
  <2> DEFINE l == [task[t] EXCEPT !.node = n]
  <2>2. /\ l.raw = task[t].raw /\ l.todo = task[t].todo
        /\ l.existing = task[t].existing /\ l.file = task[t].file
        /\ l.have = task[t].have /\ l.want = task[t].want
        /\ l.batch = task[t].batch /\ l.commit = task[t].commit
    BY LocalsType DEF Locals
  <2>3. Locally(t, l)
    BY <2>1
  <2> HIDE DEF l
  <2>4. task'[t] = l
    BY <2>3 DEF Locally, TypeInv, TypeOK
  <2> QED
    BY <1>2, <2>2, <2>4
       DEF CreateRepository, CreateRepositoryNode, Goto, TypeInv, TypeOK
<1> QED
  BY <1>1, <1>2

\* Nor does the query that clears is_complete.
LEMMA MarkDoes ==
  ASSUME TypeInv, NEW t \in Tasks, MarkIncomplete(t)
  PROVE  /\ pc[t] = "mark" /\ pc'[t] = "list" /\ UNCHANGED task
         /\ SameBelowAll /\ UNCHANGED World /\ UNCHANGED latest
BY DEF MarkIncomplete, SetFlag, SameBelowAll, World, graphVars, environment,
       Goto, TypeInv, TypeOK

\* existing_files becomes what the graph has for the repository.
LEMMA ListDoes ==
  ASSUME TypeInv, NEW t \in Tasks, ListFiles(t)
  PROVE  /\ pc[t] = "list" /\ pc'[t] = "files" /\ Carries(t)
         /\ task'[t].existing \in FilesRead(task[t].node)
         /\ task'[t].file = task[t].file /\ task'[t].todo = task[t].todo
         /\ SameMerge(t) /\ SameBelowAll /\ UNCHANGED World
         /\ UNCHANGED <<latest, repository>>
<1>1. PICK e \in FilesRead(task[t].node) :
        Locally(t, [task[t] EXCEPT !.existing = e])
  BY DEF ListFiles
<1> DEFINE l == [task[t] EXCEPT !.existing = e]
<1>2. /\ l.node = task[t].node /\ l.raw = task[t].raw /\ l.todo = task[t].todo
      /\ l.existing = e /\ l.file = task[t].file
      /\ l.have = task[t].have /\ l.want = task[t].want
      /\ l.batch = task[t].batch /\ l.commit = task[t].commit
  BY LocalsType DEF Locals
<1>3. Locally(t, l)
  BY <1>1
<1> HIDE DEF l
<1>4. task'[t] = l
  BY <1>3 DEF Locally, TypeInv, TypeOK
<1> QED
  BY <1>2, <1>4
     DEF ListFiles, Carries, SameMerge, SameBelowAll, World, graphVars,
         environment, Goto, TypeInv, TypeOK

\* A file that the analysis did not find is deleted.
LEMMA DropDoes ==
  ASSUME TypeInv, NEW t \in Tasks, NEW f \in Files, DropFile(t, f)
  PROVE  /\ pc[t] = "files" /\ pc'[t] = "files"
         /\ task[t].existing[f] # None /\ f \notin task[t].todo
         /\ task'[t].existing = [task[t].existing EXCEPT ![f] = None]
         /\ Carries(t) /\ SameMerge(t)
         /\ task'[t].file = task[t].file
         /\ task'[t].todo = task[t].todo
         /\ DeleteFile(task[t].node, f) /\ UNCHANGED stream /\ UNCHANGED packages
         /\ UNCHANGED World /\ UNCHANGED <<latest, repository>>
<1> DEFINE l == [task[t] EXCEPT !.existing[f] = None]
<1>1. /\ l.node = task[t].node
      /\ l.raw = task[t].raw
      /\ l.commit = task[t].commit
      /\ l.existing = [task[t].existing EXCEPT ![f] = None]
      /\ l.file = task[t].file
      /\ l.todo = task[t].todo
      /\ l.have = task[t].have
      /\ l.want = task[t].want
      /\ l.batch = task[t].batch
  BY TaskFacts DEF Locals
<1>2. Locally(t, l)
  BY DEF DropFile, DeleteFile
<1> HIDE DEF l
<1>3. task'[t] = l
  BY <1>2 DEF Locally, TypeInv, TypeOK
<1> QED
  BY <1>1, <1>3
     DEF DropFile, DeleteFile, Carries, SameWork, SameMerge, SameBelowAll,
        World, graphVars,
         environment, Goto, TypeInv, TypeOK

\* The packages of a file that both the graph and the analysis have, less
\* those whose constraints agree.
Differ(h, f, have, want) ==
  [p \in Packages |-> IF Matches(f, p, have, want) /\ have[p] = want[p]
                      THEN None ELSE h[p]]

\* A file is taken in hand with the packages on which the two differ.
LEMMA UpdateDoes ==
  ASSUME TypeInv, NEW t \in Tasks, NEW f \in Files, UpdateFile(t, f)
  PROVE  /\ pc[t] = "files" /\ pc'[t] = "packages" /\ Carries(t)
         /\ task[t].existing[f] # None /\ f \in task[t].todo
         /\ task'[t].file = task[t].existing[f]
         /\ task'[t].existing = [task[t].existing EXCEPT ![f] = None]
         /\ task'[t].todo = task[t].todo \ {f}
         /\ task'[t].batch = task[t].batch
         /\ \E have \in PackagesRead(task[t].existing[f]) :
              /\ task'[t].have = Differ(have, f, have, task[t].raw[f])
              /\ task'[t].want = Differ(task[t].raw[f], f, have, task[t].raw[f])
         /\ SameBelowAll /\ UNCHANGED World /\ UNCHANGED <<latest, repository>>
<1> DEFINE W == task[t].raw[f]
<1>1. PICK have \in PackagesRead(task[t].existing[f]) :
        LET same == {p \in Packages : Matches(f, p, have, W) /\ have[p] = W[p]}
            rest(h) == [p \in Packages |-> IF p \in same THEN None ELSE h[p]]
        IN Locally(t, [task[t] EXCEPT !.file = task[t].existing[f],
                                      !.existing[f] = None,
                                      !.todo = @ \ {f},
                                      !.have = rest(have), !.want = rest(W)])
  BY DEF UpdateFile
<1> DEFINE same == {p \in Packages : Matches(f, p, have, W) /\ have[p] = W[p]}
           rest(h) == [p \in Packages |-> IF p \in same THEN None ELSE h[p]]
<1>2. rest(have) = Differ(have, f, have, W) /\ rest(W) = Differ(W, f, have, W)
  BY DEF Differ
<1> DEFINE l == [task[t] EXCEPT !.file = task[t].existing[f],
                                !.existing[f] = None, !.todo = @ \ {f},
                                !.have = rest(have), !.want = rest(W)]
<1>3. Locally(t, l)
  BY <1>1
<1> HIDE DEF same, rest
<1>4. /\ l.node = task[t].node /\ l.raw = task[t].raw
      /\ l.todo = task[t].todo \ {f} /\ l.file = task[t].existing[f]
      /\ l.existing = [task[t].existing EXCEPT ![f] = None]
      /\ l.have = rest(have) /\ l.want = rest(W)
      /\ l.batch = task[t].batch /\ l.commit = task[t].commit
  BY LocalsType DEF Locals
<1> HIDE DEF l
<1>5. task'[t] = l
  BY <1>3 DEF Locally, TypeInv, TypeOK
<1> QED
  BY <1>2, <1>4, <1>5
     DEF UpdateFile, Carries, SameBelowAll, World, graphVars,
         environment, Goto, TypeInv, TypeOK

\* One constraint is rewritten and popped on both sides.
LEMMA ChangeDoes ==
  ASSUME TypeInv, NEW t \in Tasks, NEW p \in Packages, ChangeConstraint(t, p)
  PROVE  /\ pc[t] = "packages" /\ pc'[t] = "packages"
         /\ Matches(task[t].file[2], p, task[t].have, task[t].want)
         /\ task'[t].have = [task[t].have EXCEPT ![p] = None]
         /\ task'[t].want = [task[t].want EXCEPT ![p] = None]
         /\ Carries(t) /\ SameWork(t)
         /\ task'[t].batch = task[t].batch
         /\ SetConstraint(task[t].file, p, task[t].want[p])
         /\ UNCHANGED <<uses, packages, stream>>
         /\ UNCHANGED World /\ UNCHANGED <<latest, repository>>
<1> DEFINE l == [task[t] EXCEPT !.have[p] = None, !.want[p] = None]
<1>1. /\ l.node = task[t].node
      /\ l.raw = task[t].raw
      /\ l.commit = task[t].commit
      /\ l.existing = task[t].existing
      /\ l.file = task[t].file
      /\ l.todo = task[t].todo
      /\ l.have = [task[t].have EXCEPT ![p] = None]
      /\ l.want = [task[t].want EXCEPT ![p] = None]
      /\ l.batch = task[t].batch
  BY TaskFacts DEF Locals
<1>2. Locally(t, l)
  BY DEF ChangeConstraint, SetConstraint
<1> HIDE DEF l
<1>3. task'[t] = l
  BY <1>2 DEF Locally, TypeInv, TypeOK
<1> QED
  BY <1>1, <1>3
     DEF ChangeConstraint, SetConstraint, Carries, SameWork, SameMerge,
        SameBelowAll, World, graphVars,
         environment, Goto, TypeInv, TypeOK

\* One relationship is deleted and popped from existing_packages.
LEMMA RemoveDoes ==
  ASSUME TypeInv, NEW t \in Tasks, NEW p \in Packages, RemovePackage(t, p)
  PROVE  /\ pc[t] = "packages" /\ pc'[t] = "packages"
         /\ task[t].have[p] # None
         /\ ~Matches(task[t].file[2], p, task[t].have, task[t].want)
         /\ task'[t].have = [task[t].have EXCEPT ![p] = None]
         /\ Carries(t) /\ SameWork(t)
         /\ task'[t].want = task[t].want
         /\ task'[t].batch = task[t].batch
         /\ DeleteRelation(task[t].file, p)
         /\ UNCHANGED <<uses, packages, stream>>
         /\ UNCHANGED World /\ UNCHANGED <<latest, repository>>
<1> DEFINE l == [task[t] EXCEPT !.have[p] = None]
<1>1. /\ l.node = task[t].node
      /\ l.raw = task[t].raw
      /\ l.commit = task[t].commit
      /\ l.existing = task[t].existing
      /\ l.file = task[t].file
      /\ l.todo = task[t].todo
      /\ l.have = [task[t].have EXCEPT ![p] = None]
      /\ l.want = task[t].want
      /\ l.batch = task[t].batch
  BY TaskFacts DEF Locals
<1>2. Locally(t, l)
  BY DEF RemovePackage, DeleteRelation
<1> HIDE DEF l
<1>3. task'[t] = l
  BY <1>2 DEF Locally, TypeInv, TypeOK
<1> QED
  BY <1>1, <1>3
     DEF RemovePackage, DeleteRelation, Carries, SameWork, SameMerge,
        SameBelowAll, World, graphVars,
         environment, Goto, TypeInv, TypeOK

\* A file node is created and all of its packages are to be queued.
LEMMA NewFileDoes ==
  ASSUME TypeInv, NEW t \in Tasks, NEW f \in Files, CreateRequirementFile(t, f)
  PROVE  /\ pc[t] = "files" /\ pc'[t] = "packages"
         /\ task[t].existing = NoFiles /\ f \in task[t].todo
         /\ task'[t].file = IF NodeExists(task[t].node) THEN <<t, f>> ELSE None
         /\ task'[t].todo = task[t].todo \ {f}
         /\ task'[t].want = task[t].raw[f]
         /\ Carries(t)
         /\ task'[t].existing = task[t].existing
         /\ task'[t].have = task[t].have
         /\ task'[t].batch = task[t].batch
         /\ CreateFile(<<t, f>>, task[t].node)
         /\ UNCHANGED <<requires, dirty, packages, stream>>
         /\ UNCHANGED World /\ UNCHANGED <<latest, repository>>
<1> DEFINE l == [task[t] EXCEPT
       !.file = IF NodeExists(task[t].node) THEN <<t, f>> ELSE None,
       !.todo = @ \ {f}, !.want = task[t].raw[f]]
<1>1. /\ l.node = task[t].node
      /\ l.raw = task[t].raw
      /\ l.commit = task[t].commit
      /\ l.existing = task[t].existing
      /\ l.file = IF NodeExists(task[t].node) THEN <<t, f>> ELSE None
      /\ l.todo = task[t].todo \ {f}
      /\ l.have = task[t].have
      /\ l.want = task[t].raw[f]
      /\ l.batch = task[t].batch
  BY TaskFacts DEF Locals
<1>2. Locally(t, l)
  BY DEF CreateRequirementFile, CreateFile
<1> HIDE DEF l
<1>3. task'[t] = l
  BY <1>2 DEF Locally, TypeInv, TypeOK
<1> QED
  BY <1>1, <1>3
     DEF CreateRequirementFile, CreateFile, Carries, SameWork, SameMerge,
        SameBelowAll, World, graphVars,
         environment, Goto, TypeInv, TypeOK

\* A known package goes to the batch, an unknown one to the stream next.
LEMMA CheckDoes ==
  ASSUME TypeInv, NEW t \in Tasks, NEW p \in Packages, CheckPackage(t, p)
  PROVE  /\ pc[t] = "packages" /\ task[t].have = Nothing /\ task[t].want[p] # None
         /\ Carries(t) /\ SameWork(t) /\ task'[t].have = task[t].have
         /\ SameBelowAll /\ UNCHANGED World /\ UNCHANGED <<latest, repository>>
         /\ p \in packages =>
              /\ pc'[t] = "packages"
              /\ task'[t].batch = [task[t].batch EXCEPT ![p] = task[t].want[p]]
              /\ task'[t].want = [task[t].want EXCEPT ![p] = None]
         /\ p \notin packages => pc'[t] = "xadd" /\ SameMerge(t)
<1> USE DEF Carries, SameWork, SameMerge, SameBelowAll, World, graphVars,
            environment
<1>1. CASE p \in packages
  <2> DEFINE l == [task[t] EXCEPT !.batch[p] = task[t].want[p], !.want[p] = None]
  <2>1. /\ l.node = task[t].node /\ l.raw = task[t].raw /\ l.todo = task[t].todo
        /\ l.existing = task[t].existing /\ l.file = task[t].file
        /\ l.have = task[t].have /\ l.commit = task[t].commit
        /\ l.want = [task[t].want EXCEPT ![p] = None]
        /\ l.batch = [task[t].batch EXCEPT ![p] = task[t].want[p]]
    BY LocalsType DEF Locals
  <2>2. Locally(t, l)
    BY <1>1 DEF CheckPackage
  <2> HIDE DEF l
  <2>3. task'[t] = l
    BY <2>2 DEF Locally, TypeInv, TypeOK
  <2> QED
    BY <1>1, <2>1, <2>3 DEF CheckPackage
<1>2. CASE p \notin packages
  <2> DEFINE l == [task[t] EXCEPT !.missing = p]
  <2>1. /\ l.node = task[t].node /\ l.raw = task[t].raw /\ l.todo = task[t].todo
        /\ l.existing = task[t].existing /\ l.file = task[t].file
        /\ l.have = task[t].have /\ l.want = task[t].want
        /\ l.batch = task[t].batch /\ l.commit = task[t].commit
    BY LocalsType DEF Locals
  <2>2. Locally(t, l)
    BY <1>2 DEF CheckPackage
  <2> HIDE DEF l
  <2>3. task'[t] = l
    BY <2>2 DEF Locally, TypeInv, TypeOK
  <2> QED
    BY <1>2, <2>1, <2>3 DEF CheckPackage, TypeInv, TypeOK
<1> QED
  BY <1>1, <1>2

\* The package is queued for the file in hand.
LEMMA AddMessageDoes ==
  ASSUME TypeInv, NEW t \in Tasks, AddMessage(t)
  PROVE  /\ pc[t] = "xadd" /\ pc'[t] = "packages"
         /\ task'[t].want = [task[t].want EXCEPT ![task[t].missing] = None]
         /\ Carries(t) /\ SameWork(t)
         /\ task'[t].have = task[t].have
         /\ task'[t].batch = task[t].batch
         /\ stream' = stream \cup
              {[pkg |-> task[t].missing, con |-> task[t].want[task[t].missing],
                parent |-> task[t].file, by |-> t]}
         /\ UNCHANGED <<uses, requires, dirty, packages>>
         /\ UNCHANGED World /\ UNCHANGED <<latest, repository>>
<1> DEFINE l == [task[t] EXCEPT !.want[task[t].missing] = None, !.missing = None]
<1>1. /\ l.node = task[t].node
      /\ l.raw = task[t].raw
      /\ l.commit = task[t].commit
      /\ l.existing = task[t].existing
      /\ l.file = task[t].file
      /\ l.todo = task[t].todo
      /\ l.have = task[t].have
      /\ l.want = [task[t].want EXCEPT ![task[t].missing] = None]
      /\ l.batch = task[t].batch
  BY TaskFacts DEF Locals
<1>2. Locally(t, l)
  BY DEF AddMessage
<1> HIDE DEF l
<1>3. task'[t] = l
  BY <1>2 DEF Locally, TypeInv, TypeOK
<1> QED
  BY <1>1, <1>3
     DEF AddMessage, Carries, SameWork, SameMerge, SameBelowAll, World,
        graphVars,
         environment, Goto, TypeInv, TypeOK

\* The batch becomes relationships; a created file is then finished.
LEMMA RelateDoes ==
  ASSUME TypeInv, NEW t \in Tasks, RelatePackages(t)
  PROVE  /\ pc[t] = "packages" /\ pc'[t] = IF Created(t) THEN "files" ELSE "stamp"
         /\ task[t].have = Nothing /\ task[t].want = Nothing
         /\ task'[t].file = IF Created(t) THEN None ELSE task[t].file
         /\ task'[t].batch = Nothing
         /\ Carries(t)
         /\ task'[t].existing = task[t].existing
         /\ task'[t].todo = task[t].todo
         /\ task'[t].have = task[t].have
         /\ task'[t].want = task[t].want
         /\ RelateAll(t, task[t].file, task[t].batch)
         /\ UNCHANGED <<uses, packages, stream>>
         /\ UNCHANGED World /\ UNCHANGED <<latest, repository>>
<1> DEFINE l == [task[t] EXCEPT !.batch = Nothing,
                                !.file = IF Created(t) THEN None ELSE @]
<1>1. /\ l.node = task[t].node
      /\ l.raw = task[t].raw
      /\ l.commit = task[t].commit
      /\ l.existing = task[t].existing
      /\ l.file = IF Created(t) THEN None ELSE task[t].file
      /\ l.todo = task[t].todo
      /\ l.have = task[t].have
      /\ l.want = task[t].want
      /\ l.batch = Nothing
  BY TaskFacts DEF Locals
<1>2. Locally(t, l)
  BY DEF RelatePackages, RelateAll
<1> HIDE DEF l
<1>3. task'[t] = l
  BY <1>2 DEF Locally, TypeInv, TypeOK
<1> QED
  BY <1>1, <1>3
     DEF RelatePackages, RelateAll, Carries, SameWork, SameMerge,
        SameBelowAll, World, graphVars,
         environment, Goto, TypeInv, TypeOK

\* The file in hand is stamped and let go.
LEMMA StampDoes ==
  ASSUME TypeInv, NEW t \in Tasks, StampFile(t)
  PROVE  /\ pc[t] = "stamp" /\ pc'[t] = "files"
         /\ task'[t].file = None
         /\ Carries(t) /\ SameMerge(t)
         /\ task'[t].existing = task[t].existing
         /\ task'[t].todo = task[t].todo
         /\ dirty' = dirty \ {task[t].file}
         /\ UNCHANGED <<uses, requires, packages, stream>>
         /\ UNCHANGED World /\ UNCHANGED <<latest, repository>>
<1> DEFINE l == [task[t] EXCEPT !.file = None]
<1>1. /\ l.node = task[t].node
      /\ l.raw = task[t].raw
      /\ l.commit = task[t].commit
      /\ l.existing = task[t].existing
      /\ l.file = None
      /\ l.todo = task[t].todo
      /\ l.have = task[t].have
      /\ l.want = task[t].want
      /\ l.batch = task[t].batch
  BY TaskFacts DEF Locals
<1>2. Locally(t, l)
  BY DEF StampFile, StampMoment
<1> HIDE DEF l
<1>3. task'[t] = l
  BY <1>2 DEF Locally, TypeInv, TypeOK
<1> QED
  BY <1>1, <1>3
     DEF StampFile, StampMoment, Carries, SameWork, SameMerge, SameBelowAll,
        World, graphVars,
         environment, Goto, TypeInv, TypeOK

\* The moment of the repository is set when no file is left.
LEMMA MomentDoes ==
  ASSUME TypeInv, NEW t \in Tasks, UpdateMoment(t)
  PROVE  /\ pc[t] = "files" /\ pc'[t] = "finish" /\ UNCHANGED task
         /\ task[t].existing = NoFiles /\ task[t].todo = {}
         /\ SameBelowAll /\ UNCHANGED World /\ UNCHANGED latest
BY DEF UpdateMoment, FilesDone, SetMoment, SameBelowAll, World, graphVars,
       environment, Goto, TypeInv, TypeOK

\* is_complete is set again; latest records the analysis.
LEMMA CompleteDoes ==
  ASSUME TypeInv, NEW t \in Tasks, SetComplete(t)
  PROVE  /\ pc[t] \in {"files", "finish"} /\ pc'[t] = "own" /\ UNCHANGED task
         /\ pc[t] = "files" => task[t].existing = NoFiles /\ task[t].todo = {}
         /\ SameBelowAll /\ UNCHANGED World
         /\ \A n \in Tasks : latest'[n] = IF n = task[t].node THEN task[t].raw
                                           ELSE latest[n]
BY NoneAssumption
   DEF SetComplete, FilesDone, SetFlag, SameBelowAll, World, graphVars,
       environment, Goto, TypeInv, TypeOK

\* The owner is related after the work is done.
LEMMA OwnDoes ==
  ASSUME TypeInv, NEW t \in Tasks, OwnRepository(t)
  PROVE  /\ pc[t] = "own" /\ pc'[t] = "done" /\ UNCHANGED task
         /\ SameBelowAll /\ UNCHANGED World /\ UNCHANGED <<latest, repository>>
BY DEF OwnRepository, MergeOwner, SameBelowAll, World, graphVars, environment,
       Goto, TypeInv, TypeOK

\* A failure changes nothing but where the task stands.
LEMMA FailDoes ==
  ASSUME TypeInv, NEW t \in Tasks, Fail(t)
  PROVE  /\ pc'[t] = "failed" /\ UNCHANGED task
         /\ SameBelowAll /\ UNCHANGED World /\ UNCHANGED <<latest, repository>>
BY DEF Fail, SameBelowAll, World, graphVars, environment, Goto, TypeInv, TypeOK

\* A missing directory ends the task.
LEMMA GoneDoes ==
  ASSUME TypeInv, NEW t \in Tasks, DirectoryGone(t)
  PROVE  /\ pc[t] = "open" /\ pc'[t] = "failed" /\ UNCHANGED task
         /\ SameBelowAll /\ UNCHANGED World /\ UNCHANGED <<latest, repository>>
BY DEF DirectoryGone, SameBelowAll, World, graphVars, environment, Goto,
       TypeInv, TypeOK

-----------------------------------------------------------------------------
(* What a task's locals say by themselves at each place.                   *)

LocalJob(t) ==
  LET l == task[t] IN
  /\ pc[t] \in Early => /\ l.existing = NoFiles /\ l.file = None
                        /\ l.have = Nothing /\ l.want = Nothing /\ l.batch = Nothing
  /\ pc[t] \in {"create", "mark", "list"} => l.todo = Found(l.raw)
  /\ pc[t] \in Begun => \A f \in Files :
                          l.existing[f] # None /\ l.raw[f] # None => f \in l.todo
  /\ pc[t] \in {"files", "finish"} => /\ l.file = None /\ l.batch = Nothing
                                      /\ l.have = Nothing /\ l.want = Nothing
  /\ pc[t] = "stamp" => l.have = Nothing /\ l.want = Nothing /\ l.batch = Nothing
  /\ pc[t] = "xadd" => l.have = Nothing
  /\ pc[t] = "finish" => l.existing = NoFiles /\ l.todo = {}
  /\ l.batch # Nothing => l.have = Nothing

Jobs == \A t \in Tasks : LocalJob(t)

\* No request has begun.
LEMMA InitJobs == Init => Jobs
BY DEF Init, NoLocals, Jobs, LocalJob, Begun, Found

\* The empty content and the empty map of files.
LEMMA EmptyPackages ==
  /\ \A p \in Packages : Nothing[p] = None
  /\ \A f \in Files : NoFiles[f] = None
BY DEF Nothing, NoFiles

\* The download prepares todo from what it found.
LEMMA DownloadJob ==
  ASSUME TypeInv, Jobs, NEW t \in Tasks, Handle(t) \/ Download(t)
  PROVE  LocalJob(t)'
<1> USE DEF Jobs, LocalJob, Begun, Early, Accepted, Window, SameWork, SameMerge
<1>1. CASE Handle(t)
  BY <1>1, HandleDoes
<1>2. CASE StartDownload(t)
  BY <1>2, StartDoes
<1>3. CASE ListTree(t)
  BY <1>3, ListTreeDoes
<1>4. CASE OpenTarget(t)
  BY <1>4, OpenDoes
<1>5. CASE DirectoryGone(t)
  BY <1>5, GoneDoes
<1>6. CASE WriteTarget(t)
  BY <1>6, WriteDoes
<1>7. CASE Analyze(t)
  BY <1>7, AnalyzeDoes
<1>8. ASSUME NEW f \in Files, FetchFile(t, f) PROVE LocalJob(t)'
  BY <1>8, FetchDoes
<1>9. ASSUME NEW f \in Files, SkipFile(t, f) PROVE LocalJob(t)'
  BY <1>9, SkipDoes
<1> QED
  BY <1>1, <1>2, <1>3, <1>4, <1>5, <1>6, <1>7, <1>8, <1>9 DEF Download

\* The update empties todo and existing_files and what is in hand.
LEMMA PersistJob ==
  ASSUME TypeInv, Jobs, NEW t \in Tasks, Persist(t)
  PROVE  LocalJob(t)'
<1> USE DEF Jobs, LocalJob, Begun, Early, Accepted, Window, SameWork, SameMerge,
            Carries
<1>1. CASE CreateRepository(t)
  BY <1>1, CreateDoes, EmptyPackages DEF Found
<1>2. CASE MarkIncomplete(t)
  BY <1>2, MarkDoes
<1>3. CASE ListFiles(t)
  BY <1>3, ListDoes DEF Found
<1>4. CASE AddMessage(t)
  <2>1. /\ pc[t] = "xadd" /\ pc'[t] = "packages" /\ Carries(t) /\ SameWork(t)
        /\ task'[t].have = task[t].have /\ task'[t].batch = task[t].batch
    BY <1>4, AddMessageDoes
  <2> QED
    BY <2>1
<1>5. CASE RelatePackages(t)
  BY <1>5, RelateDoes
<1>6. CASE StampFile(t)
  BY <1>6, StampDoes
<1>7. CASE UpdateMoment(t)
  BY <1>7, MomentDoes
<1>8. CASE SetComplete(t)
  BY <1>8, CompleteDoes
<1>9. CASE OwnRepository(t)
  BY <1>9, OwnDoes
<1>10. ASSUME NEW f \in Files, DropFile(t, f) PROVE LocalJob(t)'
  <2>1. /\ pc[t] = "files" /\ pc'[t] = "files" /\ Carries(t) /\ SameMerge(t)
        /\ task'[t].file = task[t].file /\ task'[t].todo = task[t].todo
        /\ task'[t].existing = [task[t].existing EXCEPT ![f] = None]
    BY <1>10, DropDoes
  <2>2. \A g \in Files : task'[t].existing[g] \in {task[t].existing[g], None}
    BY <2>1, TaskFacts
  <2> QED
    BY <2>1, <2>2
<1>11. ASSUME NEW f \in Files, UpdateFile(t, f) PROVE LocalJob(t)'
  <2>1. /\ pc[t] = "files" /\ pc'[t] = "packages" /\ Carries(t)
        /\ task'[t].todo = task[t].todo \ {f}
        /\ task'[t].existing = [task[t].existing EXCEPT ![f] = None]
        /\ task'[t].batch = task[t].batch
    BY <1>11, UpdateDoes
  <2>2. \A g \in Files : task'[t].existing[g] =
          IF g = f THEN None ELSE task[t].existing[g]
    BY <2>1, TaskFacts
  <2> QED
    BY <2>1, <2>2
<1>12. ASSUME NEW f \in Files, CreateRequirementFile(t, f) PROVE LocalJob(t)'
  <2>1. /\ pc[t] = "files" /\ pc'[t] = "packages" /\ Carries(t)
        /\ task[t].existing = NoFiles /\ task'[t].existing = task[t].existing
        /\ task'[t].have = task[t].have /\ task'[t].batch = task[t].batch
    BY <1>12, NewFileDoes
  <2> QED
    BY <2>1, EmptyPackages
<1>13. ASSUME NEW p \in Packages, ChangeConstraint(t, p) PROVE LocalJob(t)'
  <2>1. /\ pc[t] = "packages" /\ pc'[t] = "packages" /\ Carries(t) /\ SameWork(t)
        /\ task'[t].batch = task[t].batch
        /\ Matches(task[t].file[2], p, task[t].have, task[t].want)
    BY <1>13, ChangeDoes
  <2>2. task[t].have # Nothing
    BY <2>1, EmptyPackages DEF Matches
  <2> QED
    BY <2>1, <2>2
<1>14. ASSUME NEW p \in Packages, RemovePackage(t, p) PROVE LocalJob(t)'
  <2>1. /\ pc[t] = "packages" /\ pc'[t] = "packages" /\ Carries(t) /\ SameWork(t)
        /\ task'[t].batch = task[t].batch /\ task[t].have[p] # None
    BY <1>14, RemoveDoes
  <2>2. task[t].have # Nothing
    BY <2>1, EmptyPackages
  <2> QED
    BY <2>1, <2>2
<1>15. ASSUME NEW p \in Packages, CheckPackage(t, p) PROVE LocalJob(t)'
  <2>1. /\ pc[t] = "packages" /\ pc'[t] \in {"packages", "xadd"} /\ Carries(t)
        /\ SameWork(t) /\ task[t].have = Nothing /\ task'[t].have = task[t].have
    BY <1>15, CheckDoes
  <2> QED
    BY <2>1
<1> QED
  BY <1>1, <1>2, <1>3, <1>4, <1>5, <1>6, <1>7, <1>8, <1>9, <1>10, <1>11, <1>12,
     <1>13, <1>14, <1>15 DEF Persist

\* LocalJob is about one task's locals, which only it changes.
LEMMA JobsNext == TypeInv /\ Jobs /\ [Next]_vars => Jobs'
<1> SUFFICES ASSUME TypeInv, Jobs, [Next]_vars PROVE Jobs'
  OBVIOUS
<1>1. ASSUME NEW t \in Tasks, Handle(t) \/ Download(t) \/ Persist(t) \/ Fail(t)
      PROVE  Jobs'
  <2>1. LocalJob(t)'
    <3>1. CASE Fail(t)
      BY <3>1, FailDoes
         DEF Jobs, LocalJob, Begun, Early, Accepted, Window
    <3> QED
      BY <1>1, <3>1, DownloadJob, PersistJob
  <2>2. \A u \in Tasks : u # t => LocalJob(u)'
    BY <1>1, StepOthers DEF Others, Jobs, LocalJob
  <2> QED
    BY <2>1, <2>2 DEF Jobs
<1>2. ASSUME UNCHANGED <<pc, task>> PROVE Jobs'
  BY <1>2 DEF Jobs, LocalJob
<1> QED
  BY <1>1, <1>2 DEF Next, vars, Commit, Extract

-----------------------------------------------------------------------------
(* Without races, HTTP errors and pushes during a request, the analysis is  *)
(* that of HEAD.                                                           *)

Quiet == ~Racing /\ ~HttpErrors /\ ~CommitAnytime

MomentsPast ==
  \A n \in Tasks : repository[n] # None =>
    repository[n].moment <= commits[repository[n].repo]

Downloading(t) ==
  LET l == task[t]
      tree == head[RepoOf[t]]
      d == dir[RepoOf[t]]
  IN /\ Served(t) => l.commit = commits[RepoOf[t]]
     /\ pc[t] = "tree" => d.entries = NoFiles
     /\ pc[t] \in {"fetch", "open", "write"} =>
          /\ \A f \in l.fetching : tree[f] # None
          /\ \A f \in Files : /\ f \notin l.fetching
                              /\ pc[t] = "fetch" \/ l.target # f
                              => d.entries[f] = tree[f]
     /\ pc[t] \in {"open", "write"} =>
          l.target \in Files /\ l.content = tree[l.target]
     /\ pc[t] = "write" => t \in d.writers
     /\ pc[t] \in {"create", "mark"} \cup Writing => l.raw = tree

QuietInv == MomentsPast /\ CaughtUp /\ \A t \in Tasks : Downloading(t)

\* Nothing is downloaded and no repository exists.
LEMMA InitQuiet == Init => QuietInv
<1> SUFFICES ASSUME Init PROVE QuietInv
  OBVIOUS
<1>1. MomentsPast /\ CaughtUp
  BY DEF Init, GraphInit, MomentsPast, CaughtUp
<1>2. \A t \in Tasks : pc[t] = "idle"
  BY DEF Init
<1>3. \A t \in Tasks : Downloading(t)
  BY <1>2 DEF Downloading, Served, Background, Writing, Window
<1> QED
  BY <1>1, <1>3 DEF QuietInv

(* What t sees of HEAD and of the disk changes by its own steps only.      *)
LEMMA DownloadingStays ==
  ASSUME NEW t \in Tasks, Downloading(t), pc'[t] = pc[t], task'[t] = task[t],
         Served(t) => UNCHANGED <<head[RepoOf[t]], commits[RepoOf[t]]>>,
         pc[t] \in {"tree", "fetch", "open", "write"} =>
           UNCHANGED dir[RepoOf[t]]
  PROVE  Downloading(t)'
BY DEF Downloading, Served, Background, Writing, Window

\* The handler downloads nothing.
LEMMA DownloadingHandle ==
  ASSUME TypeInv, NEW t \in Tasks, Downloading(t), Handle(t)
  PROVE  Downloading(t)'
BY HandleDoes
   DEF Downloading, Served, Background, Writing, Window, World

\* Each step of the download brings the directory closer to HEAD.
LEMMA DownloadingOwn ==
  ASSUME TypeInv, Quiet, NEW t \in Tasks, Downloading(t), Download(t)
  PROVE  Downloading(t)'
<1> DEFINE tree == head[RepoOf[t]]
           d == dir[RepoOf[t]]
<1> USE DEF Served, Background, Writing, Window, Carries, World
<1>0. tree \in Tree /\ d.entries \in Tree
  BY TaskFacts DEF TypeInv, TypeOK, Directory
<1>1. CASE StartDownload(t)
  BY <1>1, StartDoes DEF Downloading
<1>2. CASE ListTree(t)
  <2>1. /\ pc[t] = "tree" /\ pc'[t] = "fetch" /\ Carries(t) /\ UNCHANGED World
        /\ task'[t].fetching = Found(tree)
    BY <1>2, ListTreeDoes DEF Quiet
  <2>2. \A f \in Files : f \notin Found(tree) => d.entries[f] = tree[f]
    BY <2>1 DEF Downloading, Found, NoFiles
  <2> QED
    BY <2>1, <2>2 DEF Downloading, Found
<1>3. CASE OpenTarget(t)
  <2>1. /\ pc[t] = "open" /\ pc'[t] = "write" /\ UNCHANGED <<task, head, commits>>
        /\ \A f \in Files : f # task[t].target =>
              dir'[RepoOf[t]].entries[f] = d.entries[f]
        /\ t \in dir'[RepoOf[t]].writers
    BY <1>3, OpenDoes
  <2> QED
    BY <2>1 DEF Downloading
<1>4. CASE DirectoryGone(t)
  BY <1>4, GoneDoes DEF Downloading
<1>5. CASE WriteTarget(t)
  <2>1. /\ pc[t] = "write" /\ pc'[t] = "fetch" /\ UNCHANGED <<task, head, commits>>
        /\ t \in d.writers
    BY <1>5, WriteDoes DEF Downloading
  <2>2. \A f \in Files : dir'[RepoOf[t]].entries[f] =
          IF f = task[t].target THEN task[t].content ELSE d.entries[f]
    BY <1>5, <2>1, WriteDoes
  <2> QED
    BY <2>1, <2>2 DEF Downloading
<1>6. CASE Analyze(t)
  <2>1. /\ pc[t] = "fetch" /\ pc'[t] \in {"create", "mark", "own"}
        /\ task[t].fetching = {} /\ task'[t].commit = task[t].commit
        /\ task'[t].raw = d.entries /\ UNCHANGED <<head, commits>>
    BY <1>6, AnalyzeDoes
  <2>2. \A f \in Files : d.entries[f] = tree[f]
    BY <2>1 DEF Downloading
  <2>3. d.entries = tree
    BY <1>0, <2>2 DEF Tree
  <2> QED
    BY <2>1, <2>3 DEF Downloading
<1>7. ASSUME NEW f \in Files, FetchFile(t, f) PROVE Downloading(t)'
  <2>1. /\ pc[t] = "fetch" /\ pc'[t] = "open" /\ Carries(t)
        /\ f \in task[t].fetching /\ UNCHANGED <<head, commits>>
        /\ task'[t].fetching = task[t].fetching \ {f}
        /\ task'[t].target = f /\ task'[t].content = tree[f]
        /\ dir'[RepoOf[t]].entries = d.entries
    BY <1>7, FetchDoes
  <2> QED
    BY <2>1 DEF Downloading
<1>8. ASSUME NEW f \in Files, SkipFile(t, f) PROVE FALSE
  BY <1>8, SkipDoes DEF Downloading, Quiet
<1> QED
  BY <1>1, <1>2, <1>3, <1>4, <1>5, <1>6, <1>7, <1>8 DEF Download

\* From the first write on, a task keeps what it found and leaves HEAD and the
\* disk alone.
Persists(t) ==
  /\ task'[t].raw = task[t].raw /\ task'[t].commit = task[t].commit
  /\ UNCHANGED World /\ Served(t)
  /\ \/ pc[t] \in {"create", "mark"} \cup Writing /\ pc'[t] \in Writing
     \/ pc'[t] \in {"done", "failed"}
     \/ pc[t] \in Writing /\ pc'[t] = "own"

\* After the download neither the disk nor GitHub matters.
LEMMA PersistKeeps ==
  ASSUME TypeInv, NEW t \in Tasks, Persist(t) \/ Fail(t)
  PROVE  Persists(t)
<1> USE DEF Persists, Carries, Writing, Served, Background, Window
<1>1. CASE CreateRepository(t)
  BY <1>1, CreateDoes
<1>2. CASE MarkIncomplete(t)
  BY <1>2, MarkDoes
<1>3. CASE ListFiles(t)
  BY <1>3, ListDoes
<1>4. CASE AddMessage(t)
  BY <1>4, AddMessageDoes
<1>5. CASE RelatePackages(t)
  BY <1>5, RelateDoes
<1>6. CASE StampFile(t)
  BY <1>6, StampDoes
<1>7. CASE UpdateMoment(t)
  BY <1>7, MomentDoes
<1>8. CASE SetComplete(t)
  BY <1>8, CompleteDoes
<1>9. CASE OwnRepository(t)
  BY <1>9, OwnDoes
<1>10. ASSUME NEW f \in Files, DropFile(t, f) PROVE Persists(t)
  BY <1>10, DropDoes
<1>11. ASSUME NEW f \in Files, UpdateFile(t, f) PROVE Persists(t)
  BY <1>11, UpdateDoes
<1>12. ASSUME NEW f \in Files, CreateRequirementFile(t, f) PROVE Persists(t)
  BY <1>12, NewFileDoes
<1>13. ASSUME NEW p \in Packages, ChangeConstraint(t, p) PROVE Persists(t)
  BY <1>13, ChangeDoes
<1>14. ASSUME NEW p \in Packages, RemovePackage(t, p) PROVE Persists(t)
  BY <1>14, RemoveDoes
<1>15. ASSUME NEW p \in Packages, CheckPackage(t, p) PROVE Persists(t)
  BY <1>15, CheckDoes
<1>16. CASE Fail(t)
  BY <1>16, FailDoes DEF Fail
<1> QED
  BY <1>1, <1>2, <1>3, <1>4, <1>5, <1>6, <1>7, <1>8, <1>9, <1>10, <1>11,
     <1>12, <1>13, <1>14, <1>15, <1>16 DEF Persist

\* So what was downloaded stays what HEAD had.
LEMMA DownloadingPersist ==
  ASSUME TypeInv, NEW t \in Tasks, Downloading(t), Persist(t) \/ Fail(t)
  PROVE  Downloading(t)'
BY PersistKeeps
   DEF Persists, World, Downloading, Served, Background, Writing, Window

(* Only a task in its window touches the disk, and only its own directory. *)
LEMMA StepWorld ==
  ASSUME TypeInv, NEW t \in Tasks, Handle(t) \/ Download(t) \/ Persist(t) \/ Fail(t)
  PROVE  /\ UNCHANGED <<head, commits>>
         /\ \A r \in Repos : r # RepoOf[t] => dir'[r] = dir[r]
         /\ pc[t] \notin Window => UNCHANGED dir
<1>1. CASE Handle(t) \/ Persist(t) \/ Fail(t)
  BY <1>1, HandleDoes, PersistKeeps DEF World, Persists
<1>2. CASE Download(t)
  BY <1>2, StartDoes, ListTreeDoes, OpenDoes, GoneDoes, WriteDoes, AnalyzeDoes,
     FetchDoes, SkipDoes DEF Download, World, Window
<1> QED
  BY <1>1, <1>2

\* No step of any task spoils the download of another.
LEMMA DownloadingNext ==
  ASSUME Quiet, TypeInv, LockInv, \A t \in Tasks : Downloading(t), [Next]_vars
  PROVE  \A t \in Tasks : Downloading(t)'
<1>1. ASSUME NEW t \in Tasks, Handle(t) \/ Download(t) \/ Persist(t) \/ Fail(t)
      PROVE  \A u \in Tasks : Downloading(u)'
  <2>1. Downloading(t)'
    BY <1>1, DownloadingHandle, DownloadingOwn, DownloadingPersist
  <2>2. ASSUME NEW u \in Tasks, u # t PROVE Downloading(u)'
    <3>1. pc'[u] = pc[u] /\ task'[u] = task[u] /\ UNCHANGED <<head, commits>>
      BY <1>1, <2>2, StepOthers, StepWorld DEF Others
    <3>2. pc[u] \in {"tree", "fetch", "open", "write"} => UNCHANGED dir[RepoOf[u]]
      <4>1. CASE RepoOf[u] = RepoOf[t]
        <5>1. pc[u] \notin Window \/ pc[t] \notin Window
          BY <2>2, <4>1 DEF LockInv, WindowExclusive, Sibling
        <5> QED
          BY <1>1, <5>1, StepWorld DEF Window
      <4>2. CASE RepoOf[u] # RepoOf[t]
        BY <1>1, <4>2, StepWorld, TaskFacts
      <4> QED
        BY <4>1, <4>2
    <3> QED
      BY <3>1, <3>2, DownloadingStays
  <2> QED
    BY <2>1, <2>2
<1>2. ASSUME NEW r \in Repos, Commit(r) PROVE \A u \in Tasks : Downloading(u)'
  <2>1. /\ UNCHANGED <<pc, task, dir>>
        /\ \A u \in Tasks : RepoOf[u] = r => ~Served(u)
        /\ \A q \in Repos : q # r => head'[q] = head[q] /\ commits'[q] = commits[q]
    BY <1>2 DEF Commit, Quiet, TypeInv, TypeOK
  <2> QED
    BY <2>1, DownloadingStays, TaskFacts
<1>3. ASSUME UNCHANGED <<pc, task, head, commits, dir>>
      PROVE  \A u \in Tasks : Downloading(u)'
  BY <1>3, DownloadingStays
<1> QED
  BY <1>1, <1>2, <1>3 DEF Next, Extract, environment, vars

\* Without a change of records, HEAD or history nothing is to be shown.
LEMMA RecordsKept ==
  ASSUME MomentsPast, CaughtUp, UNCHANGED <<repository, head, commits, latest>>
  PROVE  MomentsPast' /\ CaughtUp'
BY DEF MomentsPast, CaughtUp

(* One node changes while no other does.                                   *)
LEMMA RecordQuiet ==
  ASSUME TypeInv, MomentsPast, CaughtUp, NEW n \in Tasks, NEW m, NEW b,
         Becomes(n, m, b), UNCHANGED <<head, commits>>,
         m <= commits[repository[n].repo],
         \A x \in Tasks : x # n => latest'[x] = latest[x],
         b => latest'[n] = head[repository[n].repo]
  PROVE  MomentsPast' /\ CaughtUp'
BY DEF MomentsPast, CaughtUp, Becomes

\* A record becomes complete with the analysis of HEAD.
LEMMA PersistQuiet ==
  ASSUME TypeInv, LockInv, CatInv, QuietInv, NEW t \in Tasks, Persist(t)
  PROVE  MomentsPast' /\ CaughtUp'
<1> DEFINE n == task[t].node
           r == RepoOf[t]
<1>0. UNCHANGED <<head, commits>>
  BY PersistKeeps DEF Persists, World
<1>1. n # None => /\ n \in Tasks /\ NodeExists(n) /\ repository[n].repo = r
                  /\ repository[n] # None
  BY TaskNode DEF LockInv, NodesTrue, NodeExists
<1>2. CASE CreateRepository(t)
  <2>1. CASE UserOf[t] \notin KnownUsers
    BY <1>0, <1>2, <2>1, CreateDoes, RecordsKept DEF QuietInv
  <2>2. CASE UserOf[t] \in KnownUsers
    <3>1. /\ \A x \in Tasks \ {t} : repository'[x] = repository[x]
          /\ repository'[t] = [repo |-> r, moment |-> task[t].commit,
                              complete |-> FALSE]
      BY <1>2, <2>2, NewNode
    <3>2. /\ repository'[t].repo = r /\ repository'[t].moment = task[t].commit
          /\ ~repository'[t].complete
      BY <3>1
    <3>3. task[t].commit <= commits[r]
      BY DEF CatInv, MomentsKnown
    <3>4. UNCHANGED latest
      BY <1>2, CreateDoes
    <3> QED
      BY <1>0, <3>1, <3>2, <3>3, <3>4 DEF QuietInv, MomentsPast, CaughtUp
  <2> QED
    BY <2>1, <2>2
<1>3. CASE MarkIncomplete(t)
  <2>1. n # None
    BY <1>3, MarkDoes DEF LockInv, RecordCurrent, Accepted, Window
  <2>2. Becomes(n, repository[n].moment, FALSE)
    BY <1>1, <1>3, <2>1, FlagBecomes DEF MarkIncomplete
  <2>3. UNCHANGED latest /\ repository[n].moment <= commits[repository[n].repo]
    BY <1>1, <1>3, <2>1, MarkDoes DEF QuietInv, MomentsPast
  <2> QED
    BY <1>0, <1>1, <2>1, <2>2, <2>3, RecordQuiet DEF QuietInv
<1>4. CASE UpdateMoment(t)
  <2>1. UNCHANGED latest /\ pc[t] \in Writing /\ SetMoment(n, commits[r])
    BY <1>4, MomentDoes DEF UpdateMoment, Writing
  <2>2. CASE n = None
    BY <1>0, <2>1, <2>2, RecordsKept DEF SetMoment, NodeExists, QuietInv
  <2>3. CASE n # None
    <3>1. Becomes(n, commits[r], repository[n].complete)
      BY <1>1, <2>1, <2>3, MomentBecomes, TaskFacts
    <3>2. ~repository[n].complete /\ commits[r] <= commits[repository[n].repo]
      BY <1>1, <2>1, <2>3, TaskFacts DEF LockInv, WritersLock
    <3> QED
      BY <1>0, <1>1, <2>1, <2>3, <3>1, <3>2, RecordQuiet DEF QuietInv
  <2> QED
    BY <2>2, <2>3
<1>5. CASE SetComplete(t)
  <2>1. /\ pc[t] \in Writing /\ SetFlag(n, TRUE)
        /\ \A x \in Tasks : latest'[x] = IF x = n THEN task[t].raw ELSE latest[x]
    BY <1>5, CompleteDoes DEF SetComplete, Writing
  <2>2. CASE n = None
    <3>1. UNCHANGED repository /\ \A x \in Tasks : latest'[x] = latest[x]
      BY <2>1, <2>2, NoneAssumption DEF SetFlag, NodeExists
    <3> QED
      BY <1>0, <3>1 DEF QuietInv, MomentsPast, CaughtUp
  <2>3. CASE n # None
    <3>1. Becomes(n, repository[n].moment, TRUE)
      BY <1>1, <2>1, <2>3, FlagBecomes
    <3>2. task[t].raw = head[r]
      BY <2>1 DEF QuietInv, Downloading
    <3>3. repository[n].moment <= commits[repository[n].repo]
      BY <1>1, <2>3 DEF QuietInv, MomentsPast
    <3> QED
      BY <1>0, <1>1, <2>1, <2>3, <3>1, <3>2, <3>3, RecordQuiet DEF QuietInv
  <2> QED
    BY <2>2, <2>3
<1>6. CASE UNCHANGED <<repository, latest>>
  BY <1>0, <1>6, RecordsKept DEF QuietInv
<1>7. \/ CreateRepository(t) \/ MarkIncomplete(t) \/ UpdateMoment(t)
      \/ SetComplete(t) \/ UNCHANGED <<repository, latest>>
  BY ListDoes, AddMessageDoes, RelateDoes, StampDoes, OwnDoes, DropDoes,
     UpdateDoes,
     NewFileDoes, ChangeDoes, RemoveDoes, CheckDoes DEF Persist
<1> QED
  BY <1>2, <1>3, <1>4, <1>5, <1>6, <1>7

\* Each step preserves the invariant of the quiet environment.
LEMMA QuietNext ==
  Quiet /\ TypeInv /\ LockInv /\ CatInv /\ QuietInv /\ [Next]_vars => QuietInv'
<1> SUFFICES ASSUME Quiet, TypeInv, LockInv, CatInv, QuietInv, [Next]_vars
             PROVE  QuietInv'
  OBVIOUS
<1>1. \A t \in Tasks : Downloading(t)'
  BY DownloadingNext DEF QuietInv
<1>2. ASSUME NEW t \in Tasks, Handle(t) \/ Download(t) \/ Fail(t)
      PROVE  MomentsPast' /\ CaughtUp'
  <2>1. UNCHANGED <<repository, head, commits, latest>>
    BY <1>2, HandleDoes, FailDoes, StartDoes, ListTreeDoes, OpenDoes, GoneDoes,
       WriteDoes, AnalyzeDoes, FetchDoes, SkipDoes DEF Download, World
  <2> QED
    BY <2>1, RecordsKept DEF QuietInv
<1>3. ASSUME NEW t \in Tasks, Persist(t) PROVE MomentsPast' /\ CaughtUp'
  BY <1>3, PersistQuiet
<1>4. ASSUME NEW r \in Repos, Commit(r) PROVE MomentsPast' /\ CaughtUp'
  <2>1. /\ UNCHANGED <<repository, latest>> /\ commits'[r] = commits[r] + 1
        /\ \A q \in Repos : /\ q # r => head'[q] = head[q] /\ commits'[q] = commits[q]
                           /\ commits[q] \in Nat
    BY <1>4 DEF Commit, graphVars, TypeInv, TypeOK
  <2>2. \A n \in Tasks : repository[n] # None =>
          repository[n].moment \in Nat /\ repository[n].repo \in Repos
    BY DEF TypeInv, TypeOK, GraphTypeOK
  <2> QED
    BY <2>1, <2>2 DEF QuietInv, MomentsPast, CaughtUp
<1>5. ASSUME UNCHANGED <<repository, head, commits, latest>>
      PROVE  MomentsPast' /\ CaughtUp'
  BY <1>5, RecordsKept DEF QuietInv
<1>6. MomentsPast' /\ CaughtUp'
  BY <1>2, <1>3, <1>4, <1>5
     DEF Next, Extract, ExtractInto, environment, vars, graphVars
<1> QED
  BY <1>1, <1>6 DEF QuietInv

(* The repository proofs of the other modules, put together.               *)
LEMMA SerialInv == ~Racing => (Spec => [](TypeInv /\ LockInv /\ CatInv /\ Jobs))
<1> SUFFICES ASSUME ~Racing PROVE Spec => [](TypeInv /\ LockInv /\ CatInv /\ Jobs)
  OBVIOUS
<1>1. TypeInv /\ LockInv /\ [Next]_vars => LockInv'
  BY LockNext
<1> QED
  BY <1>1, InitType, NextType, InitLock, InitCat, CatNext, InitJobs, JobsNext,
     PTL
     DEF Spec

\* The invariant holds in every reachable state.
LEMMA QuietAlways == Quiet => (Spec => []QuietInv)
<1> SUFFICES ASSUME Quiet PROVE Spec => []QuietInv
  OBVIOUS
<1>1. TypeInv /\ LockInv /\ CatInv /\ Jobs /\ QuietInv /\ [Next]_vars => QuietInv'
  BY QuietNext
<1>2. Spec => [](TypeInv /\ LockInv /\ CatInv /\ Jobs)
  BY SerialInv DEF Quiet
<1> QED
  BY <1>1, <1>2, InitQuiet, PTL DEF Spec

(* Requests one at a time, downloads that succeed and no push while one is  *)
(* served: a complete repository that the next request would leave alone   *)
(* was analysed at the commit HEAD is at, whatever failed in between.       *)
THEOREM QuietCaughtUp == Quiet => (Spec => []CaughtUp)
<1>1. QuietInv => CaughtUp
  BY DEF QuietInv
<1> QED
  BY <1>1, QuietAlways, PTL

(* Under the same assumptions the only step that removes a file node, the   *)
(* first loop of replace_repository, removes one that HEAD does not have.   *)
THEOREM QuietDeletions == Quiet => (Spec => OnlyAbsentFilesDeleted)
<1> SUFFICES ASSUME Quiet PROVE Spec => OnlyAbsentFilesDeleted
  OBVIOUS
<1>1. ASSUME TypeInv, LockInv, CatInv, Jobs, QuietInv, [Next]_vars,
             NEW id \in FileIds, uses[id] # None, uses'[id] = None
      PROVE  head[repository[uses[id]].repo][id[2]] = None
  <2>1. PICK t \in Tasks, f \in Files : DropFile(t, f)
    <3>1. ASSUME NEW t \in Tasks, Handle(t) \/ Download(t) \/ Fail(t)
          PROVE  UNCHANGED uses
      BY <1>1, <3>1, HandleDoes, FailDoes, StartDoes, ListTreeDoes, OpenDoes,
         GoneDoes,
         WriteDoes, AnalyzeDoes, FetchDoes, SkipDoes DEF Download, SameBelowAll
    <3>2. ASSUME NEW t \in Tasks, Persist(t)
          PROVE  \/ UNCHANGED uses
                 \/ \E f \in Files : DropFile(t, f) \/ CreateRequirementFile(t, f)
      BY <1>1, <3>2, CreateDoes, MarkDoes, ListDoes, AddMessageDoes, RelateDoes,
         StampDoes, MomentDoes, CompleteDoes, OwnDoes, UpdateDoes, ChangeDoes,
         RemoveDoes, CheckDoes DEF Persist, SameBelowAll
    <3>3. ASSUME NEW t \in Tasks, NEW f \in Files, CreateRequirementFile(t, f)
          PROVE  FALSE
      <4>1. CASE NodeExists(task[t].node)
        <5>1. uses' = [uses EXCEPT ![<<t, f>>] = task[t].node]
          BY <3>3, <4>1 DEF CreateRequirementFile, CreateFile
        <5> QED
          BY <1>1, <4>1, <5>1 DEF NodeExists, TypeInv, TypeOK, GraphTypeOK
      <4>2. CASE ~NodeExists(task[t].node)
        BY <1>1, <3>3, <4>2 DEF CreateRequirementFile, CreateFile
      <4> QED
        BY <4>1, <4>2
    <3> QED
      BY <1>1, <3>1, <3>2, <3>3
         DEF Next, Commit, Extract, ExtractInto, graphVars, vars
  <2>2. /\ pc[t] = "files" /\ task[t].existing[f] # None /\ f \notin task[t].todo
        /\ DeleteFile(task[t].node, f)
    BY <1>1, <2>1, DropDoes
  <2>3. uses[id] = task[t].node /\ id[2] = f
    BY <1>1, <2>2 DEF DeleteFile, Doomed, FilesNamed
  <2>4. repository[uses[id]].repo = RepoOf[t]
    BY <1>1, <2>3 DEF LockInv, NodesTrue
  <2>5. task[t].raw[f] = None
    BY <1>1, <2>2 DEF Jobs, LocalJob, Begun
  <2>6. task[t].raw = head[RepoOf[t]]
    BY <1>1, <2>2 DEF QuietInv, Downloading, Writing
  <2> QED
    BY <2>3, <2>4, <2>5, <2>6
<1>2. TypeInv /\ LockInv /\ CatInv /\ Jobs /\ QuietInv /\ [Next]_vars =>
        \A id \in FileIds : uses[id] # None /\ uses'[id] = None =>
          head[repository[uses[id]].repo][id[2]] = None
  BY <1>1
<1>3. Spec => [](TypeInv /\ LockInv /\ CatInv /\ Jobs)
  BY SerialInv DEF Quiet
<1>4. Spec => []QuietInv
  BY QuietAlways
<1> QED
  BY <1>2, <1>3, <1>4, PTL DEF Spec, OnlyAbsentFilesDeleted

-----------------------------------------------------------------------------
(* No dependency is lost.  While a task works through a file, each package  *)
(* that the analysis found is in the graph, in a message, or still in one  *)
(* of the task's locals; when it has dealt with a file, all are in the     *)
(* graph or in messages.                                                   *)

Has(id, p) == \E q \in requires : q.file = id /\ q.pkg = p
Relates(id, p, c) == \E q \in requires : q.file = id /\ q.pkg = p /\ q.con = c
Queued(id, p, c) == \E m \in stream : m.parent = id /\ m.pkg = p /\ m.con = c
Covered(id, p, c) == Relates(id, p, c) \/ Queued(id, p, c)
Holds(id, content) ==
  \A p \in Packages : content[p] # None => Covered(id, p, content[p])

\* The file that a task has in hand.
HandFile(t) ==
  LET l == task[t] IN
  pc[t] \in InHand /\ l.node # None =>
    /\ l.file \in FileIds /\ uses[l.file] = l.node
    /\ l.file[2] \notin l.todo /\ l.existing[l.file[2]] = None
    /\ l.raw[l.file[2]] # None

HandPackage(t, p) ==
  LET l == task[t]
      c == l.raw[l.file[2]][p]
  IN /\ l.have[p] # None => Has(l.file, p) /\ l.want[p] = c
     /\ l.want[p] # None => l.want[p] = c
     /\ l.batch[p] # None => p \in packages /\ l.batch[p] = c
     /\ c # None => l.want[p] = c \/ l.batch[p] = c \/ Covered(l.file, p, c)

Hand(t) ==
  /\ HandFile(t)
  /\ pc[t] \in InHand /\ task[t].node # None =>
       \A p \in Packages : HandPackage(t, p)

\* The files it has still to look at, and those it has dealt with.
Holding(t, f) == task[t].file # None /\ task[t].file[2] = f

ShelfFile(t, f) ==
  LET l == task[t] IN
  /\ l.existing[f] # None => l.existing[f] \in FilesNamed(l.node, f)
  /\ l.existing[f] = None /\ f \in l.todo => FilesNamed(l.node, f) = {}
  /\ l.existing[f] = None /\ f \notin l.todo /\ l.raw[f] # None =>
       Holding(t, f) \/ \E id \in FilesNamed(l.node, f) : Holds(id, l.raw[f])

Shelf(t) ==
  pc[t] \in Begun /\ task[t].node # None => \A f \in Files : ShelfFile(t, f)

FinishedAt(n) ==
  repository[n] # None /\ repository[n].complete =>
    \A f \in Files : latest[n][f] # None =>
      \E id \in FilesNamed(n, f) : Holds(id, latest[n][f])

MergeInv ==
  /\ \A n \in Tasks : FinishedAt(n)
  /\ \A t \in Tasks : Hand(t) /\ Shelf(t)

\* No repository is complete and no task has a file.
LEMMA InitMerge == Init => MergeInv
BY DEF Init, GraphInit, MergeInv, FinishedAt, Hand, HandFile, Shelf, InHand,
   Begun

(* What the queries on one file do to its relationships.                   *)
LEMMA SetConstraintDoes ==
  ASSUME TypeInv, NEW id \in FileIds, NEW p \in Packages, NEW c \in Constraints,
         SetConstraint(id, p, c)
  PROVE  /\ \A x \in Packages : Has(id, x) => Has(id, x)'
         /\ Has(id, p) => Relates(id, p, c)'
         /\ \A x \in Packages : \A d :
               x # p /\ Relates(id, x, d) => Relates(id, x, d)'
<1> DEFINE change(q) == IF q.file = id /\ q.pkg = p
                        THEN [q EXCEPT !.con = c] ELSE q
<1>1. requires' = {change(q) : q \in requires}
  BY DEF SetConstraint, ChangeRelations
<1>2. ASSUME NEW q \in requires
      PROVE  /\ change(q) \in requires'
             /\ change(q).file = q.file /\ change(q).pkg = q.pkg
             /\ change(q).con = IF q.file = id /\ q.pkg = p THEN c ELSE q.con
  BY <1>1 DEF TypeInv, TypeOK, GraphTypeOK, Relation
<1> HIDE DEF change
<1> QED
  BY <1>2 DEF Has, Relates

\* Deleting one package's relationship leaves the others.
LEMMA DeleteRelationDoes ==
  ASSUME NEW id \in FileIds, NEW p \in Packages, DeleteRelation(id, p)
  PROVE  \A x \in Packages : x # p =>
           /\ Has(id, x) => Has(id, x)'
           /\ \A d : Relates(id, x, d) => Relates(id, x, d)'
BY DEF DeleteRelation, ChangeRelations, Has, Relates

\* Relating a batch adds its packages and removes nothing.
LEMMA RelateAllDoes ==
  ASSUME NEW t \in Tasks, NEW id \in FileIds, NEW batch, RelateAll(t, id, batch),
         FileExists(id)
  PROVE  /\ \A x \in Packages : Has(id, x) => Has(id, x)'
         /\ \A x \in Packages : \A d : Relates(id, x, d) => Relates(id, x, d)'
         /\ \A x \in packages : batch[x] # None => Relates(id, x, batch[x])'
<1> DEFINE new(p) == [file |-> id, pkg |-> p, con |-> batch[p], by |-> t]
<1>1. requires' = requires \cup {new(p) : p \in {x \in packages : batch[x] # None}}
  BY DEF RelateAll, ChangeRelations
<1>2. \A p : new(p).file = id /\ new(p).pkg = p /\ new(p).con = batch[p]
  OBVIOUS
<1> HIDE DEF new
<1> QED
  BY <1>1, <1>2 DEF Has, Relates

(* What lies below node n stays as it is, but for messages that join.      *)
Alone(n) ==
  /\ \A id \in FileIds : uses'[id] = n <=> uses[id] = n
  /\ \A id \in FileIds : uses[id] = n =>
       RelationsOf(id)' = RelationsOf(id) /\ (id \in dirty' <=> id \in dirty)
  /\ stream \subseteq stream' /\ packages' = packages

\* A step that changes no files or relationships leaves all nodes alone.
LEMMA SameAlone ==
  ASSUME SameBelowAll, NEW n
  PROVE  Alone(n)
BY DEF SameBelowAll, Alone, RelationsOf

\* A query on the file in hand leaves the other repositories alone.
LEMMA FileAlone ==
  ASSUME TypeInv, CatInv, NEW t \in Tasks, Hand(t), pc[t] \in InHand,
         \/ \E p \in Packages : \E c : SetConstraint(task[t].file, p, c)
         \/ \E p \in Packages : DeleteRelation(task[t].file, p)
         \/ \E batch : RelateAll(t, task[t].file, batch)
         \/ StampMoment(task[t].file),
         UNCHANGED <<uses, packages, stream>>,
         NEW n \in Tasks, n # task[t].node
  PROVE  Alone(n)
<1> DEFINE file == task[t].file
<1>1. CASE file = None
  <2>1. \A q \in requires : q.file # None
    BY NoneAssumption DEF TypeInv, TypeOK, GraphTypeOK, Relation
  <2>2. requires' = requires
    BY <1>1, <2>1 DEF RelateAll, FileExists, SetConstraint, DeleteRelation,
                    ChangeRelations, StampMoment
  <2>3. \A id \in FileIds : id \in dirty' <=> id \in dirty
    BY <1>1, <2>2, NoneAssumption
       DEF RelateAll, FileExists, SetConstraint, DeleteRelation,
          ChangeRelations,
           StampMoment
  <2> QED
    BY <2>2, <2>3 DEF Alone, RelationsOf
<1>2. CASE file # None
  <2>1. file \in FileIds /\ uses[file] = task[t].node
    BY <1>2, TaskFacts DEF CatInv, TasksBelong, Mine, Hand, HandFile
  <2> HIDE DEF file
  <2>2. \A x \in FileIds : x # file => RelationsOf(x)' = RelationsOf(x)
    BY <2>1, RelationsTouched DEF StampMoment, RelationsOf, file
  <2>3. \A x \in FileIds : x # file => (x \in dirty' <=> x \in dirty)
    BY <2>1 DEF RelateAll, SetConstraint, DeleteRelation, ChangeRelations,
                StampMoment, file
  <2> QED
    BY <2>1, <2>2, <2>3 DEF Alone
<1> QED
  BY <1>1, <1>2

\* A step changes files and relationships only below its own node.
LEMMA StepAlone ==
  ASSUME TypeInv, LockInv, CatInv, NEW t \in Tasks, Hand(t),
         Handle(t) \/ Download(t) \/ Persist(t) \/ Fail(t),
         NEW n \in Tasks, pc[t] \in Writing => task[t].node # n
  PROVE  Alone(n)
<1>1. CASE Handle(t) \/ Download(t) \/ Fail(t)
  BY <1>1, SameAlone, HandleDoes, FailDoes, StartDoes, ListTreeDoes, OpenDoes,
     GoneDoes, WriteDoes, AnalyzeDoes, FetchDoes, SkipDoes DEF Download
<1>2. CASE \/ CreateRepository(t) \/ MarkIncomplete(t) \/ ListFiles(t)
           \/ UpdateMoment(t) \/ SetComplete(t) \/ OwnRepository(t)
           \/ \E f \in Files : UpdateFile(t, f)
           \/ \E p \in Packages : CheckPackage(t, p)
  BY <1>2, SameAlone, CreateDoes, MarkDoes, ListDoes, MomentDoes, CompleteDoes,
     OwnDoes, UpdateDoes, CheckDoes
<1>3. CASE AddMessage(t)
  <2>1. UNCHANGED <<uses, requires, dirty, packages>> /\ stream \subseteq stream'
    BY <1>3, AddMessageDoes
  <2> QED
    BY <2>1 DEF Alone, RelationsOf
<1>4. CASE \/ RelatePackages(t) \/ StampFile(t)
           \/ \E p \in Packages : ChangeConstraint(t, p) \/ RemovePackage(t, p)
  <2>1. pc[t] \in InHand /\ UNCHANGED <<uses, packages, stream>>
    BY <1>4, RelateDoes, StampDoes, ChangeDoes, RemoveDoes DEF InHand
  <2>2. \/ \E p \in Packages : \E c : SetConstraint(task[t].file, p, c)
        \/ \E p \in Packages : DeleteRelation(task[t].file, p)
        \/ \E batch : RelateAll(t, task[t].file, batch)
        \/ StampMoment(task[t].file)
    BY <1>4 DEF RelatePackages, StampFile, ChangeConstraint, RemovePackage
  <2>3. n # task[t].node
    BY <2>1 DEF InHand, Writing
  <2> QED
    BY <2>1, <2>2, <2>3, FileAlone
<1>5. ASSUME NEW f \in Files, DropFile(t, f) PROVE Alone(n)
  <2>1. /\ pc[t] = "files" /\ task[t].existing[f] # None
        /\ DeleteFile(task[t].node, f) /\ UNCHANGED <<stream, packages>>
    BY <1>5, DropDoes
  <2>2. task[t].node # n /\ n # None
    BY <2>1, NoneAssumption DEF Writing
  <2>3. \A id \in FileIds : uses[id] = n => id \notin Doomed(task[t].node, f)
    BY <2>2 DEF Doomed, FilesNamed
  <2>4. \A id \in FileIds : uses'[id] = n <=> uses[id] = n
    BY <2>1, <2>2, <2>3 DEF DeleteFile
  <2>5. \A id \in FileIds : uses[id] = n =>
          RelationsOf(id)' = RelationsOf(id) /\ (id \in dirty' <=> id \in dirty)
    BY <2>1, <2>3 DEF DeleteFile, RelationsOf
  <2> QED
    BY <2>1, <2>4, <2>5 DEF Alone
<1>6. ASSUME NEW f \in Files, CreateRequirementFile(t, f) PROVE Alone(n)
  <2>1. /\ pc[t] = "files" /\ CreateFile(<<t, f>>, task[t].node)
        /\ UNCHANGED <<requires, dirty, packages, stream>>
    BY <1>6, NewFileDoes
  <2>2. \A id \in FileIds : uses'[id] = n <=> uses[id] = n
    <3>1. CASE NodeExists(task[t].node)
      <4>1. task[t].node # n /\ NodesOf(RepoOf[t]) = {task[t].node}
        BY <2>1, <3>1, TaskNode DEF Writing, NodeExists
      <4>2. uses[<<t, f>>] # n
        BY <4>1, NoneAssumption DEF CatInv, FilesBelong, FileIds
      <4>3. uses' = [uses EXCEPT ![<<t, f>>] = task[t].node]
        BY <2>1, <3>1 DEF CreateFile
      <4> QED
        BY <4>1, <4>2, <4>3 DEF TypeInv, TypeOK, GraphTypeOK
    <3>2. CASE ~NodeExists(task[t].node)
      BY <2>1, <3>2 DEF CreateFile
    <3> QED
      BY <3>1, <3>2
  <2> QED
    BY <2>1, <2>2 DEF Alone, RelationsOf
<1> QED
  BY <1>1, <1>2, <1>3, <1>4, <1>5, <1>6 DEF Persist

(* Below node n nothing that a dependency rests on goes away.              *)
Kept(n) ==
  /\ \A id \in FileIds : uses'[id] = n <=> uses[id] = n
  /\ \A id \in FileIds : uses[id] = n => \A p \in Packages :
       /\ Has(id, p) => Has(id, p)'
       /\ \A c : Covered(id, p, c) => Covered(id, p, c)'
  /\ packages \subseteq packages'

\* The same relationships cover the same packages.
LEMMA SameRelations ==
  ASSUME NEW id, RelationsOf(id)' = RelationsOf(id), stream \subseteq stream'
  PROVE  \A p \in Packages :
           /\ Has(id, p) => Has(id, p)'
           /\ \A c : Covered(id, p, c) => Covered(id, p, c)'
<1>1. ASSUME NEW q \in requires, q.file = id PROVE q \in requires'
  BY <1>1 DEF RelationsOf
<1>2. \A p : Has(id, p) => Has(id, p)'
  BY <1>1 DEF Has
<1>3. \A p, c : Covered(id, p, c) => Covered(id, p, c)'
  BY <1>1 DEF Covered, Relates, Queued
<1> QED
  BY <1>2, <1>3

\* What is left alone keeps its packages.
LEMMA AloneKept ==
  ASSUME NEW n, Alone(n)
  PROVE  Kept(n)
BY SameRelations DEF Alone, Kept

\* The extractor turns a message into the relationship it stands for.
LEMMA ExtractKept ==
  ASSUME TypeInv, NEW m \in stream, Extract(m), NEW n \in Tasks
  PROVE  Kept(n)
<1>1. UNCHANGED uses /\ packages \subseteq packages' /\ requires \subseteq requires'
  BY DEF Extract, ExtractInto, ChangeRelations
<1>2. \A id, p : Has(id, p) => Has(id, p)'
  BY <1>1 DEF Has
<1>3. ASSUME NEW id \in FileIds, uses[id] = n, NEW p, NEW c, Covered(id, p, c)
      PROVE  Covered(id, p, c)'
  <2>1. CASE Relates(id, p, c)
    BY <1>1, <2>1 DEF Covered, Relates
  <2>2. CASE Queued(id, p, c)
    <3>1. PICK x \in stream : x.parent = id /\ x.pkg = p /\ x.con = c
      BY <2>2 DEF Queued
    <3>2. CASE x # m
      BY <3>1, <3>2 DEF Extract, Covered, Queued
    <3>3. CASE x = m
      <4> DEFINE new == [file |-> m.parent, pkg |-> m.pkg, con |-> m.con, by |-> m.by]
      <4>1. FileExists(m.parent)
        BY <1>3, <3>1, <3>3, NoneAssumption DEF FileExists
      <4>2. new \in requires'
        BY <4>1 DEF Extract, ExtractInto, ChangeRelations
      <4>3. new.file = id /\ new.pkg = p /\ new.con = c
        BY <3>1, <3>3
      <4> HIDE DEF new
      <4> QED
        BY <4>2, <4>3 DEF Covered, Relates
    <3> QED
      BY <3>2, <3>3
  <2> QED
    BY <1>3, <2>1, <2>2 DEF Covered
<1> QED
  BY <1>1, <1>2, <1>3 DEF Kept

\* A node that is kept has the same files.
LEMMA KeptFiles ==
  ASSUME NEW n, Kept(n), NEW f
  PROVE  FilesNamed(n, f)' = FilesNamed(n, f)
BY DEF Kept, FilesNamed

\* And they hold what they held.
LEMMA KeptHolds ==
  ASSUME NEW n, Kept(n), NEW id \in FileIds, uses[id] = n, NEW content, Holds(id, content)
  PROVE  \A p \in Packages : content[p] # None => Covered(id, p, content[p])'
BY DEF Kept, Holds

(* A task that does not move keeps what it has.                            *)
LEMMA KeptHand ==
  ASSUME NEW u \in Tasks, pc'[u] = pc[u], task'[u] = task[u], Hand(u),
         task[u].node # None => Kept(task[u].node)
  PROVE  Hand(u)'
<1> SUFFICES ASSUME pc[u] \in InHand, task[u].node # None
             PROVE  HandFile(u)' /\ \A p \in Packages : HandPackage(u, p)'
  BY DEF Hand, HandFile
<1>1. HandFile(u) /\ \A p \in Packages : HandPackage(u, p)
  BY DEF Hand
<1>2. task[u].file \in FileIds /\ uses[task[u].file] = task[u].node
  BY <1>1 DEF HandFile
<1>3. HandFile(u)'
  BY <1>1, <1>2 DEF HandFile, Kept
<1>4. ASSUME NEW p \in Packages PROVE HandPackage(u, p)'
  <2>1. HandPackage(u, p)
    BY <1>1
  <2>2. PICK id \in FileIds : id = task[u].file
    BY <1>2
  <2>3. /\ Has(id, p) => Has(id, p)'
        /\ \A c : Covered(id, p, c) => Covered(id, p, c)'
        /\ packages \subseteq packages'
    BY <1>2, <2>2 DEF Kept
  <2> QED
    BY <2>1, <2>2, <2>3 DEF HandPackage, Has, Covered, Relates, Queued
<1> QED
  BY <1>3, <1>4

\* The same for the files it has not in hand.
LEMMA KeptShelf ==
  ASSUME NEW u \in Tasks, pc'[u] = pc[u], task'[u] = task[u], Shelf(u),
         task[u].node # None => Kept(task[u].node)
  PROVE  Shelf(u)'
<1> SUFFICES ASSUME pc[u] \in Begun, task[u].node # None, NEW f \in Files
             PROVE  ShelfFile(u, f)'
  BY DEF Shelf
<1>1. ShelfFile(u, f)
  BY DEF Shelf
<1>2. FilesNamed(task[u].node, f)' = FilesNamed(task[u].node, f)
  BY KeptFiles
<1> QED
  BY <1>1, <1>2, KeptHolds DEF ShelfFile, Holding, FilesNamed, Holds

\* The same for a repository that stays complete.
LEMMA KeptFinished ==
  ASSUME NEW n \in Tasks, Kept(n), FinishedAt(n),
         repository'[n] # None /\ repository'[n].complete =>
           /\ repository[n] # None /\ repository[n].complete
           /\ latest'[n] = latest[n]
  PROVE  FinishedAt(n)'
<1>1. \A f : FilesNamed(n, f)' = FilesNamed(n, f)
  BY KeptFiles
<1> QED
  BY <1>1, KeptHolds DEF FinishedAt, FilesNamed, Holds

-----------------------------------------------------------------------------
(* What a task has in hand and on the shelf after its own steps.           *)

\* Files other than the one in hand are as they were.
LEMMA ShelfAround ==
  ASSUME NEW t \in Tasks, NEW f \in Files, ShelfFile(t, f),
         Carries(t), UNCHANGED uses, stream \subseteq stream',
         \/ Holding(t, f)'
         \/ \A id \in FilesNamed(task[t].node, f) : RelationsOf(id)' = RelationsOf(id),
         task'[t].existing[f] = task[t].existing[f],
         f \in task'[t].todo <=> f \in task[t].todo,
         Holding(t, f) => Holding(t, f)'
  PROVE  ShelfFile(t, f)'
<1>1. FilesNamed(task[t].node, f)' = FilesNamed(task[t].node, f)
  BY DEF Carries, FilesNamed
<1>2. ASSUME ~Holding(t, f)', NEW id \in FilesNamed(task[t].node, f),
             Holds(id, task[t].raw[f])
      PROVE  Holds(id, task[t].raw[f])'
  BY <1>2, SameRelations DEF Carries, Holds
<1> QED
  BY <1>1, <1>2 DEF Carries, ShelfFile

\* A new repository has no files, so all are still to be created.
LEMMA CreateMerge ==
  ASSUME TypeInv, LockInv, CatInv, NEW t \in Tasks, LocalJob(t), CreateRepository(t)
  PROVE  Hand(t)' /\ Shelf(t)'
<1>1. /\ pc[t] = "create" /\ pc'[t] = "files" /\ UNCHANGED uses
      /\ task'[t].raw = task[t].raw /\ SameWork(t)
      /\ UserOf[t] \notin KnownUsers => UNCHANGED task
  BY CreateDoes DEF SameBelowAll
<1>2. task[t].node = None
  BY <1>1 DEF LockInv, RecordCurrent, Accepted, Window
<1>3. task[t].existing = NoFiles /\ task[t].todo = Found(task[t].raw)
  BY <1>1 DEF LocalJob, Early, Accepted, Window
<1>4. CASE UserOf[t] \notin KnownUsers
  BY <1>1, <1>2, <1>4 DEF Hand, HandFile, Shelf
<1>5. CASE UserOf[t] \in KnownUsers
  <2>1. task'[t].node = t /\ repository[t] = None
    BY <1>5, NewNode, LocalsType DEF Locals
  <2>2. \A f : FilesNamed(t, f) = {}
    BY <2>1, NoneAssumption DEF CatInv, FilesBelong, FilesNamed, NodesOf
  <2>3. \A f : FilesNamed(t, f)' = {}
    BY <1>1, <2>2 DEF FilesNamed
  <2>4. \A f \in Files : ShelfFile(t, f)'
    BY <1>1, <1>3, <2>1, <2>3, EmptyPackages DEF ShelfFile, SameWork, Found
  <2> QED
    BY <1>1, <2>4 DEF Hand, HandFile, Shelf, InHand
<1> QED
  BY <1>4, <1>5

\* What the graph has is to be looked at, the rest to be created.
LEMMA ListMerge ==
  ASSUME TypeInv, NEW t \in Tasks, LocalJob(t), ListFiles(t)
  PROVE  Hand(t)' /\ Shelf(t)'
<1>1. /\ pc[t] = "list" /\ pc'[t] = "files" /\ Carries(t) /\ UNCHANGED uses
      /\ task'[t].existing \in FilesRead(task[t].node) /\ task'[t].todo = task[t].todo
  BY ListDoes DEF SameBelowAll
<1>2. task[t].todo = Found(task[t].raw)
  BY <1>1 DEF LocalJob
<1>3. \A f \in Files :
        /\ task'[t].existing[f] = None => FilesNamed(task[t].node, f) = {}
        /\ task'[t].existing[f] # None =>
             task'[t].existing[f] \in FilesNamed(task[t].node, f)
  BY <1>1, NoneAssumption DEF FilesRead, FilesNamed
<1>4. \A f \in Files : FilesNamed(task[t].node, f)' = FilesNamed(task[t].node, f)
  BY <1>1 DEF FilesNamed, Carries
<1>5. \A f \in Files : ShelfFile(t, f)'
  BY <1>1, <1>2, <1>3, <1>4 DEF ShelfFile, Carries, Found
<1> QED
  BY <1>1, <1>5 DEF Hand, HandFile, Shelf, InHand

\* A deleted file is one the analysis did not find.
LEMMA DropMerge ==
  ASSUME TypeInv, NEW t \in Tasks, LocalJob(t), Shelf(t),
         NEW f \in Files, DropFile(t, f)
  PROVE  Hand(t)' /\ Shelf(t)'
<1>1. /\ pc[t] = "files" /\ pc'[t] = "files" /\ Carries(t)
      /\ task[t].existing[f] # None /\ f \notin task[t].todo
      /\ task'[t].existing = [task[t].existing EXCEPT ![f] = None]
      /\ task'[t].file = task[t].file /\ task'[t].todo = task[t].todo
      /\ DeleteFile(task[t].node, f) /\ UNCHANGED stream
  BY DropDoes
<1>2. \A g \in Files : task'[t].existing[g] =
        IF g = f THEN None ELSE task[t].existing[g]
  BY <1>1, TaskFacts
<1>3. \A id \in FileIds : id[2] # f =>
        uses'[id] = uses[id] /\ RelationsOf(id)' = RelationsOf(id)
  BY <1>1 DEF DeleteFile, Doomed, FilesNamed, RelationsOf
<1>4. task[t].raw[f] = None
  BY <1>1 DEF LocalJob, Begun
<1>5. ASSUME task[t].node # None, NEW g \in Files PROVE ShelfFile(t, g)'
  <2>1. ShelfFile(t, g)
    BY <1>1, <1>5 DEF Shelf, Begun
  <2>2. CASE g = f
    BY <1>1, <1>2, <1>4, <2>2 DEF ShelfFile, Carries
  <2>3. CASE g # f
    <3>1. FilesNamed(task[t].node, g)' = FilesNamed(task[t].node, g)
      BY <1>1, <1>3, <2>3 DEF Carries, FilesNamed
    <3>2. ASSUME NEW id \in FilesNamed(task[t].node, g), Holds(id, task[t].raw[g])
          PROVE  Holds(id, task[t].raw[g])'
      <4>1. RelationsOf(id)' = RelationsOf(id)
        BY <1>3, <2>3 DEF FilesNamed
      <4> QED
        BY <1>1, <3>2, <4>1, SameRelations DEF Carries, Holds
    <3> QED
      BY <1>1, <1>2, <2>1, <2>3, <3>1, <3>2 DEF Carries, ShelfFile, Holding
  <2> QED
    BY <2>2, <2>3
<1> QED
  BY <1>1, <1>5 DEF Hand, HandFile, Shelf, InHand, Carries

\* While a file is in hand only its own relationships change.
LEMMA ShelfInHand ==
  ASSUME NEW t \in Tasks, Shelf(t), pc[t] \in InHand, Carries(t), SameWork(t),
         UNCHANGED uses, stream \subseteq stream', task[t].file # None,
         \A id \in FileIds : id # task[t].file => RelationsOf(id)' = RelationsOf(id)
  PROVE  Shelf(t)'
<1> SUFFICES ASSUME task[t].node # None, NEW f \in Files
             PROVE  ShelfFile(t, f)'
  BY DEF Shelf, Carries
<1>1. ShelfFile(t, f)
  BY DEF Shelf, Begun, InHand
<1>2. \/ Holding(t, f)'
      \/ \A id \in FilesNamed(task[t].node, f) : RelationsOf(id)' = RelationsOf(id)
  BY DEF Holding, SameWork, FilesNamed
<1>3. Holding(t, f) => Holding(t, f)'
  BY DEF Holding, SameWork
<1> QED
  BY <1>1, <1>2, <1>3, ShelfAround DEF SameWork

\* The file in hand is the same one.
LEMMA HandFileStays ==
  ASSUME NEW t \in Tasks, Hand(t), pc[t] \in InHand, Carries(t), SameWork(t),
         UNCHANGED uses
  PROVE  HandFile(t)'
BY DEF Hand, HandFile, Carries, SameWork

\* Packages on which the two agree are in the graph already.
LEMMA UpdateMerge ==
  ASSUME TypeInv, NEW t \in Tasks, LocalJob(t), Shelf(t),
         NEW f \in Files, UpdateFile(t, f)
  PROVE  Hand(t)' /\ Shelf(t)'
<1> DEFINE l == task[t]
           W == l.raw[f]
           id == l.existing[f]
<1>1. /\ pc[t] = "files" /\ pc'[t] = "packages" /\ Carries(t)
      /\ id # None /\ f \in l.todo /\ task'[t].file = id
      /\ task'[t].existing = [l.existing EXCEPT ![f] = None]
      /\ task'[t].todo = l.todo \ {f} /\ task'[t].batch = l.batch
      /\ UNCHANGED <<uses, requires, stream, packages>>
  BY UpdateDoes DEF SameBelowAll
<1>2. \A g \in Files : task'[t].existing[g] = IF g = f THEN None ELSE l.existing[g]
  BY <1>1, TaskFacts
<1>3. l.batch = Nothing /\ l.file = None
  BY <1>1 DEF LocalJob
<1>4. PICK have \in PackagesRead(id) :
        /\ task'[t].have = Differ(have, f, have, W)
        /\ task'[t].want = Differ(W, f, have, W)
  BY UpdateDoes
<1>5. W # None
  BY <1>1 DEF TypeInv, LocalsCoherent
<1>6. ASSUME l.node # None PROVE Hand(t)' /\ Shelf(t)'
  <2>1. id \in FileIds /\ uses[id] = l.node /\ id[2] = f
    BY <1>1, <1>6 DEF Shelf, ShelfFile, FilesNamed, Begun
  <2>2. HandFile(t)'
    BY <1>1, <1>2, <1>5, <2>1 DEF HandFile, Carries
  <2>3. ASSUME NEW p \in Packages PROVE HandPackage(t, p)'
    <3> DEFINE same == Matches(f, p, have, W) /\ have[p] = W[p]
    <3>1. /\ task'[t].have[p] = IF same THEN None ELSE have[p]
          /\ task'[t].want[p] = IF same THEN None ELSE W[p]
      BY <1>4 DEF Differ
    <3>2. task'[t].batch[p] = None
      BY <1>1, <1>3, EmptyPackages
    <3>3. have[p] # None => Relates(id, p, have[p])
      BY DEF PackagesRead, RelationsOf, Relates
    <3>4. same => have[p] # None /\ have[p] = W[p]
      BY DEF Matches
    <3>5. task'[t].raw[task'[t].file[2]][p] = W[p] /\ task'[t].file = id
      BY <1>1, <2>1 DEF Carries
    <3> HIDE DEF same, W, id, l
    <3>6. have[p] # None => Has(id, p) /\ Covered(id, p, have[p])
      BY <3>3 DEF Relates, Has, Covered
    <3>7. /\ task'[t].have[p] # None => Has(id, p) /\ task'[t].want[p] = W[p]
          /\ task'[t].want[p] # None => task'[t].want[p] = W[p]
          /\ W[p] # None => task'[t].want[p] = W[p] \/ Covered(id, p, W[p])
      BY <3>1, <3>4, <3>6
    <3>8. /\ Has(id, p) => Has(task[t].file, p)'
          /\ Covered(id, p, W[p]) => Covered(task[t].file, p, task[t].raw[task[t].file[2]][p])'
      BY <1>1, <3>5 DEF Has, Covered, Relates, Queued
    <3> QED
      BY <3>2, <3>5, <3>7, <3>8 DEF HandPackage
  <2>4. ASSUME NEW g \in Files PROVE ShelfFile(t, g)'
    <3>1. ShelfFile(t, g)
      BY <1>1, <1>6 DEF Shelf, Begun
    <3>2. CASE g = f
      BY <1>1, <1>2, <2>1, <3>2 DEF ShelfFile, Holding
    <3>3. CASE g # f
      <4>1. ~Holding(t, g)
        BY <1>3 DEF Holding
      <4>2. \A x : RelationsOf(x)' = RelationsOf(x)
        BY <1>1 DEF RelationsOf
      <4>3. task'[t].existing[g] = l.existing[g] /\ (g \in task'[t].todo <=> g \in l.todo)
        BY <1>1, <1>2, <3>3
      <4> QED
        BY <1>1, <3>1, <4>1, <4>2, <4>3, ShelfAround
    <3> QED
      BY <3>2, <3>3
  <2> QED
    BY <1>1, <2>2, <2>3, <2>4 DEF Hand, Shelf
<1> QED
  BY <1>1, <1>6 DEF Hand, HandFile, Shelf, Carries

\* A created file has all its packages to be queued.
LEMMA NewFileMerge ==
  ASSUME TypeInv, LockInv, NEW t \in Tasks, LocalJob(t), Shelf(t),
         NEW f \in Files, CreateRequirementFile(t, f)
  PROVE  Hand(t)' /\ Shelf(t)'
<1> DEFINE l == task[t]
           W == l.raw[f]
           id == <<t, f>>
<1>1. /\ pc[t] = "files" /\ pc'[t] = "packages" /\ Carries(t)
      /\ l.existing = NoFiles /\ f \in l.todo
      /\ task'[t].existing = l.existing
      /\ task'[t].file = IF NodeExists(l.node) THEN id ELSE None
      /\ task'[t].todo = l.todo \ {f} /\ task'[t].want = W
      /\ task'[t].have = l.have /\ task'[t].batch = l.batch
      /\ CreateFile(id, l.node) /\ UNCHANGED <<requires, stream, packages>>
  BY NewFileDoes
<1>2. l.batch = Nothing /\ l.file = None /\ l.have = Nothing
  BY <1>1 DEF LocalJob
<1>3. W # None
  BY <1>1 DEF TypeInv, LocalsCoherent
<1>4. ASSUME l.node # None PROVE Hand(t)' /\ Shelf(t)'
  <2>1. NodeExists(l.node) /\ id \in FileIds /\ id[2] = f
    BY <1>4, TaskNode DEF FileIds
  <2>2. uses' = [uses EXCEPT ![id] = l.node]
    BY <1>1, <2>1 DEF CreateFile
  <2>3. uses'[id] = l.node /\ \A x \in FileIds : x # id => uses'[x] = uses[x]
    BY <2>1, <2>2 DEF TypeInv, TypeOK, GraphTypeOK
  <2>4. HandFile(t)'
    BY <1>1, <1>3, <2>1, <2>3, EmptyPackages DEF HandFile, Carries
  <2>5. ASSUME NEW p \in Packages PROVE HandPackage(t, p)'
    BY <1>1, <1>2, <2>1, EmptyPackages DEF HandPackage, Carries
  <2>6. ASSUME NEW g \in Files PROVE ShelfFile(t, g)'
    <3>1. ShelfFile(t, g)
      BY <1>1, <1>4 DEF Shelf, Begun
    <3>2. CASE g = f
      BY <1>1, <2>1, <3>2, EmptyPackages, NoneAssumption DEF ShelfFile, Holding
    <3>3. CASE g # f
      <4>1. FilesNamed(task[t].node, g)' = FilesNamed(task[t].node, g)
        BY <1>1, <2>1, <2>3, <3>3 DEF Carries, FilesNamed
      <4>2. ASSUME NEW x \in FilesNamed(task[t].node, g), Holds(x, task[t].raw[g])
            PROVE  Holds(x, task[t].raw[g])'
        <5>1. RelationsOf(x)' = RelationsOf(x) /\ stream \subseteq stream'
          BY <1>1 DEF RelationsOf
        <5> QED
          BY <1>1, <4>2, <5>1, SameRelations DEF Carries, Holds
      <4> QED
        BY <1>1, <1>2, <3>1, <3>3, <4>1, <4>2 DEF Carries, ShelfFile, Holding
    <3> QED
      BY <3>2, <3>3
  <2> QED
    BY <1>1, <2>4, <2>5, <2>6 DEF Hand, Shelf
<1> QED
  BY <1>1, <1>4 DEF Hand, HandFile, Shelf, Carries

\* The rewritten relationship has the constraint that was found.
LEMMA ChangeMerge ==
  ASSUME TypeInv, NEW t \in Tasks, LocalJob(t), Hand(t), Shelf(t),
         NEW p \in Packages, ChangeConstraint(t, p)
  PROVE  Hand(t)' /\ Shelf(t)'
<1> DEFINE l == task[t]
           id == l.file
<1>1. /\ pc[t] = "packages" /\ pc'[t] = "packages" /\ Carries(t) /\ SameWork(t)
      /\ Matches(id[2], p, l.have, l.want)
      /\ task'[t].have = [l.have EXCEPT ![p] = None]
      /\ task'[t].want = [l.want EXCEPT ![p] = None]
      /\ task'[t].batch = l.batch /\ SetConstraint(id, p, l.want[p])
      /\ UNCHANGED <<uses, packages, stream>>
  BY ChangeDoes
<1>2. ASSUME l.node # None PROVE Hand(t)' /\ Shelf(t)'
  <2>1. HandFile(t) /\ id \in FileIds /\ \A x \in Packages : HandPackage(t, x)
    BY <1>1, <1>2 DEF Hand, HandFile, InHand
  <2>2. HandFile(t)'
    BY <1>1, HandFileStays DEF InHand
  <2>3. Shelf(t)'
    <3>1. \A x \in FileIds : x # id => RelationsOf(x)' = RelationsOf(x)
      BY <1>1, <2>1, RelationsTouched
    <3> QED
      BY <1>1, <2>1, <3>1, ShelfInHand, NoneAssumption DEF InHand
  <2>4. l.want[p] \in Constraints /\ l.have[p] # None
    BY <1>1, TaskFacts DEF Matches, Contents
  <2>5. PICK file \in FileIds : file = id
    BY <2>1
  <2>6. PICK c \in Constraints : c = l.want[p]
    BY <2>4
  <2>7. SetConstraint(file, p, c)
    BY <1>1, <2>5, <2>6
  <2>8. /\ \A x \in Packages : Has(file, x) => Has(file, x)'
        /\ Has(file, p) => Relates(file, p, c)'
        /\ \A x \in Packages : \A d : x # p /\ Relates(file, x, d) => Relates(file, x, d)'
    BY <2>7, SetConstraintDoes
  <2>9. \A x \in Packages : \A d : x # p /\ Covered(file, x, d) => Covered(file, x, d)'
    BY <1>1, <2>8 DEF Covered, Queued
  <2>10. l.batch[p] = None
    BY <1>1, EmptyPackages DEF LocalJob, Matches
  <2>11. /\ \A x \in Packages \ {p} : task'[t].have[x] = l.have[x]
                                       /\ task'[t].want[x] = l.want[x]
         /\ task'[t].have[p] = None /\ task'[t].want[p] = None
    BY <1>1, TaskFacts DEF Contents
  <2>12. ASSUME NEW x \in Packages PROVE HandPackage(t, x)'
    <3>1. HandPackage(t, x)
      BY <2>1
    <3>2. /\ task'[t].raw = l.raw /\ task'[t].file = file /\ task'[t].batch = l.batch
      BY <1>1, <2>5 DEF Carries, SameWork
    <3>3. CASE x = p
      <4>1. c = l.raw[id[2]][p] /\ Has(file, p)
        BY <2>4, <2>5, <2>6, <3>1, <3>3 DEF HandPackage
      <4>2. Relates(file, p, c)'
        BY <2>8, <4>1
      <4> QED
        BY <2>5, <2>10, <2>11, <3>2, <3>3, <4>1, <4>2
           DEF HandPackage, Has, Covered, Relates, Queued
    <3>4. CASE x # p
      BY <1>1, <2>5, <2>8, <2>9, <2>11, <3>1, <3>2, <3>4
         DEF HandPackage, Has, Covered, Relates, Queued
    <3> QED
      BY <3>3, <3>4
  <2> QED
    BY <2>2, <2>3, <2>12 DEF Hand
<1> QED
  BY <1>1, <1>2 DEF Hand, HandFile, Shelf, Carries

\* A deleted relationship is of a package still in new_packages, or of none.
LEMMA RemoveMerge ==
  ASSUME TypeInv, NEW t \in Tasks, Hand(t), Shelf(t),
         NEW p \in Packages, RemovePackage(t, p)
  PROVE  Hand(t)' /\ Shelf(t)'
<1> DEFINE l == task[t]
           id == l.file
<1>1. /\ pc[t] = "packages" /\ pc'[t] = "packages" /\ Carries(t) /\ SameWork(t)
      /\ l.have[p] # None /\ task'[t].have = [l.have EXCEPT ![p] = None]
      /\ task'[t].want = l.want /\ task'[t].batch = l.batch
      /\ DeleteRelation(id, p) /\ UNCHANGED <<uses, packages, stream>>
  BY RemoveDoes
<1>2. ASSUME l.node # None PROVE Hand(t)' /\ Shelf(t)'
  <2>1. HandFile(t) /\ id \in FileIds /\ \A x \in Packages : HandPackage(t, x)
    BY <1>1, <1>2 DEF Hand, HandFile, InHand
  <2>2. HandFile(t)'
    BY <1>1, HandFileStays DEF InHand
  <2>3. Shelf(t)'
    <3>1. \A x \in FileIds : x # id => RelationsOf(x)' = RelationsOf(x)
      BY <1>1, <2>1, RelationsTouched
    <3> QED
      BY <1>1, <2>1, <3>1, ShelfInHand, NoneAssumption DEF InHand
  <2>4. PICK file \in FileIds : file = id
    BY <2>1
  <2>5. \A x \in Packages : x # p =>
          /\ Has(file, x) => Has(file, x)'
          /\ \A d : Relates(file, x, d) => Relates(file, x, d)'
    BY <1>1, <2>4, DeleteRelationDoes
  <2>6. \A x \in Packages : \A d : x # p /\ Covered(file, x, d) => Covered(file, x, d)'
    BY <1>1, <2>5 DEF Covered, Queued
  <2>7. \A x \in Packages : task'[t].have[x] = IF x = p THEN None ELSE l.have[x]
    BY <1>1, TaskFacts DEF Contents
  <2>8. ASSUME NEW x \in Packages PROVE HandPackage(t, x)'
    <3>1. HandPackage(t, x)
      BY <2>1
    <3>2. /\ task'[t].raw = l.raw /\ task'[t].file = file /\ task'[t].batch = l.batch
          /\ task'[t].want = l.want
      BY <1>1, <2>4 DEF Carries, SameWork
    <3>3. CASE x = p
      BY <1>1, <2>4, <2>7, <3>1, <3>2, <3>3 DEF HandPackage
    <3>4. CASE x # p
      BY <1>1, <2>4, <2>5, <2>6, <2>7, <3>1, <3>2, <3>4
         DEF HandPackage, Has, Covered, Relates, Queued
    <3> QED
      BY <3>3, <3>4
  <2> QED
    BY <2>2, <2>3, <2>8 DEF Hand
<1> QED
  BY <1>1, <1>2 DEF Hand, HandFile, Shelf, Carries

\* The package checked moves to the batch or stays for the stream.
LEMMA CheckMerge ==
  ASSUME TypeInv, NEW t \in Tasks, Hand(t), Shelf(t),
         NEW p \in Packages, CheckPackage(t, p)
  PROVE  Hand(t)' /\ Shelf(t)'
<1> DEFINE l == task[t]
<1>1. /\ pc[t] = "packages" /\ Carries(t) /\ SameWork(t) /\ task'[t].have = l.have
      /\ pc'[t] \in {"packages", "xadd"} /\ l.want[p] # None
      /\ UNCHANGED <<uses, requires, packages, stream>>
      /\ \/ /\ p \in packages
            /\ task'[t].batch = [l.batch EXCEPT ![p] = l.want[p]]
            /\ task'[t].want = [l.want EXCEPT ![p] = None]
         \/ SameMerge(t)
  BY CheckDoes DEF SameBelowAll
<1>2. ASSUME l.node # None PROVE Hand(t)' /\ Shelf(t)'
  <2>1. /\ HandFile(t) /\ l.file \in FileIds
        /\ \A x \in Packages : HandPackage(t, x)
    BY <1>1, <1>2 DEF Hand, HandFile, InHand
  <2>2. HandFile(t)'
    BY <1>1, HandFileStays DEF InHand
  <2>3. Shelf(t)'
    BY <1>1, <2>1, ShelfInHand, NoneAssumption DEF InHand, RelationsOf
  <2>4. ASSUME NEW x \in Packages PROVE HandPackage(t, x)'
    <3>1. HandPackage(t, x)
      BY <2>1
    <3>2. \/ task'[t].batch[x] = l.batch[x] /\ task'[t].want[x] = l.want[x]
          \/ /\ x = p /\ p \in packages
             /\ task'[t].batch[x] = l.want[x] /\ task'[t].want[x] = None
      BY <1>1, TaskFacts DEF SameMerge, Contents
    <3>3. task'[t].raw = l.raw /\ task'[t].file = l.file
      BY <1>1 DEF Carries, SameWork
    <3>4. l.have = Nothing
      BY CheckDoes
    <3> QED
      BY <1>1, <3>1, <3>2, <3>3, <3>4, EmptyPackages
         DEF HandPackage, Has, Covered, Relates, Queued
  <2> QED
    BY <2>2, <2>3, <2>4 DEF Hand
<1> QED
  BY <1>1, <1>2 DEF Hand, HandFile, Shelf, Carries

\* The message covers the package until the extractor consumes it.
LEMMA AddMerge ==
  ASSUME TypeInv, NEW t \in Tasks, LocalJob(t), Hand(t), Shelf(t), AddMessage(t)
  PROVE  Hand(t)' /\ Shelf(t)'
<1> DEFINE l == task[t]
           m == [pkg |-> l.missing, con |-> l.want[l.missing], parent |-> l.file,
                 by |-> t]
<1>1. /\ pc[t] = "xadd" /\ pc'[t] = "packages" /\ Carries(t) /\ SameWork(t)
      /\ task'[t].have = l.have /\ task'[t].batch = l.batch
      /\ task'[t].want = [l.want EXCEPT ![l.missing] = None]
      /\ stream' = stream \cup {m}
      /\ UNCHANGED <<uses, requires, packages>>
  BY AddMessageDoes
<1>2. m.parent = l.file /\ m.pkg = l.missing /\ m.con = l.want[l.missing]
  OBVIOUS
<1>3. l.missing \in Packages /\ l.want[l.missing] # None
  BY <1>1, LocalsType DEF Locals, TypeInv, LocalsCoherent
<1> HIDE DEF m
<1>4. ASSUME l.node # None PROVE Hand(t)' /\ Shelf(t)'
  <2>1. /\ HandFile(t) /\ l.file \in FileIds
        /\ \A x \in Packages : HandPackage(t, x)
    BY <1>1, <1>4 DEF Hand, HandFile, InHand
  <2>2. HandFile(t)'
    BY <1>1, HandFileStays DEF InHand
  <2>3. Shelf(t)'
    BY <1>1, <2>1, ShelfInHand, NoneAssumption DEF InHand, RelationsOf
  <2>4. ASSUME NEW x \in Packages PROVE HandPackage(t, x)'
    <3>1. HandPackage(t, x)
      BY <2>1
    <3>2. task'[t].want[x] = IF x = l.missing THEN None ELSE l.want[x]
      BY <1>1, <1>3, TaskFacts DEF Contents
    <3>3. task'[t].raw = l.raw /\ task'[t].file = l.file
      BY <1>1 DEF Carries, SameWork
    <3>4. x = l.missing => \E y \in stream' :
            y.parent = l.file /\ y.pkg = x /\ y.con = l.want[x]
      BY <1>1, <1>2
    <3>5. l.have[x] = None
      BY <1>1, EmptyPackages DEF LocalJob
    <3> QED
      BY <1>1, <1>3, <3>1, <3>2, <3>3, <3>4, <3>5
         DEF HandPackage, Has, Covered, Relates, Queued
  <2> QED
    BY <2>2, <2>3, <2>4 DEF Hand
<1> QED
  BY <1>1, <1>4 DEF Hand, HandFile, Shelf, Carries

\* The file leaves the hand with everything found in it covered.
LEMMA ShelfReturned ==
  ASSUME NEW t \in Tasks, Shelf(t), HandFile(t), pc[t] \in InHand, Carries(t),
         UNCHANGED uses, stream \subseteq stream', task[t].node # None,
         task'[t].existing = task[t].existing, task'[t].todo = task[t].todo,
         \A id \in FileIds : id # task[t].file => RelationsOf(id)' = RelationsOf(id),
         \A p \in Packages : LET c == task[t].raw[task[t].file[2]][p] IN
           c # None => (\E q \in requires' : q.file = task[t].file /\ q.pkg = p
                                              /\ q.con = c)
                       \/ (\E m \in stream' : m.parent = task[t].file /\ m.pkg = p
                                              /\ m.con = c)
  PROVE  Shelf(t)'
<1> SUFFICES ASSUME NEW f \in Files PROVE ShelfFile(t, f)'
  BY DEF Shelf
<1>1. ShelfFile(t, f)
  BY DEF Shelf, Begun, InHand
<1>2. PICK id \in FileIds : id = task[t].file
  BY DEF HandFile
<1>3. CASE f = id[2]
  <2>1. id \in FilesNamed(task[t].node, f)'
    BY <1>2, <1>3 DEF HandFile, FilesNamed, Carries
  <2>2. Holds(id, task[t].raw[f])'
    BY <1>2, <1>3 DEF Holds, Covered, Relates, Queued, Carries
  <2>3. task'[t].existing[f] = None /\ f \notin task'[t].todo
    BY <1>2, <1>3 DEF HandFile
  <2> QED
    BY <2>1, <2>2, <2>3 DEF ShelfFile
<1>4. CASE f # id[2]
  <2>1. \A x \in FilesNamed(task[t].node, f) : RelationsOf(x)' = RelationsOf(x)
    BY <1>2, <1>4 DEF FilesNamed
  <2>2. ~Holding(t, f)
    BY <1>2, <1>4 DEF Holding
  <2> QED
    BY <1>1, <2>1, <2>2, ShelfAround
<1> QED
  BY <1>3, <1>4

\* After the batch is related, every package of the file is covered.
LEMMA RelateMerge ==
  ASSUME TypeInv, NEW t \in Tasks, Hand(t), Shelf(t), RelatePackages(t)
  PROVE  Hand(t)' /\ Shelf(t)'
<1> DEFINE l == task[t]
<1>1. /\ pc[t] = "packages" /\ pc'[t] = IF Created(t) THEN "files" ELSE "stamp"
      /\ l.have = Nothing /\ l.want = Nothing
      /\ task'[t].file = IF Created(t) THEN None ELSE l.file
      /\ task'[t].batch = Nothing /\ Carries(t)
      /\ task'[t].existing = l.existing /\ task'[t].todo = l.todo
      /\ task'[t].have = l.have /\ task'[t].want = l.want
      /\ RelateAll(t, l.file, l.batch)
      /\ UNCHANGED <<uses, packages, stream>>
  BY RelateDoes
<1>2. ASSUME l.node # None PROVE Hand(t)' /\ Shelf(t)'
  <2>1. HandFile(t) /\ \A x \in Packages : HandPackage(t, x)
    BY <1>1, <1>2 DEF Hand, InHand
  <2>2. l.file \in FileIds /\ uses[l.file] = l.node
    BY <1>1, <1>2, <2>1 DEF HandFile, InHand
  <2>3. PICK file \in FileIds : file = l.file
    BY <2>2
  <2>4. FileExists(file)
    BY <1>2, <2>2, <2>3, NoneAssumption DEF FileExists
  <2>5. PICK batch : batch = l.batch
    OBVIOUS
  <2>6. RelateAll(t, file, batch)
    BY <1>1, <2>3, <2>5
  <2>7. /\ \A x \in Packages : \A d : Relates(file, x, d) => Relates(file, x, d)'
        /\ \A x \in packages : batch[x] # None => Relates(file, x, batch[x])'
    BY <2>4, <2>6, RelateAllDoes
  <2>8. \A x \in FileIds : x # l.file => RelationsOf(x)' = RelationsOf(x)
    BY <1>1, <2>2, RelationsTouched
  <2>9. ASSUME NEW x \in Packages, NEW c, c = l.raw[file[2]][x], c # None
        PROVE  Covered(file, x, c)'
    <3>1. \/ l.batch[x] = c /\ x \in packages
          \/ Covered(file, x, c)
      BY <1>1, <2>1, <2>3, <2>9, EmptyPackages DEF HandPackage
    <3>2. CASE l.batch[x] = c /\ x \in packages
      BY <2>5, <2>7, <2>9, <3>2 DEF Covered
    <3>3. CASE Covered(file, x, c)
      BY <1>1, <2>7, <3>3 DEF Covered, Queued
    <3> QED
      BY <3>1, <3>2, <3>3
  <2>10. \A p \in Packages : LET c == l.raw[l.file[2]][p] IN
           c # None => (\E q \in requires' : q.file = l.file /\ q.pkg = p
                                              /\ q.con = c)
                       \/ (\E m \in stream' : m.parent = l.file /\ m.pkg = p
                                              /\ m.con = c)
    BY <2>3, <2>9 DEF Covered, Relates, Queued
  <2>11. Shelf(t)'
    BY <1>1, <1>2, <2>1, <2>8, <2>10, ShelfReturned DEF InHand
  <2>12. CASE Created(t)
    BY <1>1, <2>11, <2>12 DEF Hand, HandFile, InHand
  <2>13. CASE ~Created(t)
    <3>1. HandFile(t)'
      BY <1>1, <2>1, <2>13, HandFileStays DEF Hand, InHand, SameWork
    <3>2. ASSUME NEW p \in Packages PROVE HandPackage(t, p)'
      BY <1>1, <2>3, <2>9, <2>13, EmptyPackages
         DEF HandPackage, Carries, Covered, Relates, Queued
    <3> QED
      BY <2>11, <3>1, <3>2 DEF Hand
  <2> QED
    BY <2>12, <2>13
<1> QED
  BY <1>1, <1>2 DEF Hand, HandFile, Shelf, Carries

\* The stamp changes no relationship.
LEMMA StampMerge ==
  ASSUME TypeInv, NEW t \in Tasks, LocalJob(t), Hand(t), Shelf(t), StampFile(t)
  PROVE  Hand(t)' /\ Shelf(t)'
<1> DEFINE l == task[t]
<1>1. /\ pc[t] = "stamp" /\ pc'[t] = "files" /\ task'[t].file = None /\ Carries(t)
      /\ task'[t].existing = l.existing /\ task'[t].todo = l.todo
      /\ UNCHANGED <<uses, requires, packages, stream>>
  BY StampDoes
<1>2. ASSUME l.node # None PROVE Hand(t)' /\ Shelf(t)'
  <2>1. HandFile(t) /\ \A x \in Packages : HandPackage(t, x)
    BY <1>1, <1>2 DEF Hand, InHand
  <2>2. l.have = Nothing /\ l.want = Nothing /\ l.batch = Nothing
    BY <1>1 DEF LocalJob
  <2>3. \A p \in Packages : LET c == l.raw[l.file[2]][p] IN
          c # None => Covered(l.file, p, c)
    BY <2>1, <2>2, EmptyPackages DEF HandPackage
  <2>4. \A p \in Packages : LET c == l.raw[l.file[2]][p] IN
          c # None => (\E q \in requires' : q.file = l.file /\ q.pkg = p
                                             /\ q.con = c)
                      \/ (\E m \in stream' : m.parent = l.file /\ m.pkg = p
                                             /\ m.con = c)
    BY <1>1, <2>3 DEF Covered, Relates, Queued
  <2>5. Shelf(t)'
    BY <1>1, <1>2, <2>1, <2>4, ShelfReturned DEF InHand, RelationsOf
  <2> QED
    BY <1>1, <2>5 DEF Hand, HandFile, InHand
<1> QED
  BY <1>1, <1>2 DEF Hand, HandFile, Shelf, Carries

\* Nor does the moment of the repository.
LEMMA MomentMerge ==
  ASSUME TypeInv, NEW t \in Tasks, Shelf(t), UpdateMoment(t)
  PROVE  Hand(t)' /\ Shelf(t)'
<1>1. /\ pc[t] = "files" /\ pc'[t] = "finish" /\ UNCHANGED task
      /\ UNCHANGED <<uses, requires, stream>>
  BY MomentDoes DEF SameBelowAll
<1>2. \A f \in Files : ShelfFile(t, f) => ShelfFile(t, f)'
  BY <1>1 DEF ShelfFile, Holding, FilesNamed, Holds, Covered, Relates, Queued
<1> QED
  BY <1>1, <1>2 DEF Hand, HandFile, InHand, Shelf, Begun

(* SetComplete records what the analysis found, and all of it is there.    *)
LEMMA CompleteMerge ==
  ASSUME TypeInv, NEW t \in Tasks, LocalJob(t), Shelf(t), SetComplete(t),
         task[t].node # None
  PROVE  FinishedAt(task[t].node)'
<1> DEFINE l == task[t]
<1>1. /\ pc[t] \in {"files", "finish"} /\ UNCHANGED task
      /\ pc[t] = "files" => l.existing = NoFiles /\ l.todo = {}
      /\ UNCHANGED <<uses, requires, stream>>
      /\ latest'[l.node] = l.raw
  BY CompleteDoes, TaskFacts DEF SameBelowAll
<1>2. l.existing = NoFiles /\ l.todo = {} /\ l.file = None
  BY <1>1 DEF LocalJob
<1>3. \A f \in Files : l.raw[f] # None =>
        \E id \in FilesNamed(l.node, f) : Holds(id, l.raw[f])
  BY <1>1, <1>2, EmptyPackages DEF Shelf, ShelfFile, Begun, Holding
<1>4. \A f \in Files : latest'[l.node][f] # None =>
        \E id \in FilesNamed(l.node, f)' : Holds(id, latest[l.node][f])'
  BY <1>1, <1>3 DEF FilesNamed, Holds, Covered, Relates, Queued
<1> QED
  BY <1>1, <1>4 DEF FinishedAt

\* So each step of a task keeps its own part of the invariant.
LEMMA OwnMerge ==
  ASSUME TypeInv, LockInv, CatInv, Jobs, MergeInv, NEW t \in Tasks,
         Handle(t) \/ Download(t) \/ Persist(t) \/ Fail(t)
  PROVE  Hand(t)' /\ Shelf(t)'
<1>1. LocalJob(t) /\ Hand(t) /\ Shelf(t)
  BY DEF Jobs, MergeInv
<1>2. CASE pc'[t] \notin Begun
  BY <1>2 DEF Hand, HandFile, Shelf, InHand, Begun
<1>3. CASE Handle(t) \/ Download(t) \/ Fail(t)
  <2>1. pc'[t] \notin Begun
    BY <1>3, HandleDoes, FailDoes, StartDoes, ListTreeDoes, OpenDoes, GoneDoes,
       WriteDoes, AnalyzeDoes, FetchDoes, SkipDoes DEF Download, Begun
  <2> QED
    BY <1>2, <2>1
<1>4. CASE MarkIncomplete(t) \/ SetComplete(t) \/ OwnRepository(t)
  <2>1. pc'[t] \notin Begun
    BY <1>4, MarkDoes, CompleteDoes, OwnDoes DEF Begun
  <2> QED
    BY <1>2, <2>1
<1>5. CASE \/ CreateRepository(t) \/ ListFiles(t) \/ AddMessage(t)
           \/ RelatePackages(t) \/ StampFile(t) \/ UpdateMoment(t)
  BY <1>1, <1>5, CreateMerge, ListMerge, AddMerge, RelateMerge, StampMerge,
     MomentMerge
<1>6. CASE \E f \in Files :
             DropFile(t, f) \/ UpdateFile(t, f) \/ CreateRequirementFile(t, f)
  BY <1>1, <1>6, DropMerge, UpdateMerge, NewFileMerge
<1>7. CASE \E p \in Packages :
             ChangeConstraint(t, p) \/ RemovePackage(t, p) \/ CheckPackage(t, p)
  BY <1>1, <1>7, ChangeMerge, RemoveMerge, CheckMerge
<1> QED
  BY <1>3, <1>4, <1>5, <1>6, <1>7 DEF Persist

\* Only SetComplete completes a repository or records an analysis.
LEMMA CompletedBefore ==
  ASSUME TypeInv, LockInv, NEW t \in Tasks,
         Handle(t) \/ Download(t) \/ Persist(t) \/ Fail(t),
         NEW n \in Tasks, repository'[n] # None, repository'[n].complete,
         ~(SetComplete(t) /\ task[t].node = n)
  PROVE  repository[n] # None /\ repository[n].complete /\ latest'[n] = latest[n]
<1>1. CASE Handle(t) \/ Fail(t) \/ Download(t)
  BY <1>1, HandleDoes, FailDoes, StartDoes, ListTreeDoes, OpenDoes, GoneDoes,
     WriteDoes, AnalyzeDoes, FetchDoes, SkipDoes DEF Download
<1>2. CASE \/ ListFiles(t) \/ AddMessage(t) \/ RelatePackages(t) \/ StampFile(t)
           \/ OwnRepository(t)
           \/ \E f \in Files :
                DropFile(t, f) \/ UpdateFile(t, f) \/ CreateRequirementFile(t, f)
           \/ \E p \in Packages :
                ChangeConstraint(t, p) \/ RemovePackage(t, p) \/ CheckPackage(t, p)
  <2>1. UNCHANGED <<latest, repository>>
    BY <1>2, ListDoes, AddMessageDoes, RelateDoes, StampDoes, OwnDoes, DropDoes,
       UpdateDoes, NewFileDoes, ChangeDoes, RemoveDoes, CheckDoes
  <2> QED
    BY <2>1
<1>3. CASE CreateRepository(t)
  <2>1. CASE UserOf[t] \notin KnownUsers
    BY <1>3, <2>1, CreateDoes
  <2>2. CASE UserOf[t] \in KnownUsers
    <3>1. repository'[t] = [repo |-> RepoOf[t], moment |-> task[t].commit,
                            complete |-> FALSE]
      BY <1>3, <2>2, NewNode
    <3>2. \A x \in Tasks \ {t} : repository'[x] = repository[x]
      BY <1>3, <2>2, NewNode
    <3> QED
      BY <1>3, <3>1, <3>2, CreateDoes
  <2> QED
    BY <2>1, <2>2
<1>4. CASE MarkIncomplete(t)
  <2>1. UNCHANGED latest /\ SetFlag(task[t].node, FALSE)
    BY <1>4, MarkDoes DEF MarkIncomplete
  <2>2. task[t].node # None /\ NodeExists(task[t].node)
    BY <1>4, TaskNode DEF MarkIncomplete, Goto, LockInv, RecordCurrent,
       Accepted,
                          Window
  <2>3. Becomes(task[t].node, repository[task[t].node].moment, FALSE)
    BY <2>1, <2>2, FlagBecomes, TaskFacts
  <2> QED
    BY <2>1, <2>3 DEF Becomes
<1>5. CASE UpdateMoment(t)
  <2>1. SetMoment(task[t].node, commits[RepoOf[t]]) /\ UNCHANGED latest
    BY <1>5, MomentDoes DEF UpdateMoment
  <2>2. SameFlags
    BY <2>1, SetMomentFlags, TaskFacts
  <2> QED
    BY <2>1, <2>2 DEF SameFlags
<1>6. CASE SetComplete(t)
  <2>1. SetFlag(task[t].node, TRUE) /\ n # task[t].node
    BY <1>6 DEF SetComplete
  <2>2. \A x \in Tasks : x # task[t].node => latest'[x] = latest[x]
    BY <1>6, CompleteDoes
  <2>3. repository'[n] = repository[n]
    BY <2>1 DEF SetFlag, TypeInv, TypeOK, GraphTypeOK
  <2> QED
    BY <2>1, <2>2, <2>3
<1> QED
  BY <1>1, <1>2, <1>3, <1>4, <1>5, <1>6 DEF Persist

\* It disturbs no other task and no complete repository.
LEMMA StepMerge ==
  ASSUME TypeInv, LockInv, CatInv, Jobs, MergeInv, NEW t \in Tasks,
         Handle(t) \/ Download(t) \/ Persist(t) \/ Fail(t)
  PROVE  MergeInv'
<1>1. ASSUME NEW n \in Tasks, pc[t] \in Writing => task[t].node # n
      PROVE  Kept(n)
  BY <1>1, StepAlone, AloneKept DEF MergeInv
<1>2. ASSUME NEW u \in Tasks PROVE Hand(u)' /\ Shelf(u)'
  <2>1. CASE u = t
    BY <2>1, OwnMerge
  <2>2. CASE u # t
    <3>1. pc'[u] = pc[u] /\ task'[u] = task[u]
      BY <2>2, StepOthers DEF Others
    <3>2. CASE pc[u] \notin Begun
      BY <3>1, <3>2 DEF Hand, HandFile, Shelf, InHand, Begun
    <3>3. CASE pc[u] \in Begun
      <4>1. task[u].node # None => Kept(task[u].node)
        BY <1>1, <2>2, <3>3, TaskFacts DEF LockInv, WritersExclusive, Begun,
           Writing
      <4> QED
        BY <3>1, <4>1, KeptHand, KeptShelf DEF MergeInv
    <3> QED
      BY <3>2, <3>3
  <2> QED
    BY <2>1, <2>2
<1>3. ASSUME NEW n \in Tasks PROVE FinishedAt(n)'
  <2>1. CASE SetComplete(t) /\ task[t].node = n
    <3>1. LocalJob(t) /\ Shelf(t) /\ SetComplete(t) /\ task[t].node # None
      BY <2>1, NoneAssumption DEF Jobs, MergeInv
    <3>2. FinishedAt(task[t].node)'
      BY <3>1, CompleteMerge
    <3>3. task'[t].node = task[t].node
      BY <2>1, CompleteDoes
    <3> QED
      BY <2>1, <3>2, <3>3
  <2>2. CASE ~(SetComplete(t) /\ task[t].node = n)
    <3>1. CASE ~(repository'[n] # None /\ repository'[n].complete)
      BY <3>1 DEF FinishedAt
    <3>2. CASE repository'[n] # None /\ repository'[n].complete
      <4>1. repository[n] # None /\ repository[n].complete /\ latest'[n] = latest[n]
        BY <2>2, <3>2, CompletedBefore
      <4>2. pc[t] \in Writing => task[t].node # n
        BY <4>1, NoneAssumption DEF LockInv, WritersLock
      <4> QED
        BY <1>1, <4>1, <4>2, KeptFinished DEF MergeInv
    <3> QED
      BY <3>1, <3>2
  <2> QED
    BY <2>1, <2>2
<1> QED
  BY <1>2, <1>3 DEF MergeInv

\* The invariant is inductive.
LEMMA MergeNext ==
  TypeInv /\ LockInv /\ CatInv /\ Jobs /\ MergeInv /\ [Next]_vars => MergeInv'
<1> SUFFICES ASSUME TypeInv, LockInv, CatInv, Jobs, MergeInv, [Next]_vars
             PROVE  MergeInv'
  OBVIOUS
<1>1. ASSUME UNCHANGED <<pc, task, repository, latest>>,
             \A n \in Tasks : Kept(n)
      PROVE  MergeInv'
  <2>1. ASSUME NEW u \in Tasks PROVE Hand(u)' /\ Shelf(u)'
    BY <1>1, KeptHand, KeptShelf, TaskFacts DEF MergeInv
  <2>2. ASSUME NEW n \in Tasks PROVE FinishedAt(n)'
    BY <1>1, KeptFinished DEF MergeInv
  <2> QED
    BY <2>1, <2>2 DEF MergeInv
<1>2. ASSUME UNCHANGED <<graphVars, stream, pc, task, latest>> PROVE MergeInv'
  BY <1>1, <1>2, SameAlone, AloneKept DEF graphVars, SameBelowAll
<1>3. ASSUME NEW m \in stream, Extract(m) PROVE MergeInv'
  BY <1>1, <1>3, ExtractKept DEF Extract, ExtractInto
<1> QED
  BY <1>2, <1>3, StepMerge DEF Next, Commit, vars

(* Requests one at a time: whatever fails, and however the extractor runs   *)
(* in between, each dependency that a completed analysis found is in the    *)
(* graph or in a message for its file.                                     *)
THEOREM SerialNothingLost == ~Racing => (Spec => []NoDependencyLost)
<1> SUFFICES ASSUME ~Racing PROVE Spec => []NoDependencyLost
  OBVIOUS
<1>1. MergeInv => NoDependencyLost
  <2> SUFFICES ASSUME MergeInv, NEW n \in Tasks, NEW f \in Files,
                      repository[n] # None, repository[n].complete,
                      latest[n][f] # None
               PROVE  \E id \in FilesNamed(n, f) : \A d \in Pairs(latest[n][f]) :
                        \/ \E q \in RelationsOf(id) : <<q.pkg, q.con>> = d
                        \/ \E m \in stream : m.parent = id /\ <<m.pkg, m.con>> = d
    BY DEF NoDependencyLost
  <2>1. PICK id \in FilesNamed(n, f) : Holds(id, latest[n][f])
    BY DEF MergeInv, FinishedAt
  <2>2. ASSUME NEW d \in Pairs(latest[n][f])
        PROVE  \/ \E q \in RelationsOf(id) : <<q.pkg, q.con>> = d
               \/ \E m \in stream : m.parent = id /\ <<m.pkg, m.con>> = d
    <3>1. PICK p \in Packages : latest[n][f][p] # None /\ d = <<p, latest[n][f][p]>>
      BY DEF Pairs
    <3> QED
      BY <2>1, <3>1 DEF Holds, Covered, Relates, Queued, RelationsOf
  <2> QED
    BY <2>2
<1>2. TypeInv /\ LockInv /\ CatInv /\ Jobs /\ MergeInv /\ [Next]_vars => MergeInv'
  BY MergeNext
<1>3. Spec => [](TypeInv /\ LockInv /\ CatInv /\ Jobs)
  BY SerialInv
<1> QED
  BY <1>1, <1>2, <1>3, InitMerge, PTL DEF Spec

-----------------------------------------------------------------------------
(* When the graph knows every package, nothing is queued, and what a file  *)
(* requires is a function of the task that works on it: a relationship is  *)
(* still to be looked at, or it is the one that the analysis asks for.     *)

Known ==
  packages = Packages /\ stream = {} /\ \A t \in Tasks : pc[t] # "xadd"

\* A request has not created the files it has still to look at.
NotYet ==
  \A t \in Tasks, f \in Files :
    pc[t] \in Early \/ (pc[t] \in Begun /\ f \in task[t].todo)
      => uses[<<t, f>>] = None

Names ==
  \A x, y \in FileIds :
    uses[x] # None /\ uses[x] = uses[y] /\ x[2] = y[2] => x = y

Functional == \A x, y \in requires : x.file = y.file /\ x.pkg = y.pkg => x = y

Alive == \A q \in requires : uses[q.file] # None

Full(id, content) ==
  \A q \in RelationsOf(id) : content # None /\ q.con = content[q.pkg]

ExactHand(t) ==
  LET l == task[t] IN
  pc[t] \in InHand /\ l.node # None =>
    \A q \in RelationsOf(l.file) :
      IF l.have[q.pkg] # None THEN q.con = l.have[q.pkg]
      ELSE /\ l.want[q.pkg] = None /\ l.batch[q.pkg] = None
           /\ q.con = l.raw[l.file[2]][q.pkg]

ExactShelfFile(t, f) ==
  LET l == task[t] IN
  l.existing[f] = None /\ f \notin l.todo /\ ~Holding(t, f) =>
    \A id \in FilesNamed(l.node, f) : Full(id, l.raw[f])

ExactShelf(t) ==
  pc[t] \in Begun /\ task[t].node # None =>
    \A f \in Files : ExactShelfFile(t, f)

ExactAt(n) ==
  repository[n] # None /\ repository[n].complete =>
    \A f \in Files : \A id \in FilesNamed(n, f) : Full(id, latest[n][f])

ExactInv ==
  /\ Known /\ NotYet /\ Names /\ Functional /\ Alive
  /\ \A n \in Tasks : ExactAt(n)
  /\ \A t \in Tasks : ExactHand(t) /\ ExactShelf(t)

\* The graph is empty but for the packages.
LEMMA InitExact == Init /\ InitialPackages = Packages => ExactInv
BY DEF Init, GraphInit, ExactInv, Known, NotYet, Names, Functional, Alive,
       ExactAt, ExactHand, ExactShelf, InHand, Begun, FileIds

(* No step queues a package that the graph knows.                          *)
LEMMA KnownStep ==
  ASSUME TypeInv, Known, NEW t \in Tasks,
         Handle(t) \/ Download(t) \/ Persist(t) \/ Fail(t)
  PROVE  Known'
<1>1. pc[t] # "xadd" /\ \A p \in Packages : p \in packages
  BY DEF Known
<1>2. UNCHANGED <<packages, stream>> /\ pc'[t] # "xadd"
  <2>1. CASE Handle(t) \/ Download(t) \/ Fail(t)
    BY <1>1, <2>1, HandleDoes, FailDoes, StartDoes, ListTreeDoes, OpenDoes,
       GoneDoes, WriteDoes, AnalyzeDoes, FetchDoes, SkipDoes
       DEF Download, SameBelowAll
  <2>2. CASE \/ CreateRepository(t) \/ MarkIncomplete(t) \/ ListFiles(t)
             \/ UpdateMoment(t) \/ SetComplete(t) \/ OwnRepository(t)
             \/ \E f \in Files : UpdateFile(t, f)
             \/ \E p \in Packages : CheckPackage(t, p)
    BY <1>1, <2>2, CreateDoes, MarkDoes, ListDoes, MomentDoes, CompleteDoes,
       OwnDoes, UpdateDoes, CheckDoes DEF SameBelowAll
  <2>3. CASE AddMessage(t)
    BY <1>1, <2>3, AddMessageDoes
  <2>4. CASE \/ RelatePackages(t) \/ StampFile(t)
             \/ \E f \in Files : DropFile(t, f) \/ CreateRequirementFile(t, f)
             \/ \E p \in Packages : ChangeConstraint(t, p) \/ RemovePackage(t, p)
    BY <2>4, RelateDoes, StampDoes, DropDoes, NewFileDoes, ChangeDoes,
       RemoveDoes
  <2> QED
    BY <2>1, <2>2, <2>3, <2>4 DEF Persist
<1>3. \A u \in Tasks : u # t => pc'[u] = pc[u]
  BY StepOthers DEF Others
<1> QED
  BY <1>2, <1>3 DEF Known

(* A request takes a file from raw_requirement_files once and never starts  *)
(* over.                                                                   *)
Forward(t) ==
  /\ pc'[t] \in Early => pc[t] \in Early
  /\ pc'[t] \in Begun =>
       \/ pc[t] \in Early
       \/ pc[t] \in Begun /\ task'[t].todo \subseteq task[t].todo

\* No step goes back to the download or returns a file to todo.
LEMMA StepForward ==
  ASSUME TypeInv, NEW t \in Tasks,
         Handle(t) \/ Download(t) \/ Persist(t) \/ Fail(t)
  PROVE  Forward(t)
<1> USE DEF Forward, Early, Begun, Accepted, Window, SameWork
<1>1. CASE Handle(t) \/ Fail(t)
  BY <1>1, HandleDoes, FailDoes
<1>2. CASE Download(t)
  BY <1>2, StartDoes, ListTreeDoes, OpenDoes, GoneDoes, WriteDoes, AnalyzeDoes,
     FetchDoes, SkipDoes DEF Download
<1>3. CASE \/ CreateRepository(t) \/ MarkIncomplete(t) \/ ListFiles(t)
           \/ UpdateMoment(t) \/ SetComplete(t) \/ OwnRepository(t)
  BY <1>3, CreateDoes, MarkDoes, ListDoes, MomentDoes, CompleteDoes, OwnDoes
<1>4. CASE AddMessage(t) \/ RelatePackages(t) \/ StampFile(t)
  BY <1>4, AddMessageDoes, RelateDoes, StampDoes
<1>5. ASSUME NEW f \in Files,
             DropFile(t, f) \/ UpdateFile(t, f) \/ CreateRequirementFile(t, f)
      PROVE  Forward(t)
  <2>1. pc[t] = "files" /\ pc'[t] \in {"files", "packages"}
    BY <1>5, DropDoes, UpdateDoes, NewFileDoes
  <2>2. task'[t].todo = task[t].todo \/ task'[t].todo = task[t].todo \ {f}
    BY <1>5, DropDoes, UpdateDoes, NewFileDoes
  <2> QED
    BY <2>1, <2>2
<1>6. ASSUME NEW p \in Packages,
             ChangeConstraint(t, p) \/ RemovePackage(t, p) \/ CheckPackage(t, p)
      PROVE  Forward(t)
  <2>1. pc[t] = "packages" /\ pc'[t] \in {"packages", "xadd"} /\ SameWork(t)
    BY <1>6, ChangeDoes, RemoveDoes, CheckDoes
  <2> QED
    BY <2>1
<1> QED
  BY <1>1, <1>2, <1>3, <1>4, <1>5, <1>6 DEF Persist

\* Which steps change files and relationships, and how.
LEMMA GraphTouched ==
  ASSUME TypeInv, NEW t \in Tasks,
         Handle(t) \/ Download(t) \/ Persist(t) \/ Fail(t)
  PROVE  \/ UNCHANGED <<uses, requires>>
         \/ /\ pc[t] \in InHand /\ UNCHANGED uses
            /\ \/ \E p \in Packages : ChangeConstraint(t, p) \/ RemovePackage(t, p)
               \/ RelatePackages(t)
         \/ \E f \in Files : DropFile(t, f)
         \/ /\ UNCHANGED requires
            /\ \E f \in Files : CreateRequirementFile(t, f)
<1>1. CASE Handle(t) \/ Download(t) \/ Fail(t)
  BY <1>1, HandleDoes, FailDoes, StartDoes, ListTreeDoes, OpenDoes, GoneDoes,
     WriteDoes, AnalyzeDoes, FetchDoes, SkipDoes DEF Download, SameBelowAll
<1>2. CASE \/ CreateRepository(t) \/ MarkIncomplete(t) \/ ListFiles(t)
           \/ UpdateMoment(t) \/ SetComplete(t) \/ OwnRepository(t)
           \/ \E f \in Files : UpdateFile(t, f)
           \/ \E p \in Packages : CheckPackage(t, p)
  BY <1>2, CreateDoes, MarkDoes, ListDoes, MomentDoes, CompleteDoes, OwnDoes,
     UpdateDoes, CheckDoes DEF SameBelowAll
<1>3. CASE AddMessage(t) \/ StampFile(t)
  BY <1>3, AddMessageDoes, StampDoes
<1>4. CASE RelatePackages(t)
  BY <1>4, RelateDoes DEF InHand
<1>5. ASSUME NEW p \in Packages, ChangeConstraint(t, p) \/ RemovePackage(t, p)
      PROVE  pc[t] \in InHand /\ UNCHANGED uses
  BY <1>5, ChangeDoes, RemoveDoes DEF InHand
<1>6. ASSUME NEW f \in Files, CreateRequirementFile(t, f)
      PROVE  UNCHANGED requires
  BY <1>6, NewFileDoes
<1> QED
  BY <1>1, <1>2, <1>3, <1>4, <1>5, <1>6 DEF Persist

\* A request creates a file only where the repository has none.
LEMMA NamesStep ==
  ASSUME TypeInv, LockInv, NotYet, Names, NEW t \in Tasks, Shelf(t),
         Handle(t) \/ Download(t) \/ Persist(t) \/ Fail(t)
  PROVE  NotYet' /\ Names'
<1>1. Forward(t) /\ Others(t)
  BY StepForward, StepOthers
<1>2. ASSUME \A id \in FileIds : uses'[id] \in {uses[id], None}
      PROVE  NotYet' /\ Names'
  <2>1. Names'
    BY <1>2 DEF Names
  <2>2. ASSUME NEW u \in Tasks, NEW f \in Files,
               pc'[u] \in Early \/ (pc'[u] \in Begun /\ f \in task'[u].todo)
        PROVE  uses'[<<u, f>>] = None
    <3>1. pc[u] \in Early \/ (pc[u] \in Begun /\ f \in task[u].todo)
      BY <1>1, <2>2 DEF Forward, Others
    <3>2. <<u, f>> \in FileIds /\ uses[<<u, f>>] = None
      BY <3>1 DEF NotYet, FileIds
    <3> QED
      BY <1>2, <3>2
  <2> QED
    BY <2>1, <2>2 DEF NotYet
<1>3. ASSUME NEW f \in Files, DropFile(t, f) PROVE NotYet' /\ Names'
  <2>1. DeleteFile(task[t].node, f)
    BY <1>3, DropDoes
  <2> QED
    BY <1>2, <2>1 DEF DeleteFile
<1>4. ASSUME NEW f \in Files, CreateRequirementFile(t, f) PROVE NotYet' /\ Names'
  <2>1. /\ pc[t] = "files" /\ pc'[t] = "packages" /\ f \in task[t].todo
        /\ task[t].existing = NoFiles /\ task'[t].todo = task[t].todo \ {f}
        /\ CreateFile(<<t, f>>, task[t].node)
    BY <1>4, NewFileDoes
  <2>2. CASE ~NodeExists(task[t].node)
    BY <1>2, <2>1, <2>2 DEF CreateFile
  <2>3. CASE NodeExists(task[t].node)
    <3> DEFINE id == <<t, f>>
    <3>1. id \in FileIds /\ id[1] = t /\ id[2] = f
      BY DEF FileIds
    <3>2. uses'[id] = task[t].node /\ \A x \in FileIds : x # id => uses'[x] = uses[x]
      BY <2>1, <2>3, <3>1 DEF CreateFile, TypeInv, TypeOK, GraphTypeOK
    <3>3. FilesNamed(task[t].node, f) = {}
      BY <2>1, <2>3, EmptyPackages DEF Shelf, ShelfFile, Begun, NodeExists
    <3>4. \A x \in FileIds : x[2] = f => uses[x] # task[t].node
      BY <3>3 DEF FilesNamed
    <3>5. Names'
      <4> SUFFICES ASSUME NEW x \in FileIds, NEW y \in FileIds, uses'[x] # None,
                          uses'[x] = uses'[y], x[2] = y[2], x # y
                   PROVE  FALSE
        BY DEF Names
      <4> HIDE DEF id
      <4> QED
        BY <3>1, <3>2, <3>4 DEF Names
    <3>6. ASSUME NEW u \in Tasks, NEW g \in Files,
                 pc'[u] \in Early \/ (pc'[u] \in Begun /\ g \in task'[u].todo)
          PROVE  uses'[<<u, g>>] = None
      <4>1. pc[u] \in Early \/ (pc[u] \in Begun /\ g \in task[u].todo)
        BY <1>1, <3>6 DEF Forward, Others
      <4>2. <<u, g>> \in FileIds /\ uses[<<u, g>>] = None
        BY <4>1 DEF NotYet, FileIds
      <4>3. <<u, g>> # id
        BY <2>1, <3>6 DEF Early, Begun, Accepted, Window
      <4> QED
        BY <3>2, <4>2, <4>3
    <3> QED
      BY <3>5, <3>6 DEF NotYet
  <2> QED
    BY <2>2, <2>3
<1> QED
  BY <1>2, <1>3, <1>4, GraphTouched

\* Two relationships of one file never lead to the same package.
LEMMA RelationsStep ==
  ASSUME TypeInv, CatInv, Functional, Alive, NEW t \in Tasks,
         Hand(t), ExactHand(t),
         Handle(t) \/ Download(t) \/ Persist(t) \/ Fail(t)
  PROVE  Functional' /\ Alive'
<1>0. \A q \in requires : q.file \in FileIds
  BY DEF TypeInv, TypeOK, GraphTypeOK, Relation
<1>1. CASE UNCHANGED <<uses, requires>>
  BY <1>1 DEF Functional, Alive
<1>2. ASSUME NEW p \in Packages, ChangeConstraint(t, p) PROVE Functional' /\ Alive'
  <2> DEFINE id == task[t].file
             c == task[t].want[p]
             change(q) == IF q.file = id /\ q.pkg = p THEN [q EXCEPT !.con = c] ELSE q
  <2>1. requires' = {change(q) : q \in requires} /\ UNCHANGED uses
    BY <1>2 DEF ChangeConstraint, SetConstraint, ChangeRelations
  <2>2. \A q \in requires : change(q).file = q.file /\ change(q).pkg = q.pkg
    BY DEF TypeInv, TypeOK, GraphTypeOK, Relation
  <2> HIDE DEF change
  <2> QED
    BY <2>1, <2>2 DEF Functional, Alive
<1>3. ASSUME NEW p \in Packages, RemovePackage(t, p) PROVE Functional' /\ Alive'
  <2>1. requires' \subseteq requires /\ UNCHANGED uses
    BY <1>3 DEF RemovePackage, DeleteRelation, ChangeRelations
  <2> QED
    BY <2>1 DEF Functional, Alive
<1>4. ASSUME NEW f \in Files, DropFile(t, f) PROVE Functional' /\ Alive'
  BY <1>0, <1>4 DEF DropFile, DeleteFile, Functional, Alive
<1>5. ASSUME NEW f \in Files, CreateRequirementFile(t, f), UNCHANGED requires
      PROVE Functional' /\ Alive'
  <2>1. \A x \in FileIds : uses[x] # None => uses'[x] # None
    BY <1>5 DEF CreateRequirementFile, CreateFile, NodeExists, TypeInv, TypeOK,
                GraphTypeOK
  <2> QED
    BY <1>0, <1>5, <2>1 DEF Functional, Alive
<1>6. CASE RelatePackages(t)
  <2> DEFINE id == task[t].file
             batch == task[t].batch
             new(p) == [file |-> id, pkg |-> p, con |-> batch[p], by |-> t]
  <2>1. /\ pc[t] = "packages" /\ task[t].have = Nothing
        /\ RelateAll(t, id, batch) /\ UNCHANGED uses
    BY <1>6, RelateDoes
  <2>2. CASE ~FileExists(id)
    BY <2>1, <2>2 DEF RelateAll, Functional, Alive
  <2>3. CASE FileExists(id)
    <3>1. requires' = requires \cup {new(p) : p \in {x \in packages : batch[x] # None}}
      BY <2>1, <2>3 DEF RelateAll, ChangeRelations
    <3>2. \A p : new(p).file = id /\ new(p).pkg = p
      OBVIOUS
    <3>3. \A q \in requires : q.file = id => batch[q.pkg] = None
      <4>1. id # None /\ task[t].node # None
        BY <2>3 DEF FileExists, CatInv, TasksBelong, Mine
      <4>2. \A q \in requires : q.pkg \in Packages
        BY DEF TypeInv, TypeOK, GraphTypeOK, Relation
      <4> QED
        BY <2>1, <4>1, <4>2, EmptyPackages DEF ExactHand, InHand, RelationsOf
    <3>4. uses[id] # None
      BY <2>3 DEF FileExists
    <3> HIDE DEF new, id, batch
    <3> QED
      BY <2>1, <3>1, <3>2, <3>3, <3>4 DEF Functional, Alive
  <2> QED
    BY <2>2, <2>3
<1> QED
  BY <1>1, <1>2, <1>3, <1>4, <1>5, <1>6, GraphTouched

(* What is below a node stays, and so does what is said about it.          *)
LEMMA AloneExact ==
  ASSUME NEW u \in Tasks, pc'[u] = pc[u], task'[u] = task[u],
         Hand(u), ExactHand(u), ExactShelf(u),
         task[u].node # None => Alone(task[u].node)
  PROVE  ExactHand(u)' /\ ExactShelf(u)'
<1>1. ExactHand(u)'
  <2> SUFFICES ASSUME pc[u] \in InHand, task[u].node # None,
                      NEW q \in RelationsOf(task[u].file)'
               PROVE  IF task[u].have[q.pkg] # None THEN q.con = task[u].have[q.pkg]
                      ELSE /\ task[u].want[q.pkg] = None
                           /\ task[u].batch[q.pkg] = None
                           /\ q.con = task[u].raw[task[u].file[2]][q.pkg]
    BY DEF ExactHand
  <2>1. PICK id \in FileIds : id = task[u].file /\ uses[id] = task[u].node
    BY DEF Hand, HandFile
  <2>2. RelationsOf(id)' = RelationsOf(id)
    BY <2>1 DEF Alone
  <2>3. q \in RelationsOf(id)
    BY <2>1, <2>2 DEF RelationsOf
  <2> QED
    BY <2>1, <2>3 DEF ExactHand
<1>2. ExactShelf(u)'
  <2> SUFFICES ASSUME pc[u] \in Begun, task[u].node # None, NEW f \in Files
               PROVE  ExactShelfFile(u, f)'
    BY DEF ExactShelf
  <2>1. ExactShelfFile(u, f)
    BY DEF ExactShelf
  <2>2. FilesNamed(task[u].node, f)' = FilesNamed(task[u].node, f)
    BY DEF Alone, FilesNamed
  <2>3. \A id \in FilesNamed(task[u].node, f) : RelationsOf(id)' = RelationsOf(id)
    BY DEF Alone, FilesNamed
  <2> QED
    BY <2>1, <2>2, <2>3 DEF ExactShelfFile, Holding, Full
<1> QED
  BY <1>1, <1>2

\* A complete repository that is left alone stays exact.
LEMMA AloneAt ==
  ASSUME NEW n \in Tasks, Alone(n), ExactAt(n),
         repository'[n] # None /\ repository'[n].complete =>
           /\ repository[n] # None /\ repository[n].complete
           /\ latest'[n] = latest[n]
  PROVE  ExactAt(n)'
<1>1. \A f : FilesNamed(n, f)' = FilesNamed(n, f)
  BY DEF Alone, FilesNamed
<1>2. \A f : \A id \in FilesNamed(n, f) : RelationsOf(id)' = RelationsOf(id)
  BY DEF Alone, FilesNamed
<1> QED
  BY <1>1, <1>2 DEF ExactAt, Full

\* The same for a file that a task's own step leaves alone.
LEMMA ExactAround ==
  ASSUME NEW t \in Tasks, NEW f \in Files, ExactShelfFile(t, f), Carries(t),
         FilesNamed(task[t].node, f)' \subseteq FilesNamed(task[t].node, f),
         \A id \in FilesNamed(task[t].node, f)' : RelationsOf(id)' = RelationsOf(id),
         task'[t].existing[f] = task[t].existing[f],
         f \in task'[t].todo <=> f \in task[t].todo,
         Holding(t, f) => Holding(t, f)'
  PROVE  ExactShelfFile(t, f)'
BY DEF ExactShelfFile, Full, Carries, FilesNamed

\* A query on the file in hand leaves the other files exact.
LEMMA ExactInHand ==
  ASSUME NEW t \in Tasks, ExactShelf(t), pc[t] \in InHand, Carries(t), SameWork(t),
         UNCHANGED uses, task[t].file # None,
         \A id \in FileIds : id # task[t].file => RelationsOf(id)' = RelationsOf(id)
  PROVE  ExactShelf(t)'
<1> SUFFICES ASSUME task[t].node # None, NEW f \in Files
             PROVE  ExactShelfFile(t, f)'
  BY DEF ExactShelf, Carries
<1>1. ExactShelfFile(t, f)
  BY DEF ExactShelf, Begun, InHand
<1>2. FilesNamed(task[t].node, f)' = FilesNamed(task[t].node, f)
  BY DEF FilesNamed, Carries
<1>3. CASE Holding(t, f)
  BY <1>3 DEF ExactShelfFile, Holding, SameWork
<1>4. CASE ~Holding(t, f)
  <2>1. \A id \in FilesNamed(task[t].node, f) : RelationsOf(id)' = RelationsOf(id)
    BY <1>4 DEF Holding, FilesNamed
  <2> QED
    BY <1>1, <1>2, <1>4, <2>1, ExactAround DEF SameWork
<1> QED
  BY <1>3, <1>4

\* A new repository has no relationships.
LEMMA CreateExact ==
  ASSUME TypeInv, LockInv, CatInv, NEW t \in Tasks, CreateRepository(t)
  PROVE  ExactHand(t)' /\ ExactShelf(t)'
<1>1. /\ pc[t] = "create" /\ pc'[t] = "files" /\ UNCHANGED uses
      /\ UserOf[t] \notin KnownUsers => UNCHANGED task
  BY CreateDoes DEF SameBelowAll
<1>2. task[t].node = None
  BY <1>1 DEF LockInv, RecordCurrent, Accepted, Window
<1>3. CASE UserOf[t] \notin KnownUsers
  BY <1>1, <1>2, <1>3 DEF ExactHand, ExactShelf
<1>4. CASE UserOf[t] \in KnownUsers
  <2>1. task'[t].node = t /\ repository[t] = None
    BY <1>4, NewNode, LocalsType DEF Locals
  <2>2. \A f : FilesNamed(t, f) = {}
    BY <2>1, NoneAssumption DEF CatInv, FilesBelong, FilesNamed, NodesOf
  <2>3. \A f : FilesNamed(t, f)' = {}
    BY <1>1, <2>2 DEF FilesNamed
  <2> QED
    BY <1>1, <2>1, <2>3 DEF ExactHand, ExactShelf, ExactShelfFile, InHand
<1> QED
  BY <1>3, <1>4

\* Every file the graph has is still to be looked at.
LEMMA ListExact ==
  ASSUME TypeInv, NEW t \in Tasks, ListFiles(t)
  PROVE  ExactHand(t)' /\ ExactShelf(t)'
<1>1. /\ pc'[t] = "files" /\ Carries(t) /\ UNCHANGED uses
      /\ task'[t].existing \in FilesRead(task[t].node)
  BY ListDoes DEF SameBelowAll
<1>2. \A f \in Files :
        task'[t].existing[f] = None => FilesNamed(task[t].node, f) = {}
  BY <1>1, NoneAssumption DEF FilesRead, FilesNamed
<1>3. \A f \in Files : FilesNamed(task[t].node, f)' = FilesNamed(task[t].node, f)
  BY <1>1 DEF FilesNamed, Carries
<1> QED
  BY <1>1, <1>2, <1>3 DEF ExactHand, ExactShelf, ExactShelfFile, InHand

\* The deletion of a file removes what it required.
LEMMA DropExact ==
  ASSUME TypeInv, NEW t \in Tasks, ExactShelf(t), NEW f \in Files, DropFile(t, f)
  PROVE  ExactHand(t)' /\ ExactShelf(t)'
<1>1. /\ pc[t] = "files" /\ pc'[t] = "files" /\ Carries(t)
      /\ task'[t].existing = [task[t].existing EXCEPT ![f] = None]
      /\ task'[t].file = task[t].file /\ task'[t].todo = task[t].todo
      /\ DeleteFile(task[t].node, f)
  BY DropDoes
<1>2. \A g \in Files : task'[t].existing[g] =
        IF g = f THEN None ELSE task[t].existing[g]
  BY <1>1, TaskFacts
<1>3. ASSUME task[t].node # None, NEW g \in Files PROVE ExactShelfFile(t, g)'
  <2>1. ExactShelfFile(t, g)
    BY <1>1, <1>3 DEF ExactShelf, Begun
  <2>2. FilesNamed(task[t].node, g)' \subseteq FilesNamed(task[t].node, g)
    BY <1>1, <1>3 DEF FilesNamed, Carries, DeleteFile
  <2>3. CASE g = f
    <3>1. \A id \in FilesNamed(task[t].node, f)' : RelationsOf(id)' = {}
      BY <1>1, <1>3 DEF FilesNamed, Carries, DeleteFile, Doomed, RelationsOf
    <3> QED
      BY <2>3, <3>1 DEF ExactShelfFile, Full
  <2>4. CASE g # f
    <3>1. \A id \in FilesNamed(task[t].node, g)' : RelationsOf(id)' = RelationsOf(id)
      BY <1>1, <2>4 DEF FilesNamed, DeleteFile, Doomed, RelationsOf
    <3> QED
      BY <1>1, <1>2, <2>1, <2>2, <2>4, <3>1, ExactAround DEF Holding
  <2> QED
    BY <2>3, <2>4
<1> QED
  BY <1>1, <1>3 DEF ExactHand, ExactShelf, InHand, Carries

\* The shelf of a task that takes file f in hand.
LEMMA ExactTaken ==
  ASSUME NEW t \in Tasks, ExactShelf(t), pc[t] = "files", Carries(t),
         NEW f \in Files, UNCHANGED requires, Holding(t, f)',
         \A g \in Files : g # f =>
           /\ FilesNamed(task[t].node, g)' = FilesNamed(task[t].node, g)
           /\ task'[t].existing[g] = task[t].existing[g]
           /\ g \in task'[t].todo <=> g \in task[t].todo,
         task[t].file = None
  PROVE  ExactShelf(t)'
<1> SUFFICES ASSUME task[t].node # None, NEW g \in Files
             PROVE  ExactShelfFile(t, g)'
  BY DEF ExactShelf, Carries
<1>1. ExactShelfFile(t, g)
  BY DEF ExactShelf, Begun
<1>2. CASE g = f
  BY <1>2 DEF ExactShelfFile
<1>3. CASE g # f
  <2>1. \A id : RelationsOf(id)' = RelationsOf(id)
    BY DEF RelationsOf
  <2>2. ~Holding(t, g)
    BY DEF Holding
  <2> QED
    BY <1>1, <1>3, <2>1, <2>2, ExactAround
<1> QED
  BY <1>2, <1>3

\* A relationship of the file taken in hand is exact or still in have.
LEMMA UpdateExact ==
  ASSUME TypeInv, Functional, NEW t \in Tasks, LocalJob(t), Shelf(t), ExactShelf(t),
         NEW f \in Files, UpdateFile(t, f)
  PROVE  ExactHand(t)' /\ ExactShelf(t)'
<1> DEFINE l == task[t]
           W == l.raw[f]
           id == l.existing[f]
<1>1. /\ pc[t] = "files" /\ pc'[t] = "packages" /\ Carries(t)
      /\ id # None /\ task'[t].file = id
      /\ task'[t].existing = [l.existing EXCEPT ![f] = None]
      /\ task'[t].todo = l.todo \ {f} /\ task'[t].batch = l.batch
      /\ UNCHANGED <<uses, requires>>
  BY UpdateDoes DEF SameBelowAll
<1>2. \A g \in Files : task'[t].existing[g] = IF g = f THEN None ELSE l.existing[g]
  BY <1>1, TaskFacts
<1>3. l.batch = Nothing /\ l.file = None
  BY <1>1 DEF LocalJob
<1>4. PICK have \in PackagesRead(id) :
        /\ task'[t].have = Differ(have, f, have, W)
        /\ task'[t].want = Differ(W, f, have, W)
  BY UpdateDoes
<1>5. ASSUME l.node # None PROVE ExactHand(t)' /\ ExactShelf(t)'
  <2>1. id \in FileIds /\ id[2] = f
    BY <1>1, <1>5 DEF Shelf, ShelfFile, FilesNamed, Begun
  <2>2. ASSUME NEW q \in RelationsOf(id)
        PROVE  IF task'[t].have[q.pkg] # None THEN q.con = task'[t].have[q.pkg]
               ELSE /\ task'[t].want[q.pkg] = None /\ task'[t].batch[q.pkg] = None
                    /\ q.con = W[q.pkg]
    <3>1. q.pkg \in Packages /\ q \in requires /\ q.file = id
      BY DEF RelationsOf, TypeInv, TypeOK, GraphTypeOK, Relation
    <3> DEFINE cons == {x.con : x \in {x \in RelationsOf(id) : x.pkg = q.pkg}}
    <3>2. q.con \in cons /\ \A c \in cons : c = q.con
      BY <3>1 DEF RelationsOf, Functional
    <3>3. have[q.pkg] \in cons
      BY <3>1, <3>2 DEF PackagesRead
    <3>4. have[q.pkg] = q.con
      BY <3>2, <3>3
    <3>5. q.con # None
      BY <3>1, NoneAssumption DEF TypeInv, TypeOK, GraphTypeOK, Relation
    <3> DEFINE same == Matches(f, q.pkg, have, W) /\ have[q.pkg] = W[q.pkg]
    <3>6. /\ task'[t].have[q.pkg] = IF same THEN None ELSE have[q.pkg]
          /\ task'[t].want[q.pkg] = IF same THEN None ELSE W[q.pkg]
      BY <1>4, <3>1 DEF Differ
    <3>7. task'[t].batch[q.pkg] = None
      BY <1>1, <1>3, <3>1, EmptyPackages
    <3> HIDE DEF W, id
    <3> QED
      BY <3>4, <3>5, <3>6, <3>7
  <2>3. ExactHand(t)'
    BY <1>1, <2>1, <2>2 DEF ExactHand, RelationsOf, Carries
  <2>4. ExactShelf(t)'
    <3>1. Holding(t, f)'
      BY <1>1, <2>1 DEF Holding
    <3>2. \A g : FilesNamed(task[t].node, g)' = FilesNamed(task[t].node, g)
      BY <1>1 DEF FilesNamed, Carries
    <3>3. \A g \in Files : g # f =>
            /\ task'[t].existing[g] = task[t].existing[g]
            /\ g \in task'[t].todo <=> g \in task[t].todo
      BY <1>1, <1>2
    <3>4. pc[t] = "files" /\ Carries(t) /\ UNCHANGED requires /\ l.file = None
      BY <1>1, <1>3
    <3> QED
      BY <3>1, <3>2, <3>3, <3>4, ExactTaken
  <2> QED
    BY <2>3, <2>4
<1> QED
  BY <1>1, <1>5 DEF ExactHand, ExactShelf, Carries

\* A created file has no relationships.
LEMMA NewFileExact ==
  ASSUME TypeInv, LockInv, NotYet, Alive, NEW t \in Tasks, LocalJob(t),
         ExactShelf(t), NEW f \in Files, CreateRequirementFile(t, f)
  PROVE  ExactHand(t)' /\ ExactShelf(t)'
<1> DEFINE l == task[t]
           id == <<t, f>>
<1>1. /\ pc[t] = "files" /\ pc'[t] = "packages" /\ Carries(t)
      /\ l.existing = NoFiles /\ f \in l.todo /\ task'[t].existing = l.existing
      /\ task'[t].file = IF NodeExists(l.node) THEN id ELSE None
      /\ task'[t].todo = l.todo \ {f}
      /\ CreateFile(id, l.node) /\ UNCHANGED requires
  BY NewFileDoes
<1>2. ASSUME l.node # None PROVE ExactHand(t)' /\ ExactShelf(t)'
  <2>1. NodeExists(l.node) /\ id \in FileIds /\ id[2] = f
    BY <1>2, TaskNode DEF FileIds
  <2>2. RelationsOf(id) = {}
    BY <1>1 DEF RelationsOf, Alive, NotYet, Begun
  <2>3. \A x \in FileIds : x # id => uses'[x] = uses[x]
    BY <1>1, <2>1 DEF CreateFile, TypeInv, TypeOK, GraphTypeOK
  <2>4. ExactHand(t)'
    BY <1>1, <2>1, <2>2 DEF ExactHand, RelationsOf
  <2>5. Holding(t, f)'
    BY <1>1, <2>1, NoneAssumption DEF Holding
  <2>6. \A g \in Files : g # f =>
          FilesNamed(task[t].node, g)' = FilesNamed(task[t].node, g)
    BY <1>1, <2>1, <2>3 DEF FilesNamed, Carries
  <2>7. l.file = None
    BY <1>1 DEF LocalJob
  <2> QED
    BY <1>1, <2>4, <2>5, <2>6, <2>7, ExactTaken
<1> QED
  BY <1>1, <1>2 DEF ExactHand, ExactShelf, Carries

\* The rewritten relationship is the one that was found.
LEMMA ChangeExact ==
  ASSUME TypeInv, NEW t \in Tasks, LocalJob(t), Hand(t), ExactHand(t), ExactShelf(t),
         NEW p \in Packages, ChangeConstraint(t, p)
  PROVE  ExactHand(t)' /\ ExactShelf(t)'
<1> DEFINE l == task[t]
           id == l.file
<1>1. /\ pc[t] = "packages" /\ pc'[t] = "packages" /\ Carries(t) /\ SameWork(t)
      /\ Matches(id[2], p, l.have, l.want)
      /\ task'[t].have = [l.have EXCEPT ![p] = None]
      /\ task'[t].want = [l.want EXCEPT ![p] = None]
      /\ task'[t].batch = l.batch /\ SetConstraint(id, p, l.want[p])
      /\ UNCHANGED uses
  BY ChangeDoes
<1>2. ASSUME l.node # None PROVE ExactHand(t)' /\ ExactShelf(t)'
  <2>1. HandFile(t) /\ id \in FileIds /\ HandPackage(t, p)
    BY <1>1, <1>2 DEF Hand, HandFile, InHand
  <2>2. \A x \in FileIds : x # id => RelationsOf(x)' = RelationsOf(x)
    BY <1>1, <2>1, RelationsTouched
  <2>3. ExactShelf(t)'
    BY <1>1, <2>1, <2>2, ExactInHand, NoneAssumption DEF InHand
  <2>4. /\ l.have[p] # None /\ l.want[p] # None /\ l.want[p] = l.raw[id[2]][p]
        /\ l.batch[p] = None
    BY <1>1, <2>1, EmptyPackages DEF HandPackage, LocalJob, Matches
  <2>5. \A x \in Packages : /\ task'[t].have[x] = IF x = p THEN None ELSE l.have[x]
                            /\ task'[t].want[x] = IF x = p THEN None ELSE l.want[x]
    BY <1>1, TaskFacts DEF Contents
  <2>6. ASSUME NEW q \in requires', q.file = id
        PROVE  IF task'[t].have[q.pkg] # None THEN q.con = task'[t].have[q.pkg]
               ELSE /\ task'[t].want[q.pkg] = None /\ task'[t].batch[q.pkg] = None
                    /\ q.con = l.raw[id[2]][q.pkg]
    <3> DEFINE change(x) == IF x.file = id /\ x.pkg = p
                            THEN [x EXCEPT !.con = l.want[p]] ELSE x
    <3>1. PICK x \in requires : q = change(x)
      BY <1>1, <2>6 DEF SetConstraint, ChangeRelations
    <3>2. /\ q.pkg = x.pkg /\ q.file = x.file /\ x.pkg \in Packages
          /\ q.con = IF x.file = id /\ x.pkg = p THEN l.want[p] ELSE x.con
      BY <3>1 DEF TypeInv, TypeOK, GraphTypeOK, Relation
    <3> HIDE DEF change
    <3>3. CASE x.pkg = p
      BY <1>1, <2>4, <2>5, <2>6, <3>2, <3>3
    <3>4. CASE x.pkg # p
      <4>1. IF l.have[x.pkg] # None THEN x.con = l.have[x.pkg]
            ELSE /\ l.want[x.pkg] = None /\ l.batch[x.pkg] = None
                 /\ x.con = l.raw[id[2]][x.pkg]
        BY <1>1, <1>2, <2>6, <3>2 DEF ExactHand, InHand, RelationsOf
      <4> QED
        BY <1>1, <2>5, <2>6, <3>2, <3>4, <4>1
    <3> QED
      BY <3>3, <3>4
  <2>7. ExactHand(t)'
    BY <1>1, <2>6 DEF ExactHand, RelationsOf, Carries, SameWork
  <2> QED
    BY <2>3, <2>7
<1> QED
  BY <1>1, <1>2 DEF ExactHand, ExactShelf, Carries

\* The deleted relationship leaves those of other packages.
LEMMA RemoveExact ==
  ASSUME TypeInv, NEW t \in Tasks, Hand(t), ExactHand(t), ExactShelf(t),
         NEW p \in Packages, RemovePackage(t, p)
  PROVE  ExactHand(t)' /\ ExactShelf(t)'
<1> DEFINE l == task[t]
           id == l.file
<1>1. /\ pc[t] = "packages" /\ pc'[t] = "packages" /\ Carries(t) /\ SameWork(t)
      /\ task'[t].have = [l.have EXCEPT ![p] = None]
      /\ task'[t].want = l.want /\ task'[t].batch = l.batch
      /\ DeleteRelation(id, p) /\ UNCHANGED uses
  BY RemoveDoes
<1>2. ASSUME l.node # None PROVE ExactHand(t)' /\ ExactShelf(t)'
  <2>1. id \in FileIds
    BY <1>1, <1>2 DEF Hand, HandFile, InHand
  <2>2. \A x \in FileIds : x # id => RelationsOf(x)' = RelationsOf(x)
    BY <1>1, <2>1, RelationsTouched
  <2>3. ExactShelf(t)'
    BY <1>1, <2>1, <2>2, ExactInHand, NoneAssumption DEF InHand
  <2>4. \A x \in Packages : task'[t].have[x] = IF x = p THEN None ELSE l.have[x]
    BY <1>1, TaskFacts DEF Contents
  <2>5. \A q \in requires' : q.file = id =>
          q \in RelationsOf(id) /\ q.pkg \in Packages /\ q.pkg # p
    BY <1>1 DEF DeleteRelation, ChangeRelations, RelationsOf, TypeInv, TypeOK,
                GraphTypeOK, Relation
  <2>6. ExactHand(t)'
    BY <1>1, <1>2, <2>4, <2>5 DEF ExactHand, RelationsOf, Carries, SameWork,
       InHand
  <2> QED
    BY <2>3, <2>6
<1> QED
  BY <1>1, <1>2 DEF ExactHand, ExactShelf, Carries

\* A package that moves to the batch has no relationship yet.
LEMMA CheckExact ==
  ASSUME TypeInv, NEW t \in Tasks, Hand(t), ExactHand(t), ExactShelf(t),
         NEW p \in Packages, CheckPackage(t, p)
  PROVE  ExactHand(t)' /\ ExactShelf(t)'
<1> DEFINE l == task[t]
<1>1. /\ pc[t] = "packages" /\ Carries(t) /\ SameWork(t) /\ task'[t].have = l.have
      /\ l.have = Nothing /\ l.want[p] # None /\ UNCHANGED <<uses, requires>>
      /\ \/ /\ task'[t].batch = [l.batch EXCEPT ![p] = l.want[p]]
            /\ task'[t].want = [l.want EXCEPT ![p] = None]
         \/ SameMerge(t)
  BY CheckDoes DEF SameBelowAll
<1>2. ASSUME l.node # None PROVE ExactHand(t)' /\ ExactShelf(t)'
  <2>1. l.file # None
    BY <1>1, <1>2, NoneAssumption DEF Hand, HandFile, InHand
  <2>2. ExactShelf(t)'
    BY <1>1, <2>1, ExactInHand DEF InHand, RelationsOf
  <2>3. ASSUME NEW q \in RelationsOf(l.file)
        PROVE  /\ task'[t].have[q.pkg] = None /\ task'[t].want[q.pkg] = None
               /\ task'[t].batch[q.pkg] = None
               /\ q.con = l.raw[l.file[2]][q.pkg]
    <3>1. q.pkg \in Packages
      BY DEF RelationsOf, TypeInv, TypeOK, GraphTypeOK, Relation
    <3>2. l.have[q.pkg] = None
      BY <1>1, <3>1, EmptyPackages
    <3>3. /\ l.want[q.pkg] = None /\ l.batch[q.pkg] = None
          /\ q.con = l.raw[l.file[2]][q.pkg]
      BY <1>1, <1>2, <3>2 DEF ExactHand, InHand
    <3>4. q.pkg # p
      BY <1>1, <3>3
    <3>5. task'[t].want[q.pkg] = l.want[q.pkg] /\ task'[t].batch[q.pkg] = l.batch[q.pkg]
      BY <1>1, <3>1, <3>4, TaskFacts DEF SameMerge, Contents
    <3> QED
      BY <1>1, <3>2, <3>3, <3>5
  <2>4. ExactHand(t)'
    BY <1>1, <2>3 DEF ExactHand, RelationsOf, Carries, SameWork
  <2> QED
    BY <2>2, <2>4
<1> QED
  BY <1>1, <1>2 DEF ExactHand, ExactShelf, Carries

\* The shelf of a task that puts its file back.
LEMMA ExactReturned ==
  ASSUME Names, NEW t \in Tasks, HandFile(t), pc[t] \in InHand, task[t].node # None,
         ExactShelf(t), Carries(t), UNCHANGED uses,
         task'[t].existing = task[t].existing, task'[t].todo = task[t].todo,
         \A id \in FileIds : id # task[t].file => RelationsOf(id)' = RelationsOf(id),
         \A q \in requires' : q.file = task[t].file =>
           q.con = task[t].raw[task[t].file[2]][q.pkg]
  PROVE  ExactShelf(t)'
<1> SUFFICES ASSUME NEW f \in Files PROVE ExactShelfFile(t, f)'
  BY DEF ExactShelf
<1>1. ExactShelfFile(t, f)
  BY DEF ExactShelf, Begun, InHand
<1>2. PICK id \in FileIds : id = task[t].file
  BY DEF HandFile
<1>3. FilesNamed(task[t].node, f)' = FilesNamed(task[t].node, f)
  BY DEF FilesNamed, Carries
<1>4. CASE f = id[2]
  <2>1. ASSUME NEW x \in FilesNamed(task[t].node, f) PROVE x = id
    BY <1>2, <1>4 DEF FilesNamed, HandFile, Names
  <2>2. task[t].raw[f] # None
    BY <1>2, <1>4 DEF HandFile
  <2>3. Full(id, task[t].raw[f])'
    BY <1>2, <1>4, <2>2 DEF Full, RelationsOf, Carries
  <2> QED
    BY <1>3, <2>1, <2>3 DEF ExactShelfFile, Full
<1>5. CASE f # id[2]
  <2>1. \A x \in FilesNamed(task[t].node, f) : RelationsOf(x)' = RelationsOf(x)
    BY <1>2, <1>5 DEF FilesNamed
  <2>2. ~Holding(t, f)
    BY <1>2, <1>5 DEF Holding
  <2> QED
    BY <1>1, <1>3, <2>1, <2>2, ExactAround
<1> QED
  BY <1>4, <1>5

\* The new relationships are those that were found.
LEMMA RelateExact ==
  ASSUME TypeInv, Names, NEW t \in Tasks, Hand(t), ExactHand(t), ExactShelf(t),
         RelatePackages(t)
  PROVE  ExactHand(t)' /\ ExactShelf(t)'
<1> DEFINE l == task[t]
           id == l.file
           new(p) == [file |-> id, pkg |-> p, con |-> l.batch[p], by |-> t]
<1>1. /\ pc[t] = "packages" /\ pc'[t] = IF Created(t) THEN "files" ELSE "stamp"
      /\ l.have = Nothing /\ l.want = Nothing
      /\ task'[t].file = IF Created(t) THEN None ELSE id
      /\ task'[t].batch = Nothing /\ Carries(t)
      /\ task'[t].existing = l.existing /\ task'[t].todo = l.todo
      /\ task'[t].have = l.have /\ task'[t].want = l.want
      /\ RelateAll(t, id, l.batch) /\ UNCHANGED uses
  BY RelateDoes
<1>2. ASSUME l.node # None PROVE ExactHand(t)' /\ ExactShelf(t)'
  <2>1. HandFile(t) /\ \A x \in Packages : HandPackage(t, x)
    BY <1>1, <1>2 DEF Hand, InHand
  <2>2. id \in FileIds /\ FileExists(id)
    BY <1>1, <1>2, <2>1, NoneAssumption DEF HandFile, InHand, FileExists
  <2>3. \A x \in FileIds : x # id => RelationsOf(x)' = RelationsOf(x)
    BY <1>1, <2>2, RelationsTouched
  <2>4. ASSUME NEW q \in requires', q.file = id
        PROVE  q.pkg \in Packages /\ q.con = l.raw[id[2]][q.pkg]
    <3>1. CASE q \in requires
      <4>1. q.pkg \in Packages
        BY <3>1 DEF TypeInv, TypeOK, GraphTypeOK, Relation
      <4> QED
        BY <1>1, <1>2, <2>4, <3>1, <4>1, EmptyPackages
           DEF ExactHand, InHand, RelationsOf
    <3>2. CASE q \notin requires
      <4>1. PICK p \in packages : l.batch[p] # None /\ q = new(p)
        BY <1>1, <2>2, <3>2 DEF RelateAll, ChangeRelations
      <4>2. q.pkg = p /\ q.con = l.batch[p] /\ p \in Packages
        BY <4>1 DEF TypeInv, TypeOK, GraphTypeOK
      <4> QED
        BY <2>1, <4>1, <4>2 DEF HandPackage
    <3> QED
      BY <3>1, <3>2
  <2>5. CASE Created(t)
    <3>1. ExactShelf(t)'
      BY <1>1, <1>2, <2>1, <2>3, <2>4, ExactReturned DEF InHand
    <3> QED
      BY <1>1, <2>5, <3>1 DEF ExactHand, InHand
  <2>6. CASE ~Created(t)
    <3>1. SameWork(t) /\ id # None
      BY <1>1, <2>2, <2>6, NoneAssumption DEF SameWork
    <3>2. ExactShelf(t)'
      BY <1>1, <2>3, <3>1, ExactInHand DEF InHand
    <3>3. ExactHand(t)'
      BY <1>1, <2>4, <2>6, EmptyPackages DEF ExactHand, RelationsOf, Carries
    <3> QED
      BY <3>2, <3>3
  <2> QED
    BY <2>5, <2>6
<1> QED
  BY <1>1, <1>2 DEF ExactHand, ExactShelf, Carries

\* The stamp changes no relationship.
LEMMA StampExact ==
  ASSUME TypeInv, Names, NEW t \in Tasks, LocalJob(t), Hand(t), ExactHand(t),
         ExactShelf(t), StampFile(t)
  PROVE  ExactHand(t)' /\ ExactShelf(t)'
<1> DEFINE l == task[t]
<1>1. /\ pc[t] = "stamp" /\ pc'[t] = "files" /\ Carries(t)
      /\ task'[t].existing = l.existing /\ task'[t].todo = l.todo
      /\ UNCHANGED <<uses, requires>>
  BY StampDoes
<1>2. ASSUME l.node # None PROVE ExactHand(t)' /\ ExactShelf(t)'
  <2>1. HandFile(t) /\ l.have = Nothing
    BY <1>1, <1>2 DEF Hand, InHand, LocalJob
  <2>2. ASSUME NEW q \in requires', q.file = l.file
        PROVE  q.con = l.raw[l.file[2]][q.pkg]
    <3>1. q \in RelationsOf(l.file) /\ q.pkg \in Packages
      BY <1>1, <2>2 DEF RelationsOf, TypeInv, TypeOK, GraphTypeOK, Relation
    <3> QED
      BY <1>1, <1>2, <2>1, <3>1, EmptyPackages DEF ExactHand, InHand
  <2>3. ExactShelf(t)'
    BY <1>1, <1>2, <2>1, <2>2, ExactReturned DEF InHand, RelationsOf
  <2> QED
    BY <1>1, <2>3 DEF ExactHand, InHand
<1> QED
  BY <1>1, <1>2 DEF ExactHand, ExactShelf, Carries

\* Nor does the moment of the repository.
LEMMA MomentExact ==
  ASSUME TypeInv, NEW t \in Tasks, ExactShelf(t), UpdateMoment(t)
  PROVE  ExactHand(t)' /\ ExactShelf(t)'
<1>1. /\ pc[t] = "files" /\ pc'[t] = "finish" /\ UNCHANGED task
      /\ UNCHANGED <<uses, requires>>
  BY MomentDoes DEF SameBelowAll
<1> QED
  BY <1>1 DEF ExactHand, InHand, ExactShelf, ExactShelfFile, Begun, Holding,
              FilesNamed, Full, RelationsOf

\* When no file is left, all are exact.
LEMMA CompleteExact ==
  ASSUME TypeInv, NEW t \in Tasks, LocalJob(t), ExactShelf(t), SetComplete(t),
         task[t].node # None
  PROVE  ExactAt(task[t].node)'
<1> DEFINE l == task[t]
<1>1. /\ pc[t] \in {"files", "finish"} /\ UNCHANGED task
      /\ pc[t] = "files" => l.existing = NoFiles /\ l.todo = {}
      /\ UNCHANGED <<uses, requires>>
      /\ latest'[l.node] = l.raw
  BY CompleteDoes, TaskFacts DEF SameBelowAll
<1>2. l.existing = NoFiles /\ l.todo = {} /\ l.file = None
  BY <1>1 DEF LocalJob
<1>3. \A f \in Files : \A id \in FilesNamed(l.node, f) : Full(id, l.raw[f])
  BY <1>1, <1>2, EmptyPackages DEF ExactShelf, ExactShelfFile, Begun, Holding
<1> QED
  BY <1>1, <1>3 DEF ExactAt, FilesNamed, Full, RelationsOf

\* So each step of a task keeps its own part of the invariant.
LEMMA OwnExact ==
  ASSUME TypeInv, LockInv, CatInv, Jobs, MergeInv, ExactInv, NEW t \in Tasks,
         Handle(t) \/ Download(t) \/ Persist(t) \/ Fail(t)
  PROVE  ExactHand(t)' /\ ExactShelf(t)'
<1>1. /\ LocalJob(t) /\ Hand(t) /\ Shelf(t) /\ ExactHand(t) /\ ExactShelf(t)
      /\ Names /\ Functional /\ Alive /\ NotYet /\ pc[t] # "xadd"
  BY DEF Jobs, MergeInv, ExactInv, Known
<1>2. CASE pc'[t] \notin Begun
  BY <1>2 DEF ExactHand, ExactShelf, InHand, Begun
<1>3. CASE Handle(t) \/ Download(t) \/ Fail(t)
  <2>1. pc'[t] \notin Begun
    BY <1>3, HandleDoes, FailDoes, StartDoes, ListTreeDoes, OpenDoes, GoneDoes,
       WriteDoes, AnalyzeDoes, FetchDoes, SkipDoes DEF Download, Begun
  <2> QED
    BY <1>2, <2>1
<1>4. CASE MarkIncomplete(t) \/ SetComplete(t) \/ OwnRepository(t)
  <2>1. pc'[t] \notin Begun
    BY <1>4, MarkDoes, CompleteDoes, OwnDoes DEF Begun
  <2> QED
    BY <1>2, <2>1
<1>5. CASE AddMessage(t)
  BY <1>1, <1>5, AddMessageDoes
<1>6. CASE \/ CreateRepository(t) \/ ListFiles(t) \/ RelatePackages(t)
           \/ StampFile(t) \/ UpdateMoment(t)
  BY <1>1, <1>6, CreateExact, ListExact, RelateExact, StampExact, MomentExact
<1>7. CASE \E f \in Files :
             DropFile(t, f) \/ UpdateFile(t, f) \/ CreateRequirementFile(t, f)
  BY <1>1, <1>7, DropExact, UpdateExact, NewFileExact
<1>8. CASE \E p \in Packages :
             ChangeConstraint(t, p) \/ RemovePackage(t, p) \/ CheckPackage(t, p)
  BY <1>1, <1>8, ChangeExact, RemoveExact, CheckExact
<1> QED
  BY <1>3, <1>4, <1>5, <1>6, <1>7, <1>8 DEF Persist

\* It disturbs no other task and no complete repository.
LEMMA StepExact ==
  ASSUME TypeInv, LockInv, CatInv, Jobs, MergeInv, ExactInv, NEW t \in Tasks,
         Handle(t) \/ Download(t) \/ Persist(t) \/ Fail(t)
  PROVE  ExactInv'
<1>1. Known' /\ NotYet' /\ Names' /\ Functional' /\ Alive'
  BY KnownStep, NamesStep, RelationsStep DEF ExactInv, MergeInv
<1>2. ASSUME NEW n \in Tasks, pc[t] \in Writing => task[t].node # n
      PROVE  Alone(n)
  BY <1>2, StepAlone DEF MergeInv
<1>3. ASSUME NEW u \in Tasks PROVE ExactHand(u)' /\ ExactShelf(u)'
  <2>1. CASE u = t
    BY <2>1, OwnExact
  <2>2. CASE u # t
    <3>1. pc'[u] = pc[u] /\ task'[u] = task[u]
      BY <2>2, StepOthers DEF Others
    <3>2. CASE pc[u] \notin Begun
      BY <3>1, <3>2 DEF ExactHand, ExactShelf, InHand, Begun
    <3>3. CASE pc[u] \in Begun
      <4>1. task[u].node # None => Alone(task[u].node)
        BY <1>2, <2>2, <3>3, TaskFacts DEF LockInv, WritersExclusive, Begun,
           Writing
      <4> QED
        BY <3>1, <4>1, AloneExact DEF MergeInv, ExactInv
    <3> QED
      BY <3>2, <3>3
  <2> QED
    BY <2>1, <2>2
<1>4. ASSUME NEW n \in Tasks PROVE ExactAt(n)'
  <2>1. CASE SetComplete(t) /\ task[t].node = n
    <3>1. LocalJob(t) /\ ExactShelf(t) /\ SetComplete(t) /\ task[t].node # None
      BY <2>1, NoneAssumption DEF Jobs, ExactInv
    <3>2. ExactAt(task[t].node)'
      BY <3>1, CompleteExact
    <3>3. task'[t].node = task[t].node
      BY <2>1, CompleteDoes
    <3> QED
      BY <2>1, <3>2, <3>3
  <2>2. CASE ~(SetComplete(t) /\ task[t].node = n)
    <3>1. CASE ~(repository'[n] # None /\ repository'[n].complete)
      BY <3>1 DEF ExactAt
    <3>2. CASE repository'[n] # None /\ repository'[n].complete
      <4>1. repository[n] # None /\ repository[n].complete /\ latest'[n] = latest[n]
        BY <2>2, <3>2, CompletedBefore
      <4>2. pc[t] \in Writing => task[t].node # n
        BY <4>1, NoneAssumption DEF LockInv, WritersLock
      <4> QED
        BY <1>2, <4>1, <4>2, AloneAt DEF ExactInv
    <3> QED
      BY <3>1, <3>2
  <2> QED
    BY <2>1, <2>2
<1> QED
  BY <1>1, <1>3, <1>4 DEF ExactInv

\* The invariant is inductive: no message is ever there to be consumed.
LEMMA ExactNext ==
  /\ TypeInv /\ LockInv /\ CatInv /\ Jobs /\ MergeInv
  /\ ExactInv /\ [Next]_vars
  => ExactInv'
<1> SUFFICES ASSUME TypeInv, LockInv, CatInv, Jobs, MergeInv, ExactInv, [Next]_vars
             PROVE  ExactInv'
  OBVIOUS
<1>1. ASSUME UNCHANGED <<graphVars, stream, pc, task, latest>> PROVE ExactInv'
  <2>1. \A n : Alone(n)
    BY <1>1, SameAlone DEF graphVars, SameBelowAll
  <2>2. UNCHANGED <<repository, uses, requires, packages>>
    BY <1>1 DEF graphVars
  <2>3. Known' /\ NotYet' /\ Names' /\ Functional' /\ Alive'
    BY <1>1, <2>2 DEF ExactInv, Known, NotYet, Names, Functional, Alive
  <2>4. \A u \in Tasks : ExactHand(u)' /\ ExactShelf(u)'
    BY <1>1, <2>1, AloneExact DEF MergeInv, ExactInv
  <2>5. \A n \in Tasks : ExactAt(n)'
    BY <1>1, <2>1, <2>2, AloneAt DEF ExactInv
  <2> QED
    BY <2>3, <2>4, <2>5 DEF ExactInv
<1>2. \A m \in stream : ~Extract(m)
  BY DEF ExactInv, Known
<1> QED
  BY <1>1, <1>2, StepExact DEF Next, Commit, vars

\* Everything shown so far holds in every reachable state.
LEMMA ExactAlways ==
  ~Racing /\ InitialPackages = Packages
    => (Spec => [](TypeInv /\ LockInv /\ CatInv /\ Jobs /\ MergeInv /\ ExactInv))
<1> SUFFICES ASSUME ~Racing, InitialPackages = Packages
             PROVE  Spec => [](TypeInv /\ LockInv /\ CatInv /\ Jobs /\ MergeInv
                               /\ ExactInv)
  OBVIOUS
<1>1. Spec => [](TypeInv /\ LockInv /\ CatInv /\ Jobs)
  BY SerialInv
<1>2. Init => MergeInv /\ ExactInv
  BY InitMerge, InitExact
<1>3. /\ TypeInv /\ LockInv /\ CatInv /\ Jobs /\ MergeInv /\ ExactInv /\ [Next]_vars
      => MergeInv' /\ ExactInv'
  BY MergeNext, ExactNext
<1> QED
  BY <1>1, <1>2, <1>3, PTL DEF Spec

\* As many relationships as packages, and as many pairs.
LEMMA OneForEach ==
  ASSUME IsFiniteSet(Packages), NEW content, NEW rels,
         \A q \in rels : q.pkg \in Packages /\ content[q.pkg] # None,
         \A p \in Packages : content[p] # None => \E q \in rels : q.pkg = p,
         \A x, y \in rels : x.pkg = y.pkg => x = y
  PROVE  Cardinality(rels) = Cardinality(Pairs(content))
<1> DEFINE U == {x \in Packages : content[x] # None}
           F == [q \in rels |-> q.pkg]
           G == [p \in U |-> <<p, content[p]>>]
<1>1. IsFiniteSet(U)
  BY FS_Subset
<1>2. ExistsBijection(rels, U)
  <2>1. F \in [rels -> U]
    OBVIOUS
  <2>2. F \in Injection(rels, U)
    BY <2>1 DEF Injection, IsInjective
  <2>3. F \in Surjection(rels, U)
    BY <2>1 DEF Surjection
  <2> QED
    BY <2>2, <2>3 DEF ExistsBijection, Bijection
<1>3. ExistsBijection(U, rels)
  BY <1>2, Fun_ExistsBijSymmetric
<1>4. ExistsBijection(U, Pairs(content))
  <2>1. G \in [U -> Pairs(content)]
    BY DEF Pairs
  <2>2. G \in Injection(U, Pairs(content))
    BY <2>1 DEF Injection, IsInjective
  <2>3. G \in Surjection(U, Pairs(content))
    BY <2>1 DEF Surjection, Pairs
  <2> QED
    BY <2>2, <2>3 DEF ExistsBijection, Bijection
<1>5. Cardinality(rels) = Cardinality(U)
  BY <1>1, <1>3, FS_Bijection
<1>6. Cardinality(Pairs(content)) = Cardinality(U)
  BY <1>1, <1>4, FS_Bijection
<1> QED
  BY <1>5, <1>6

(* Requests one at a time, when the graph knows every package: whatever     *)
(* fails, below a complete repository is exactly what its last analysis    *)
(* found, each dependency once.                                            *)
THEOREM SerialExact ==
  ~Racing /\ InitialPackages = Packages /\ IsFiniteSet(Packages)
    => (Spec => []RelationsExact)
<1> SUFFICES ASSUME ~Racing, InitialPackages = Packages, IsFiniteSet(Packages)
             PROVE  Spec => []RelationsExact
  OBVIOUS
<1>1. TypeInv /\ MergeInv /\ ExactInv => RelationsExact
  <2> SUFFICES ASSUME TypeInv, MergeInv, ExactInv, NEW n \in Tasks, NEW f \in Files,
                      repository[n] # None, repository[n].complete
               PROVE  LET rels == {q \in requires : q.file \in FilesNamed(n, f)}
                          wanted == IF latest[n][f] = None THEN {}
                                    ELSE Pairs(latest[n][f])
                      IN /\ {<<q.pkg, q.con>> : q \in rels} = wanted
                         /\ Cardinality(rels) = Cardinality(wanted)
    BY DEF RelationsExact
  <2> DEFINE rels == {q \in requires : q.file \in FilesNamed(n, f)}
             content == latest[n][f]
  <2>1. \A q \in rels : /\ content # None /\ q.con = content[q.pkg]
                        /\ q.pkg \in Packages /\ q.con # None
    <3>1. \A q \in rels : content # None /\ q.con = content[q.pkg]
      BY DEF ExactInv, ExactAt, Full, RelationsOf
    <3>2. \A q \in rels : q.pkg \in Packages /\ q.con # None
      BY NoneAssumption DEF TypeInv, TypeOK, GraphTypeOK, Relation
    <3> QED
      BY <3>1, <3>2
  <2>2. CASE content = None
    <3>1. rels = {}
      BY <2>1, <2>2
    <3>2. {<<q.pkg, q.con>> : q \in rels} = {}
      BY <3>1
    <3> QED
      BY <2>2, <3>1, <3>2
  <2>3. CASE content # None
    <3>1. PICK id \in FilesNamed(n, f) : Holds(id, content)
      BY <2>3 DEF MergeInv, FinishedAt
    <3>2. \A p \in Packages : content[p] # None => Relates(id, p, content[p])
      BY <3>1 DEF Holds, Covered, Queued, ExactInv, Known
    <3>3. \A p \in Packages : content[p] # None =>
            \E q \in rels : q.pkg = p /\ q.con = content[p]
      BY <3>1, <3>2 DEF Relates
    <3>4. \A x, y \in rels : x.pkg = y.pkg => x = y
      BY NoneAssumption DEF FilesNamed, ExactInv, Names, Functional
    <3> HIDE DEF rels, content
    <3>5. {<<q.pkg, q.con>> : q \in rels} = Pairs(content)
      BY <2>1, <3>3 DEF Pairs
    <3>6. Cardinality(rels) = Cardinality(Pairs(content))
      BY <2>1, <3>3, <3>4, OneForEach
    <3> QED
      BY <2>3, <3>5, <3>6 DEF rels, content
  <2> QED
    BY <2>2, <2>3
<1>2. Spec => [](TypeInv /\ LockInv /\ CatInv /\ Jobs /\ MergeInv /\ ExactInv)
  BY ExactAlways
<1> QED
  BY <1>1, <1>2, PTL

-----------------------------------------------------------------------------
(* Which files keep a moment older than their relationships.  In a          *)
(* complete repository only files that still have relationships do, so an  *)
(* update finds each of them, deletes it or stamps it.                     *)

Dirty(n) == {id \in dirty : uses[id] = n}

DirtyListed(n) == \A id \in Dirty(n) : RelationsOf(id) # {}

DirtyAt(n) == repository[n] # None /\ repository[n].complete => DirtyListed(n)

\* Where a task has a file whose moment is behind: in hand to be stamped,
\* among those it has still to look at, or among those it created.
DirtyWork(t) ==
  LET l == task[t] IN
  pc[t] \in Begun /\ l.node # None =>
    /\ \A f \in Files : l.existing[f] # None => l.existing[f][1] # t
    /\ pc[t] \in InHand /\ l.file[1] = t => l.have = Nothing
    /\ \A id \in Dirty(l.node) :
         \/ pc[t] \in InHand /\ id = l.file /\ id[1] # t
         \/ RelationsOf(id) # {} /\ (id[1] = t \/ l.existing[id[2]] = id)

DirtyTask(t) ==
  /\ pc[t] = "list" => DirtyListed(task[t].node)
  /\ DirtyWork(t)

DirtyInv ==
  /\ \A id \in dirty : uses[id] # None
  /\ \A n \in Tasks : DirtyAt(n)
  /\ \A t \in Tasks : DirtyTask(t)

\* No file is behind.
LEMMA InitDirty == Init => DirtyInv
BY DEF Init, GraphInit, DirtyInv, DirtyAt, DirtyTask, DirtyWork, Begun

\* Only a file of the graph is behind.
LEMMA DirtyAlive ==
  ASSUME TypeInv, Alive, NEW t \in Tasks,
         \A id \in dirty : uses[id] # None,
         Handle(t) \/ Download(t) \/ Persist(t) \/ Fail(t)
  PROVE  \A id \in dirty' : uses'[id] # None
<1>0. \A q \in requires : q.file \in FileIds
  BY DEF TypeInv, TypeOK, GraphTypeOK, Relation
<1>1. CASE UNCHANGED <<uses, dirty>>
  BY <1>1
<1>2. CASE Handle(t) \/ Download(t) \/ Fail(t)
  BY <1>1, <1>2, HandleDoes, FailDoes, StartDoes, ListTreeDoes, OpenDoes,
     GoneDoes,
     WriteDoes, AnalyzeDoes, FetchDoes, SkipDoes DEF Download, SameBelowAll
<1>3. CASE \/ CreateRepository(t) \/ MarkIncomplete(t) \/ ListFiles(t)
           \/ UpdateMoment(t) \/ SetComplete(t) \/ OwnRepository(t) \/ AddMessage(t)
           \/ \E f \in Files : UpdateFile(t, f)
           \/ \E p \in Packages : CheckPackage(t, p)
  BY <1>1, <1>3, CreateDoes, MarkDoes, ListDoes, MomentDoes, CompleteDoes,
     OwnDoes, UpdateDoes, CheckDoes, AddMessageDoes DEF SameBelowAll
<1>4. CASE StampFile(t)
  BY <1>4, StampDoes
<1>5. CASE RelatePackages(t)
  <2>1. RelateAll(t, task[t].file, task[t].batch) /\ UNCHANGED uses
    BY <1>5, RelateDoes
  <2> QED
    BY <2>1 DEF RelateAll, ChangeRelations, FileExists
<1>6. ASSUME NEW p \in Packages, ChangeConstraint(t, p)
      PROVE  \A id \in dirty' : uses'[id] # None
  <2> DEFINE id == task[t].file
             c == task[t].want[p]
             change(q) == IF q.file = id /\ q.pkg = p THEN [q EXCEPT !.con = c] ELSE q
  <2>1. SetConstraint(id, p, c) /\ UNCHANGED uses
    BY <1>6, ChangeDoes
  <2>2. CASE \E q \in requires : q.file = id
    BY <2>1, <2>2 DEF SetConstraint, ChangeRelations, Alive
  <2>3. CASE \A q \in requires : q.file # id
    <3>1. \A q \in requires : change(q) = q
      BY <2>3
    <3>2. {change(q) : q \in requires} = requires
      BY <3>1
    <3> QED
      BY <2>1, <3>2 DEF SetConstraint, ChangeRelations
  <2> QED
    BY <2>2, <2>3
<1>7. ASSUME NEW p \in Packages, RemovePackage(t, p)
      PROVE  \A id \in dirty' : uses'[id] # None
  <2> DEFINE id == task[t].file
  <2>1. DeleteRelation(id, p) /\ UNCHANGED uses
    BY <1>7, RemoveDoes
  <2>2. CASE \E q \in requires : q.file = id
    BY <2>1, <2>2 DEF DeleteRelation, ChangeRelations, Alive
  <2>3. CASE \A q \in requires : q.file # id
    <3>1. {q \in requires : q.file # id \/ q.pkg # p} = requires
      BY <2>3
    <3> QED
      BY <2>1, <3>1 DEF DeleteRelation, ChangeRelations
  <2> QED
    BY <2>2, <2>3
<1>8. ASSUME NEW f \in Files, DropFile(t, f)
      PROVE  \A id \in dirty' : uses'[id] # None
  BY <1>8, DropDoes DEF DeleteFile, TypeInv, TypeOK, GraphTypeOK
<1>9. ASSUME NEW f \in Files, CreateRequirementFile(t, f)
      PROVE  \A id \in dirty' : uses'[id] # None
  <2>1. UNCHANGED dirty /\ CreateFile(<<t, f>>, task[t].node)
    BY <1>9, NewFileDoes
  <2>2. \A id \in FileIds : uses[id] # None => uses'[id] # None
    BY <2>1 DEF CreateFile, NodeExists, TypeInv, TypeOK, GraphTypeOK
  <2> QED
    BY <2>1, <2>2 DEF TypeInv, TypeOK, GraphTypeOK
<1> QED
  BY <1>2, <1>3, <1>4, <1>5, <1>6, <1>7, <1>8, <1>9 DEF Persist

(* What does not move.                                                     *)
LEMMA AloneListed ==
  ASSUME TypeInv, TypeInv', NEW n, Alone(n), DirtyListed(n)
  PROVE  /\ \A id \in Dirty(n)' : id \in Dirty(n) /\ RelationsOf(id)' = RelationsOf(id)
         /\ DirtyListed(n)'
<1>1. \A id \in Dirty(n)' : id \in Dirty(n) /\ RelationsOf(id)' = RelationsOf(id)
  BY DEF Alone, Dirty, TypeInv, TypeOK, GraphTypeOK
<1> QED
  BY <1>1 DEF DirtyListed

\* A task whose node is left alone has the same files behind.
LEMMA AloneWork ==
  ASSUME TypeInv, TypeInv', NEW u \in Tasks, pc'[u] = pc[u], task'[u] = task[u],
         DirtyWork(u), task[u].node # None => Alone(task[u].node)
  PROVE  DirtyWork(u)'
<1> SUFFICES ASSUME pc[u] \in Begun, task[u].node # None PROVE DirtyWork(u)'
  BY DEF DirtyWork
<1>1. \A id \in Dirty(task[u].node)' :
        id \in Dirty(task[u].node) /\ RelationsOf(id)' = RelationsOf(id)
  BY DEF Alone, Dirty, TypeInv, TypeOK, GraphTypeOK
<1> QED
  BY <1>1 DEF DirtyWork

\* The same for a step of the task itself that leaves the graph alone.
LEMMA SameDirty ==
  ASSUME UNCHANGED <<uses, requires, dirty>>
  PROVE  \A n : Dirty(n)' = Dirty(n)
                /\ \A id : RelationsOf(id)' = RelationsOf(id)
BY DEF Dirty, RelationsOf

(* A new repository has no files.                                          *)
LEMMA CreateDirty ==
  ASSUME TypeInv, LockInv, CatInv, NEW t \in Tasks, LocalJob(t),
         CreateRepository(t)
  PROVE  DirtyTask(t)'
<1>1. /\ pc[t] = "create" /\ pc'[t] = "files" /\ UNCHANGED <<uses, requires, dirty>>
      /\ UserOf[t] \notin KnownUsers => UNCHANGED task
      /\ task'[t].existing = task[t].existing
  BY CreateDoes DEF SameBelowAll, SameWork
<1>2. task[t].node = None
  BY <1>1 DEF LockInv, RecordCurrent, Accepted, Window
<1>3. CASE UserOf[t] \notin KnownUsers
  BY <1>1, <1>2, <1>3 DEF DirtyTask, DirtyWork
<1>4. CASE UserOf[t] \in KnownUsers
  <2>1. task'[t].node = t /\ repository[t] = None
    BY <1>4, NewNode, LocalsType DEF Locals
  <2>2. \A id \in FileIds : uses[id] # t
    BY <2>1, NoneAssumption DEF CatInv, FilesBelong, NodesOf
  <2>3. dirty' \subseteq FileIds
    BY <1>1 DEF TypeInv, TypeOK, GraphTypeOK
  <2>4. Dirty(task[t].node)' = {}
    BY <1>1, <2>1, <2>2, <2>3 DEF Dirty
  <2>5. task'[t].existing = NoFiles
    BY <1>1 DEF LocalJob, Early, Accepted, Window
  <2>6. \A f \in Files : task'[t].existing[f] = None
    BY <2>5, EmptyPackages
  <2> QED
    BY <1>1, <2>4, <2>6 DEF DirtyTask, DirtyWork, InHand
<1> QED
  BY <1>3, <1>4

(* A repository is complete when an update begins.                         *)
LEMMA MarkDirty ==
  ASSUME TypeInv, LockInv, CatInv, NEW t \in Tasks, DirtyInv, MarkIncomplete(t)
  PROVE  DirtyTask(t)'
<1>1. /\ pc[t] = "mark" /\ pc'[t] = "list" /\ UNCHANGED task
      /\ UNCHANGED <<uses, requires, dirty>>
  BY MarkDoes DEF SameBelowAll
<1>2. task[t].node # None
  BY <1>1 DEF LockInv, RecordCurrent, Accepted, Window
<1>3. task[t].node \in Tasks /\ repository[task[t].node] # None
  BY <1>2, TaskFacts DEF LockInv, NodesTrue
<1>4. repository[task[t].node].complete
  BY <1>1, <1>2 DEF CatInv, MomentsKnown, Current, Accepted, Window
<1>5. DirtyListed(task[t].node)
  BY <1>3, <1>4 DEF DirtyInv, DirtyAt
<1>6. DirtyListed(task[t].node)'
  BY <1>1, <1>5, SameDirty DEF DirtyListed
<1> QED
  BY <1>1, <1>6 DEF DirtyTask, DirtyWork, Begun

(* An update reads every file there is, none of which it created.          *)
LEMMA ListDirty ==
  ASSUME TypeInv, NotYet, Names, NEW t \in Tasks, LocalJob(t), DirtyTask(t),
         ListFiles(t)
  PROVE  DirtyTask(t)'
<1> DEFINE l == task[t]
<1>1. /\ pc[t] = "list" /\ pc'[t] = "files" /\ Carries(t)
      /\ task'[t].existing \in FilesRead(l.node)
      /\ UNCHANGED <<uses, requires, dirty>>
  BY ListDoes DEF SameBelowAll
<1>2. task'[t].node = l.node /\ DirtyListed(l.node)
  BY <1>1 DEF Carries, DirtyTask
<1>3. ASSUME l.node # None PROVE DirtyTask(t)'
  <2>1. ASSUME NEW f \in Files, task'[t].existing[f] # None
        PROVE  task'[t].existing[f][1] # t
    <3>1. PICK id \in FileIds : id = task'[t].existing[f] /\ uses[id] = l.node /\ id[2] = f
      BY <1>1, <2>1 DEF FilesRead, FilesNamed
    <3>2. uses[<<t, f>>] = None
      BY <1>1 DEF NotYet, Early
    <3>3. id[1] # t
      BY <1>3, <3>1, <3>2 DEF FileIds
    <3> QED
      BY <3>1, <3>3
  <2>2. ASSUME NEW id \in Dirty(l.node)
        PROVE  RelationsOf(id) # {} /\ task'[t].existing[id[2]] = id
    <3>1. id \in FileIds /\ uses[id] = l.node /\ id[2] \in Files
      BY DEF Dirty, FileIds, TypeInv, TypeOK, GraphTypeOK
    <3>2. id \in FilesNamed(l.node, id[2])
      BY <3>1 DEF FilesNamed
    <3>3. task'[t].existing[id[2]] \in FilesNamed(l.node, id[2])
      BY <1>1, <3>1, <3>2 DEF FilesRead
    <3>4. task'[t].existing[id[2]] = id
      BY <1>3, <3>1, <3>2, <3>3 DEF Names, FilesNamed
    <3> QED
      BY <1>2, <3>4 DEF DirtyListed
  <2> QED
    BY <1>1, <1>2, <2>1, <2>2, SameDirty DEF DirtyTask, DirtyWork, InHand
<1> QED
  BY <1>1, <1>2, <1>3 DEF DirtyTask, DirtyWork

\* The file that is deleted takes its mark along.
LEMMA DropDirty ==
  ASSUME TypeInv, NEW t \in Tasks, DirtyTask(t), NEW f \in Files, DropFile(t, f)
  PROVE  DirtyTask(t)'
<1> DEFINE l == task[t]
<1>1. /\ pc[t] = "files" /\ pc'[t] = "files" /\ Carries(t)
      /\ task'[t].existing = [l.existing EXCEPT ![f] = None]
      /\ DeleteFile(l.node, f)
  BY DropDoes
<1>2. \A g \in Files : task'[t].existing[g] = IF g = f THEN None ELSE l.existing[g]
  BY <1>1, TaskFacts
<1>3. ASSUME l.node # None PROVE DirtyWork(t)'
  <2>1. ASSUME NEW id \in dirty', uses'[id] = l.node
        PROVE  /\ RelationsOf(id)' # {}
               /\ id[1] = t \/ task'[t].existing[id[2]] = id
    <3>1. id \in FileIds /\ id[2] \in Files /\ id \in dirty \ Doomed(l.node, f)
      BY <1>1 DEF DeleteFile, FileIds, TypeInv, TypeOK, GraphTypeOK
    <3>2. uses[id] = l.node
      BY <1>1, <2>1, <3>1 DEF DeleteFile
    <3>3. RelationsOf(id) # {} /\ (id[1] = t \/ l.existing[id[2]] = id)
      BY <1>1, <1>3, <3>1, <3>2 DEF DirtyTask, DirtyWork, Dirty, Begun, InHand
    <3>4. id[2] # f
      BY <3>1, <3>2, <3>3 DEF Doomed, FilesNamed
    <3>5. RelationsOf(id)' = RelationsOf(id)
      <4>1. requires' = {q \in requires : q.file \notin Doomed(l.node, f)}
        BY <1>1 DEF DeleteFile
      <4> QED
        BY <3>1, <4>1 DEF RelationsOf
    <3> QED
      BY <1>2, <3>1, <3>3, <3>4, <3>5
  <2>2. \A g \in Files : task'[t].existing[g] # None => task'[t].existing[g][1] # t
    BY <1>1, <1>2, <1>3 DEF DirtyTask, DirtyWork, Begun
  <2>3. task'[t].node = l.node
    BY <1>1 DEF Carries
  <2>4. \A id \in Dirty(task[t].node)' :
          RelationsOf(id)' # {} /\ (id[1] = t \/ task'[t].existing[id[2]] = id)
    BY <2>1, <2>3 DEF Dirty
  <2> QED
    BY <1>1, <2>2, <2>4 DEF DirtyWork, InHand
<1> QED
  BY <1>1, <1>3 DEF DirtyTask, DirtyWork, Carries

\* A file is taken in hand.
LEMMA UpdateDirty ==
  ASSUME TypeInv, NEW t \in Tasks, DirtyTask(t), NEW f \in Files, UpdateFile(t, f)
  PROVE  DirtyTask(t)'
<1> DEFINE l == task[t]
<1>1. /\ pc[t] = "files" /\ pc'[t] = "packages" /\ task'[t].node = l.node
      /\ l.existing[f] # None /\ task'[t].file = l.existing[f]
      /\ task'[t].existing = [l.existing EXCEPT ![f] = None]
      /\ UNCHANGED <<uses, requires, dirty>>
  BY UpdateDoes DEF SameBelowAll, Carries
<1>2. \A g \in Files : task'[t].existing[g] = IF g = f THEN None ELSE l.existing[g]
  BY <1>1, TaskFacts
<1>3. ASSUME l.node # None PROVE DirtyWork(t)'
  <2>1. /\ \A g \in Files : l.existing[g] # None => l.existing[g][1] # t
        /\ \A id \in Dirty(l.node) :
             RelationsOf(id) # {} /\ (id[1] = t \/ l.existing[id[2]] = id)
    BY <1>1, <1>3 DEF DirtyTask, DirtyWork, Begun, InHand
  <2>2. \A id \in Dirty(l.node) : id[2] \in Files
    BY DEF Dirty, FileIds, TypeInv, TypeOK, GraphTypeOK
  <2>3. task'[t].file[1] # t
    BY <1>1, <2>1
  <2>4. \A id \in Dirty(l.node) :
          \/ id = task'[t].file /\ id[1] # t
          \/ RelationsOf(id) # {} /\ (id[1] = t \/ task'[t].existing[id[2]] = id)
    BY <1>1, <1>2, <2>1, <2>2, <2>3
  <2> QED
    BY <1>1, <1>2, <2>1, <2>3, <2>4, SameDirty DEF DirtyWork, InHand
<1> QED
  BY <1>1, <1>3 DEF DirtyTask, DirtyWork

\* A new file has no relationships yet, and nothing behind.
LEMMA NewFileDirty ==
  ASSUME TypeInv, LockInv, NotYet, \A id \in dirty : uses[id] # None,
         NEW t \in Tasks, LocalJob(t), DirtyTask(t),
         NEW f \in Files, CreateRequirementFile(t, f)
  PROVE  DirtyTask(t)'
<1> DEFINE l == task[t]
           id == <<t, f>>
<1>1. /\ pc[t] = "files" /\ pc'[t] = "packages" /\ task'[t].node = l.node
      /\ l.existing = NoFiles /\ task'[t].existing = l.existing
      /\ f \in l.todo /\ task'[t].have = l.have
      /\ CreateFile(id, l.node) /\ UNCHANGED <<requires, dirty>>
  BY NewFileDoes DEF Carries
<1>2. l.have = Nothing
  BY <1>1 DEF LocalJob
<1>3. \A g \in Files : l.existing[g] = None
  BY <1>1, EmptyPackages
<1>4. ASSUME l.node # None PROVE DirtyWork(t)'
  <2>1. uses[id] = None /\ id \notin dirty
    BY <1>1 DEF NotYet, Begun
  <2>2. \A x \in FileIds : x # id => uses'[x] = uses[x]
    BY <1>1 DEF CreateFile, TypeInv, TypeOK, GraphTypeOK
  <2>3. Dirty(l.node)' \subseteq Dirty(l.node)
    BY <1>1, <2>1, <2>2 DEF Dirty, TypeInv, TypeOK, GraphTypeOK
  <2>4. \A x \in Dirty(l.node) : RelationsOf(x) # {}
                                 /\ (x[1] = t \/ l.existing[x[2]] = x)
    BY <1>1, <1>4 DEF DirtyTask, DirtyWork, Begun, InHand
  <2>5. \A x : RelationsOf(x)' = RelationsOf(x)
    BY <1>1 DEF RelationsOf
  <2> QED
    BY <1>1, <1>2, <1>3, <2>3, <2>4, <2>5 DEF DirtyWork, Dirty
<1> QED
  BY <1>1, <1>4 DEF DirtyTask, DirtyWork

\* While a task has in hand a file that it did not create, only the mark of
\* that file can come or go.
LEMMA HandDirty ==
  ASSUME TypeInv, NEW t \in Tasks, DirtyTask(t), pc[t] \in InHand,
         pc'[t] \in InHand, Carries(t), SameWork(t), UNCHANGED uses,
         task[t].node # None =>
           /\ task[t].file[1] # t
           /\ dirty' \subseteq dirty \cup {task[t].file}
           /\ \A id \in FileIds : id # task[t].file => RelationsOf(id)' = RelationsOf(id)
  PROVE  DirtyTask(t)'
<1> DEFINE l == task[t]
<1>1. /\ task'[t].node = l.node /\ task'[t].existing = l.existing
      /\ task'[t].file = l.file
  BY DEF Carries, SameWork
<1>2. ASSUME l.node # None PROVE DirtyWork(t)'
  <2>1. /\ \A g \in Files : l.existing[g] # None => l.existing[g][1] # t
        /\ \A id \in Dirty(l.node) :
             \/ id = l.file /\ id[1] # t
             \/ RelationsOf(id) # {} /\ (id[1] = t \/ l.existing[id[2]] = id)
    BY <1>2 DEF DirtyTask, DirtyWork, Begun, InHand
  <2>2. ASSUME NEW id \in Dirty(l.node)', id # l.file
        PROVE  id \in Dirty(l.node) /\ RelationsOf(id)' = RelationsOf(id)
    <3>1. id \in dirty \cup {l.file} /\ uses[id] = l.node
      BY <1>1, <1>2, <2>2 DEF Dirty
    <3>2. id \in Dirty(l.node) /\ id \in FileIds
      BY <2>2, <3>1 DEF Dirty, TypeInv, TypeOK, GraphTypeOK
    <3> QED
      BY <1>2, <2>2, <3>2
  <2>3. \A id \in Dirty(l.node)' :
          \/ id = l.file /\ id[1] # t
          \/ RelationsOf(id)' # {} /\ (id[1] = t \/ l.existing[id[2]] = id)
    BY <1>2, <2>1, <2>2
  <2> QED
    BY <1>1, <1>2, <2>1, <2>3 DEF DirtyWork, Dirty
<1> QED
  BY <1>1, <1>2 DEF DirtyTask, DirtyWork, InHand

\* The file whose relationship changed is the one in hand.
LEMMA ChangeDirty ==
  ASSUME TypeInv, NEW t \in Tasks, Hand(t), DirtyTask(t),
         NEW p \in Packages, ChangeConstraint(t, p) \/ RemovePackage(t, p)
  PROVE  DirtyTask(t)'
<1> DEFINE l == task[t]
           id == l.file
<1>1. /\ pc[t] = "packages" /\ pc'[t] = "packages" /\ Carries(t) /\ SameWork(t)
      /\ UNCHANGED uses /\ l.have[p] # None
  BY ChangeDoes, RemoveDoes DEF Matches
<1>2. l.have # Nothing
  BY <1>1, EmptyPackages
<1>3. CASE l.node = None
  BY <1>1, <1>3 DEF DirtyTask, DirtyWork, Carries
<1>4. CASE l.node # None
  <2>1. id[1] # t
    BY <1>1, <1>2, <1>4 DEF DirtyTask, DirtyWork, Begun, InHand
  <2>2. dirty' \subseteq dirty \cup {id}
    <3>1. SetConstraint(id, p, l.want[p]) \/ DeleteRelation(id, p)
      BY ChangeDoes, RemoveDoes
    <3> QED
      BY <3>1 DEF SetConstraint, DeleteRelation, ChangeRelations
  <2>3. ASSUME NEW x \in FileIds, x # id PROVE RelationsOf(x)' = RelationsOf(x)
    <3>1. CASE ChangeConstraint(t, p)
      <4> DEFINE change(q) == IF q.file = id /\ q.pkg = p
                              THEN [q EXCEPT !.con = l.want[p]] ELSE q
      <4>1. requires' = {change(q) : q \in requires}
        BY <3>1 DEF ChangeConstraint, SetConstraint, ChangeRelations
      <4>2. \A q \in requires : change(q).file = q.file
        BY DEF TypeInv, TypeOK, GraphTypeOK, Relation
      <4>3. \A q \in requires : q.file = x => change(q) = q
        BY <2>3
      <4> HIDE DEF change
      <4> QED
        BY <4>1, <4>2, <4>3 DEF RelationsOf
    <3>2. CASE RemovePackage(t, p)
      <4>1. requires' = {q \in requires : q.file # id \/ q.pkg # p}
        BY <3>2 DEF RemovePackage, DeleteRelation, ChangeRelations
      <4> QED
        BY <2>3, <4>1 DEF RelationsOf
    <3> QED
      BY <3>1, <3>2
  <2> QED
    BY <1>1, <2>1, <2>2, <2>3, HandDirty DEF InHand
<1> QED
  BY <1>3, <1>4

\* The lookup of a package changes no relationship.
LEMMA CheckDirty ==
  ASSUME TypeInv, Known, NEW t \in Tasks, DirtyTask(t),
         NEW p \in Packages, CheckPackage(t, p)
  PROVE  DirtyTask(t)'
<1>1. /\ pc[t] = "packages" /\ pc'[t] = "packages"
      /\ Carries(t) /\ SameWork(t) /\ task'[t].have = task[t].have
      /\ UNCHANGED <<uses, requires, dirty>>
  BY CheckDoes DEF SameBelowAll, Known
<1>2. CASE task[t].node = None
  BY <1>1, <1>2 DEF DirtyTask, DirtyWork, Carries
<1>3. CASE task[t].node # None
  <2>1. DirtyWork(t)
    BY DEF DirtyTask
  <2>2. /\ task'[t].node = task[t].node /\ task'[t].existing = task[t].existing
        /\ task'[t].file = task[t].file
    BY <1>1 DEF Carries, SameWork
  <2> QED
    BY <1>1, <1>3, <2>1, <2>2, SameDirty DEF DirtyTask, DirtyWork
<1> QED
  BY <1>2, <1>3

\* Nor does the moment of the repository.
LEMMA MomentDirty ==
  ASSUME TypeInv, NEW t \in Tasks, DirtyTask(t), UpdateMoment(t)
  PROVE  DirtyTask(t)'
<1>1. /\ pc[t] = "files" /\ pc'[t] = "finish" /\ UNCHANGED task
      /\ UNCHANGED <<uses, requires, dirty>>
  BY MomentDoes DEF SameBelowAll
<1>2. DirtyWork(t)
  BY DEF DirtyTask
<1> QED
  BY <1>1, <1>2, SameDirty DEF DirtyTask, DirtyWork, Begun, InHand

\* The mark of a file goes when it is stamped.
LEMMA StampDirty ==
  ASSUME TypeInv, NEW t \in Tasks, DirtyTask(t), StampFile(t)
  PROVE  DirtyTask(t)'
<1> DEFINE l == task[t]
<1>1. /\ pc[t] = "stamp" /\ pc'[t] = "files" /\ task'[t].node = l.node
      /\ task'[t].existing = l.existing
      /\ dirty' = dirty \ {l.file} /\ UNCHANGED <<uses, requires>>
  BY StampDoes DEF Carries
<1>2. ASSUME l.node # None PROVE DirtyWork(t)'
  <2>1. /\ \A g \in Files : l.existing[g] # None => l.existing[g][1] # t
        /\ \A id \in Dirty(l.node) :
             \/ id = l.file /\ id[1] # t
             \/ RelationsOf(id) # {} /\ (id[1] = t \/ l.existing[id[2]] = id)
    BY <1>1, <1>2 DEF DirtyTask, DirtyWork, Begun, InHand
  <2>2. \A id \in Dirty(l.node)' : id \in Dirty(l.node) /\ id # l.file
    BY <1>1 DEF Dirty
  <2>3. \A id : RelationsOf(id)' = RelationsOf(id)
    BY <1>1 DEF RelationsOf
  <2> QED
    BY <1>1, <2>1, <2>2, <2>3 DEF DirtyWork, Dirty, InHand
<1> QED
  BY <1>1, <1>2 DEF DirtyTask, DirtyWork

(* A new file that is behind has relationships; one that the graph had is   *)
(* stamped next.                                                           *)
LEMMA RelateDirty ==
  ASSUME TypeInv, NEW t \in Tasks, Hand(t), DirtyTask(t), RelatePackages(t)
  PROVE  DirtyTask(t)'
<1> DEFINE l == task[t]
<1>1. /\ pc[t] = "packages"
      /\ pc'[t] = IF Created(t) THEN "files" ELSE "stamp"
      /\ task'[t].file = IF Created(t) THEN None ELSE l.file
      /\ task'[t].node = l.node /\ task'[t].existing = l.existing
      /\ RelateAll(t, l.file, l.batch) /\ UNCHANGED uses
  BY RelateDoes DEF Carries
<1>2. ASSUME l.node # None PROVE DirtyWork(t)'
  <2>0. PICK file \in FileIds : file = l.file /\ uses[file] = l.node
    BY <1>1, <1>2 DEF Hand, HandFile, InHand
  <2>1. /\ \A g \in Files : l.existing[g] # None => l.existing[g][1] # t
        /\ \A id \in Dirty(l.node) :
             \/ id = file /\ id[1] # t
             \/ RelationsOf(id) # {} /\ (id[1] = t \/ l.existing[id[2]] = id)
    BY <1>1, <1>2, <2>0 DEF DirtyTask, DirtyWork, Begun, InHand
  <2>2. FileExists(file)
    BY <1>2, <2>0, NoneAssumption DEF FileExists
  <2> DEFINE new == {[file |-> file, pkg |-> p, con |-> l.batch[p], by |-> t] :
                       p \in {x \in packages : l.batch[x] # None}}
  <2>3. ChangeRelations(file, requires \cup new)
    BY <1>1, <2>0, <2>2 DEF RelateAll
  <2>4. \A q \in new : q.file = file
    OBVIOUS
  <2> HIDE DEF new
  <2>5. requires' = requires \cup new
    BY <2>3 DEF ChangeRelations
  <2>6. dirty' = dirty \/ (dirty' = dirty \cup {file} /\ new # {})
    BY <2>3, <2>5 DEF ChangeRelations
  <2>7. \A id : RelationsOf(id) \subseteq RelationsOf(id)'
    BY <2>5 DEF RelationsOf
  <2>8. ASSUME NEW id \in Dirty(l.node)', id # file
        PROVE  RelationsOf(id)' # {} /\ (id[1] = t \/ l.existing[id[2]] = id)
    <3>1. id \in Dirty(l.node)
      BY <1>1, <2>6, <2>8 DEF Dirty
    <3> QED
      BY <2>1, <2>7, <2>8, <3>1
  <2>9. ASSUME file \in Dirty(l.node)', Created(t) PROVE RelationsOf(file)' # {}
    <3>1. file[1] = t
      BY <2>0, <2>9, NoneAssumption DEF Created
    <3>2. CASE file \in dirty
      <4>1. file \in Dirty(l.node)
        BY <2>0, <3>2 DEF Dirty
      <4> QED
        BY <2>1, <2>7, <3>1, <4>1
    <3>3. CASE file \notin dirty
      <4>1. new # {}
        BY <2>6, <2>9, <3>3 DEF Dirty
      <4> QED
        BY <2>4, <2>5, <4>1 DEF RelationsOf
    <3> QED
      BY <3>2, <3>3
  <2>10. CASE Created(t)
    <3>1. file[1] = t
      BY <2>0, <2>10, NoneAssumption DEF Created
    <3>2. \A id \in Dirty(l.node)' :
            RelationsOf(id)' # {} /\ (id[1] = t \/ l.existing[id[2]] = id)
      BY <2>8, <2>9, <2>10, <3>1
    <3> QED
      BY <1>1, <2>1, <2>10, <3>2 DEF DirtyWork, Dirty, InHand
  <2>11. CASE ~Created(t)
    <3>1. file[1] # t /\ task'[t].file = file /\ pc'[t] = "stamp"
      BY <1>1, <2>0, <2>11 DEF Created
    <3>2. \A id \in Dirty(l.node)' :
            \/ id = file /\ id[1] # t
            \/ RelationsOf(id)' # {} /\ (id[1] = t \/ l.existing[id[2]] = id)
      BY <2>8, <3>1
    <3> QED
      BY <1>1, <2>1, <3>1, <3>2 DEF DirtyWork, Dirty, InHand
  <2> QED
    BY <2>10, <2>11
<1> QED
  BY <1>1, <1>2 DEF DirtyTask, DirtyWork

\* When a task is done with the files, what is behind it created itself.
LEMMA CompletedDirty ==
  ASSUME TypeInv, NEW t \in Tasks, LocalJob(t), DirtyTask(t), SetComplete(t),
         task[t].node # None
  PROVE  \A id \in Dirty(task[t].node) : RelationsOf(id) # {} /\ id[1] = t
<1> DEFINE l == task[t]
<1>1. /\ pc[t] \in {"files", "finish"}
      /\ pc[t] = "files" => l.existing = NoFiles
  BY CompleteDoes
<1>2. l.existing = NoFiles
  BY <1>1 DEF LocalJob
<1>3. ASSUME NEW id \in Dirty(l.node) PROVE RelationsOf(id) # {} /\ id[1] = t
  <2>1. id \in FileIds /\ id[2] \in Files
    BY DEF Dirty, FileIds, TypeInv, TypeOK, GraphTypeOK
  <2>2. l.existing[id[2]] = None
    BY <1>2, <2>1, EmptyPackages
  <2> QED
    BY <1>1, <2>1, <2>2, NoneAssumption DEF DirtyTask, DirtyWork, Begun, InHand
<1> QED
  BY <1>3

\* So what is behind in a complete repository has relationships.
LEMMA CompleteDirty ==
  ASSUME TypeInv, NEW t \in Tasks, LocalJob(t), DirtyTask(t), SetComplete(t),
         task[t].node # None
  PROVE  DirtyAt(task[t].node)'
<1>1. UNCHANGED task /\ UNCHANGED <<uses, requires, dirty>>
  BY CompleteDoes DEF SameBelowAll
<1>2. DirtyListed(task[t].node)
  BY CompletedDirty DEF DirtyListed
<1> QED
  BY <1>1, <1>2, SameDirty DEF DirtyAt, DirtyListed

\* Each step of a task keeps its own part of the invariant.
LEMMA OwnDirty ==
  ASSUME TypeInv, LockInv, CatInv, Jobs, MergeInv, ExactInv, DirtyInv,
         NEW t \in Tasks, Handle(t) \/ Download(t) \/ Persist(t) \/ Fail(t)
  PROVE  DirtyTask(t)'
<1>1. /\ LocalJob(t) /\ Hand(t) /\ DirtyTask(t) /\ pc[t] # "xadd"
      /\ Known /\ NotYet /\ Names /\ \A id \in dirty : uses[id] # None
  BY DEF Jobs, MergeInv, ExactInv, Known, DirtyInv
<1>2. CASE pc'[t] \notin Begun \cup {"list"}
  BY <1>2 DEF DirtyTask, DirtyWork
<1>3. CASE Handle(t) \/ Download(t) \/ Fail(t)
  <2>1. pc'[t] \notin Begun \cup {"list"}
    BY <1>3, HandleDoes, FailDoes, StartDoes, ListTreeDoes, OpenDoes, GoneDoes,
       WriteDoes, AnalyzeDoes, FetchDoes, SkipDoes DEF Download, Begun
  <2> QED
    BY <1>2, <2>1
<1>4. CASE SetComplete(t) \/ OwnRepository(t)
  <2>1. pc'[t] \notin Begun \cup {"list"}
    BY <1>4, CompleteDoes, OwnDoes DEF Begun
  <2> QED
    BY <1>2, <2>1
<1>5. CASE AddMessage(t)
  BY <1>1, <1>5, AddMessageDoes
<1>6. CASE \/ CreateRepository(t) \/ MarkIncomplete(t) \/ ListFiles(t)
           \/ RelatePackages(t) \/ StampFile(t) \/ UpdateMoment(t)
  BY <1>1, <1>6, CreateDirty, MarkDirty, ListDirty, RelateDirty, StampDirty,
     MomentDirty
<1>7. CASE \E f \in Files :
             DropFile(t, f) \/ UpdateFile(t, f) \/ CreateRequirementFile(t, f)
  BY <1>1, <1>7, DropDirty, UpdateDirty, NewFileDirty
<1>8. CASE \E p \in Packages :
             ChangeConstraint(t, p) \/ RemovePackage(t, p) \/ CheckPackage(t, p)
  BY <1>1, <1>8, ChangeDirty, CheckDirty
<1> QED
  BY <1>3, <1>4, <1>5, <1>6, <1>7, <1>8 DEF Persist

\* It disturbs no other task and no complete repository.
LEMMA StepDirty ==
  ASSUME TypeInv, TypeInv', LockInv, CatInv, Jobs, MergeInv, ExactInv, DirtyInv,
         NEW t \in Tasks, Handle(t) \/ Download(t) \/ Persist(t) \/ Fail(t)
  PROVE  DirtyInv'
<1>1. \A id \in dirty' : uses'[id] # None
  BY DirtyAlive DEF DirtyInv, ExactInv
<1>2. ASSUME NEW n \in Tasks, pc[t] \in Writing => task[t].node # n
      PROVE  Alone(n)
  BY <1>2, StepAlone DEF MergeInv
<1>3. ASSUME NEW u \in Tasks PROVE DirtyTask(u)'
  <2>1. CASE u = t
    BY <2>1, OwnDirty
  <2>2. CASE u # t
    <3>1. pc'[u] = pc[u] /\ task'[u] = task[u]
      BY <2>2, StepOthers DEF Others
    <3>2. CASE pc[u] \notin Writing
      BY <3>1, <3>2 DEF DirtyTask, DirtyWork, Begun, Writing
    <3>3. CASE pc[u] \in Writing
      <4>1. task[u].node # None => Alone(task[u].node)
        BY <1>2, <2>2, <3>3, TaskFacts DEF LockInv, WritersExclusive
      <4>2. DirtyWork(u)'
        BY <3>1, <4>1, AloneWork DEF DirtyInv, DirtyTask
      <4>3. pc[u] = "list" => DirtyListed(task[u].node)'
        <5> SUFFICES ASSUME pc[u] = "list" PROVE DirtyListed(task[u].node)'
          OBVIOUS
        <5>1. task[u].node # None
          BY DEF CatInv, TasksBelong
        <5>2. PICK n \in Tasks : n = task[u].node
          BY <5>1, TaskFacts
        <5>3. Alone(n) /\ DirtyListed(n)
          BY <4>1, <5>1, <5>2 DEF DirtyInv, DirtyTask
        <5>4. DirtyListed(n)'
          BY <5>3, AloneListed
        <5> QED
          BY <3>1, <5>2, <5>4 DEF DirtyListed, Dirty
      <4> QED
        BY <3>1, <4>2, <4>3 DEF DirtyTask
    <3> QED
      BY <3>2, <3>3
  <2> QED
    BY <2>1, <2>2
<1>4. ASSUME NEW n \in Tasks PROVE DirtyAt(n)'
  <2>1. CASE SetComplete(t) /\ task[t].node = n
    <3>1. LocalJob(t) /\ DirtyTask(t) /\ SetComplete(t) /\ task[t].node # None
      BY <2>1, NoneAssumption DEF Jobs, DirtyInv
    <3>2. DirtyAt(task[t].node)'
      BY <3>1, CompleteDirty
    <3>3. task'[t].node = task[t].node
      BY <2>1, CompleteDoes
    <3> QED
      BY <2>1, <3>2, <3>3
  <2>2. CASE ~(SetComplete(t) /\ task[t].node = n)
    <3>1. CASE ~(repository'[n] # None /\ repository'[n].complete)
      BY <3>1 DEF DirtyAt
    <3>2. CASE repository'[n] # None /\ repository'[n].complete
      <4>1. repository[n] # None /\ repository[n].complete
        BY <2>2, <3>2, CompletedBefore
      <4>2. pc[t] \in Writing => task[t].node # n
        BY <4>1, NoneAssumption DEF LockInv, WritersLock
      <4>3. Alone(n) /\ DirtyListed(n)
        BY <1>2, <4>1, <4>2 DEF DirtyInv, DirtyAt
      <4> QED
        BY <4>3, AloneListed DEF DirtyAt
    <3> QED
      BY <3>1, <3>2
  <2> QED
    BY <2>1, <2>2
<1> QED
  BY <1>1, <1>3, <1>4 DEF DirtyInv

\* The invariant is inductive.
LEMMA DirtyNext ==
  /\ TypeInv /\ LockInv /\ CatInv /\ Jobs /\ MergeInv
  /\ ExactInv /\ DirtyInv /\ [Next]_vars
  => DirtyInv'
<1> SUFFICES ASSUME TypeInv, LockInv, CatInv, Jobs, MergeInv, ExactInv, DirtyInv,
                    [Next]_vars
             PROVE  DirtyInv'
  OBVIOUS
<1>1. ASSUME UNCHANGED <<graphVars, pc, task>> PROVE DirtyInv'
  BY <1>1 DEF graphVars, DirtyInv, DirtyAt, DirtyListed, DirtyTask, DirtyWork,
              Dirty, RelationsOf
<1>2. \A m \in stream : ~Extract(m)
  BY DEF ExactInv, Known
<1>3. TypeInv'
  BY NextType
<1> QED
  BY <1>1, <1>2, <1>3, StepDirty DEF Next, Commit, vars

(* Requests one at a time over packages the graph knows: when a task        *)
(* finishes, every file whose relationships changed since its moment is one *)
(* that it created itself.                                                 *)
THEOREM SerialRestamped ==
  ~Racing /\ InitialPackages = Packages => (Spec => RestampedByUpdate)
<1> SUFFICES ASSUME ~Racing, InitialPackages = Packages
             PROVE  Spec => RestampedByUpdate
  OBVIOUS
<1>1. Spec => [](TypeInv /\ LockInv /\ CatInv /\ Jobs /\ MergeInv /\ ExactInv)
  BY ExactAlways
<1>2. Init => DirtyInv
  BY InitDirty
<1>3. /\ TypeInv /\ LockInv /\ CatInv /\ Jobs /\ MergeInv
      /\ ExactInv /\ DirtyInv /\ [Next]_vars
      => DirtyInv'
  BY DirtyNext
<1>4. TypeInv /\ Jobs /\ DirtyInv =>
        [\A t \in Tasks : SetComplete(t) =>
           \A id \in dirty : uses[id] = task[t].node => id[1] = t]_vars
  <2> SUFFICES ASSUME TypeInv, Jobs, DirtyInv, NEW t \in Tasks, SetComplete(t),
                      NEW id \in dirty, uses[id] = task[t].node
               PROVE  id[1] = t
    OBVIOUS
  <2>1. task[t].node # None /\ id \in Dirty(task[t].node)
    BY DEF DirtyInv, Dirty
  <2> QED
    BY <2>1, CompletedDirty DEF Jobs, DirtyInv
<1> QED
  BY <1>1, <1>2, <1>3, <1>4, PTL DEF Spec, RestampedByUpdate
=============================================================================
