----------------------- MODULE RepositoryCatalogProofs -----------------------
(***************************************************************************)
(* RepositoryInit implements RepositoryCatalog when no request arrives in  *)
(* the window of another one for the same repository: every step of it is  *)
(* a step of the catalog or changes nothing there.                         *)
(***************************************************************************)
EXTENDS RepositoryInitProofs

-----------------------------------------------------------------------------
(* What the refinement needs beyond the lock: files and the tasks that      *)
(* write them belong to one repository, and a task's idea of the moments is *)
(* right until its first write.                                            *)

FilesBelong ==
  \A id \in FileIds : uses[id] # None => uses[id] \in NodesOf(RepoOf[id[1]])

OwnersBelong == \A o \in owns : repository[o.node] # None

Mine(t, id) == id # None =>
  task[t].node # None /\ RepoOf[id[1]] = RepoOf[t]

TasksBelong ==
  \A t \in Tasks :
    /\ pc[t] = "list" => task[t].node # None
    /\ Mine(t, task[t].file)
    /\ \A f \in Files : Mine(t, task[t].existing[f])

Current(t) ==
  /\ task[t].seen = repository[task[t].node].moment
  /\ repository[task[t].node].complete

MomentsKnown ==
  \A t \in Tasks :
    /\ task[t].commit <= commits[RepoOf[t]]
    /\ pc[t] \in Accepted /\ task[t].node # None => Current(t)
    /\ pc[t] = "mark" => task[t].seen < task[t].commit

CatInv == FilesBelong /\ OwnersBelong /\ TasksBelong /\ MomentsKnown

LEMMA InitCat == Init => CatInv
<1> SUFFICES ASSUME Init PROVE CatInv
  OBVIOUS
<1>1. FilesBelong /\ OwnersBelong
  BY DEF Init, GraphInit, FilesBelong, OwnersBelong
<1>2. TasksBelong
  BY DEF Init, NoLocals, NoFiles, TasksBelong, Mine
<1>3. MomentsKnown
  BY RequestAssumption DEF Init, NoLocals, MomentsKnown, Current, Accepted, Window
<1> QED
  BY <1>1, <1>2, <1>3 DEF CatInv

(* The locals the invariant is about.                                      *)
SameLocals(t) ==
  /\ task'[t].node = task[t].node /\ task'[t].seen = task[t].seen
  /\ task'[t].commit = task[t].commit
  /\ task'[t].file \in {task[t].file, None}
  /\ \A f \in Files : task'[t].existing[f] \in {task[t].existing[f], None}

LEMMA LocallyLocals ==
  ASSUME TypeInv, NEW t \in Tasks, NEW l, Locally(t, l),
         l.node = task[t].node, l.seen = task[t].seen,
         l.commit = task[t].commit, l.file \in {task[t].file, None},
         \A f \in Files : l.existing[f] \in {task[t].existing[f], None}
  PROVE  \A u \in Tasks : SameLocals(u)
BY DEF TypeInv, TypeOK, Locally, SameLocals

LEMMA UnchangedLocals ==
  ASSUME UNCHANGED task
  PROVE  \A u \in Tasks : SameLocals(u)
BY DEF SameLocals

(* A step that leaves repositories and moments alone and adds nothing to    *)
(* what a task holds.                                                      *)
LEMMA QuietCat ==
  ASSUME TypeInv, CatInv, NEW t \in Tasks, Moves(t),
         \A u \in Tasks : SameLocals(u),
         UNCHANGED <<repository, owns, uses>>,
         \A r \in Repos : commits'[r] >= commits[r],
         \A r \in Repos : commits'[r] \in Nat,
         pc'[t] # "list" \/ pc[t] = "list",
         pc'[t] = "mark" /\ pc[t] # "mark" => task[t].seen < task[t].commit
  PROVE  CatInv'
<1>1. \A r : NodesOf(r)' = NodesOf(r)
  BY DEF NodesOf
<1>2. FilesBelong' /\ OwnersBelong'
  BY <1>1 DEF CatInv, FilesBelong, OwnersBelong
<1>3. TasksBelong'
  BY DEF CatInv, TasksBelong, Mine, SameLocals, Moves
<1>4. MomentsKnown'
  <2>1. ASSUME NEW u \in Tasks
        PROVE  task'[u].commit <= commits'[RepoOf[u]]
    BY <2>1, TaskFacts DEF CatInv, MomentsKnown, Current, SameLocals
  <2>2. \A u \in Tasks : pc'[u] \in Accepted => pc[u] \in Accepted
    BY DEF Moves, Accepted, Window, Writing
  <2>3. \A u \in Tasks : pc'[u] = "mark" => task[u].seen < task[u].commit
    BY DEF Moves, CatInv, MomentsKnown, Current
  <2> QED
    BY <2>1, <2>2, <2>3 DEF CatInv, MomentsKnown, Current, SameLocals
<1> QED
  BY <1>2, <1>3, <1>4 DEF CatInv

LEMMA HandleCat ==
  ASSUME TypeInv, LockInv, CatInv, NEW t \in Tasks, Handle(t)
  PROVE  CatInv'
<1>1. /\ UNCHANGED <<repository, owns, uses, commits>>
      /\ \A u \in Tasks \ {t} : pc'[u] = pc[u] /\ task'[u] = task[u]
  BY DEF Handle, Request, AcceptNew, AcceptKnown, RefuseBusy, graphVars,
         environment, Goto, Locally, TypeInv, TypeOK
<1>2. \A r : NodesOf(r)' = NodesOf(r)
  BY <1>1 DEF NodesOf
<1>3. FilesBelong' /\ OwnersBelong'
  BY <1>1, <1>2 DEF CatInv, FilesBelong, OwnersBelong
<1>4. ASSUME task'[t].file = task[t].file, task'[t].existing = task[t].existing,
             task'[t].node = task[t].node \/ task[t].node = None,
             task'[t].commit <= commits[RepoOf[t]],
             pc'[t] \in Accepted /\ task'[t].node # None =>
               /\ task'[t].seen = repository[task'[t].node].moment
               /\ repository[task'[t].node].complete,
             pc'[t] \notin {"mark", "list"}
      PROVE  CatInv'
  <2>1. TasksBelong'
    BY <1>1, <1>4 DEF CatInv, TasksBelong, Mine
  <2>2. MomentsKnown'
    BY <1>1, <1>4 DEF CatInv, MomentsKnown, Current
  <2> QED
    BY <1>3, <2>1, <2>2 DEF CatInv
<1>5. CASE Request(t)
  <2> DEFINE l == [task[t] EXCEPT !.commit = commits[RepoOf[t]]]
  <2>1. /\ l.file = task[t].file /\ l.existing = task[t].existing
        /\ l.node = task[t].node /\ l.commit = commits[RepoOf[t]]
    BY LocalsType DEF Locals
  <2>2. Locally(t, l) /\ pc'[t] = "read"
    BY <1>5 DEF Request, Goto, TypeInv, TypeOK
  <2> HIDE DEF l
  <2>3. task'[t] = l
    BY <2>2 DEF Locally, TypeInv, TypeOK
  <2> QED
    BY <1>4, <2>1, <2>2, <2>3, TaskFacts DEF Accepted, Window
<1>6. CASE AcceptNew(t)
  <2>1. task'[t] = task[t] /\ pc'[t] = "scheduled" /\ task[t].node = None
    BY <1>6 DEF AcceptNew, Goto, TypeInv, TypeOK, LockInv, RecordCurrent
  <2> QED
    BY <1>4, <2>1 DEF CatInv, MomentsKnown, Current
<1>7. CASE AcceptKnown(t)
  <2>1. PICK n \in NodesOf(RepoOf[t]) :
          /\ repository[n].complete
          /\ Locally(t, [task[t] EXCEPT !.node = n, !.seen = repository[n].moment])
    BY <1>7 DEF AcceptKnown
  <2> DEFINE l == [task[t] EXCEPT !.node = n, !.seen = repository[n].moment]
  <2>2. /\ l.file = task[t].file /\ l.existing = task[t].existing
        /\ l.node = n /\ l.seen = repository[n].moment
        /\ l.commit = task[t].commit /\ Locally(t, l)
    BY <2>1, LocalsType DEF Locals
  <2> HIDE DEF l
  <2>3. task'[t] = l
    BY <2>2 DEF Locally, TypeInv, TypeOK
  <2>4. pc'[t] = "scheduled" /\ task[t].node = None
    BY <1>7 DEF AcceptKnown, Goto, TypeInv, TypeOK, LockInv, RecordCurrent
  <2> QED
    BY <1>4, <2>1, <2>2, <2>3, <2>4 DEF CatInv, MomentsKnown, Current
<1>8. CASE RefuseBusy(t)
  <2>1. task'[t] = task[t] /\ pc'[t] = "conflict"
    BY <1>8 DEF RefuseBusy, Goto, TypeInv, TypeOK
  <2> QED
    BY <1>4, <2>1 DEF CatInv, MomentsKnown, Current, Accepted, Window
<1> QED
  BY <1>5, <1>6, <1>7, <1>8 DEF Handle

LEMMA DownloadCat ==
  ASSUME TypeInv, CatInv, NEW t \in Tasks, Download(t)
  PROVE  CatInv'
<1>1. UNCHANGED <<repository, owns, uses, commits>>
  BY DEF Download, StartDownload, ListTree, OpenTarget, DirectoryGone,
         WriteTarget, Analyze, FetchFile, SkipFile, graphVars, environment
<1>2. Moves(t)
  BY DownloadFrame DEF Frame
<1>3. ASSUME NEW l, Locally(t, l), l.node = task[t].node,
             l.seen = task[t].seen, l.commit = task[t].commit,
             l.file = task[t].file, l.existing = task[t].existing
      PROVE  \A u \in Tasks : SameLocals(u)
  BY <1>3, LocallyLocals
<1>4. \A u \in Tasks : SameLocals(u)
  <2>1. CASE ListTree(t)
    <3>1. PICK listed : Locally(t, [task[t] EXCEPT !.fetching = listed])
      BY <2>1 DEF ListTree
    <3> DEFINE l == [task[t] EXCEPT !.fetching = listed]
    <3>2. /\ l.node = task[t].node /\ l.seen = task[t].seen /\ Locally(t, l)
          /\ l.commit = task[t].commit /\ l.file = task[t].file
          /\ l.existing = task[t].existing
      BY <3>1, LocalsType DEF Locals
    <3> HIDE DEF l
    <3> QED
      BY <1>3, <3>2
  <2>2. CASE Analyze(t)
    <3> DEFINE found == dir[RepoOf[t]].entries
               l == [task[t] EXCEPT !.raw = found,
                              !.todo = {f \in Files : found[f] # None}]
    <3>1. /\ l.node = task[t].node /\ l.seen = task[t].seen /\ Locally(t, l)
          /\ l.commit = task[t].commit /\ l.file = task[t].file
          /\ l.existing = task[t].existing
      BY <2>2, LocalsType DEF Analyze, Locals
    <3> HIDE DEF l
    <3> QED
      BY <1>3, <3>1
  <2>3. ASSUME NEW f \in Files, FetchFile(t, f)
        PROVE  \A u \in Tasks : SameLocals(u)
    <3> DEFINE l == [task[t] EXCEPT !.fetching = @ \ {f}, !.target = f,
                                    !.content = head[RepoOf[t]][f]]
    <3>1. /\ l.node = task[t].node /\ l.seen = task[t].seen /\ Locally(t, l)
          /\ l.commit = task[t].commit /\ l.file = task[t].file
          /\ l.existing = task[t].existing
      BY <2>3, LocalsType DEF FetchFile, Locals
    <3> HIDE DEF l
    <3> QED
      BY <1>3, <3>1
  <2>4. ASSUME NEW f \in Files, SkipFile(t, f)
        PROVE  \A u \in Tasks : SameLocals(u)
    <3> DEFINE l == [task[t] EXCEPT !.fetching = @ \ {f}]
    <3>1. /\ l.node = task[t].node /\ l.seen = task[t].seen /\ Locally(t, l)
          /\ l.commit = task[t].commit /\ l.file = task[t].file
          /\ l.existing = task[t].existing
      BY <2>4, LocalsType DEF SkipFile, Locals
    <3> HIDE DEF l
    <3> QED
      BY <1>3, <3>1
  <2> QED
    BY <2>1, <2>2, <2>3, <2>4, UnchangedLocals
       DEF Download, StartDownload, OpenTarget, DirectoryGone, WriteTarget
<1>5. pc'[t] = "mark" /\ pc[t] # "mark" => task[t].seen < task[t].commit
  <2>1. Analyze(t) \/ pc'[t] # "mark" \/ pc[t] = "mark"
    BY DEF Download, StartDownload, ListTree, OpenTarget, DirectoryGone,
           WriteTarget, FetchFile, SkipFile, Goto, TypeInv, TypeOK
  <2>2. CASE Analyze(t)
    <3>1. pc'[t] = AfterAnalysis(t)
      BY <2>2 DEF Analyze, Goto, TypeInv, TypeOK
    <3> QED
      BY <3>1 DEF AfterAnalysis
  <2> QED
    BY <2>1, <2>2
<1>6. pc'[t] # "list" \/ pc[t] = "list"
  BY <1>2 DEF Moves, Download, StartDownload, ListTree, OpenTarget,
     DirectoryGone, WriteTarget, Analyze, FetchFile, SkipFile, AfterAnalysis,
     Goto, Writing, Accepted, Window
<1> QED
  BY <1>1, <1>2, <1>4, <1>5, <1>6, QuietCat DEF TypeInv, TypeOK

(* The steps below the repository that leave its files in place.           *)
LEMMA PackagesCat ==
  ASSUME TypeInv, CatInv, NEW t \in Tasks,
         \/ AddMessage(t) \/ RelatePackages(t) \/ StampFile(t)
         \/ \E p \in Packages : \/ ChangeConstraint(t, p) \/ RemovePackage(t, p)
                               \/ CheckPackage(t, p)
  PROVE  CatInv'
<1> DEFINE Stays == \A u \in Tasks : SameLocals(u)
<1>0. ASSUME NEW l, Locally(t, l), l.node = task[t].node,
             l.seen = task[t].seen, l.commit = task[t].commit,
             l.file \in {task[t].file, None}, l.existing = task[t].existing
      PROVE  Stays
  BY <1>0, LocallyLocals
<1> HIDE DEF Stays
<1>1. ASSUME AddMessage(t) PROVE  Stays
  <2> DEFINE l == [task[t] EXCEPT !.want[task[t].missing] = None,
                                  !.missing = None]
  <2>1. /\ l.node = task[t].node /\ l.seen = task[t].seen
        /\ l.commit = task[t].commit /\ Locally(t, l)
        /\ l.file = task[t].file /\ l.existing = task[t].existing
    BY <1>1, LocalsType DEF AddMessage, Locals
  <2> HIDE DEF l
  <2> QED
    BY <2>1, <1>0
<1>2. ASSUME RelatePackages(t) PROVE  Stays
  <2> DEFINE l == [task[t] EXCEPT !.batch = Nothing,
                                  !.file = IF Created(t) THEN None ELSE @]
  <2>1. /\ l.node = task[t].node /\ l.seen = task[t].seen
        /\ l.commit = task[t].commit /\ Locally(t, l)
        /\ l.file \in {task[t].file, None} /\ l.existing = task[t].existing
    BY <1>2, LocalsType DEF RelatePackages, Locals
  <2> HIDE DEF l
  <2> QED
    BY <2>1, <1>0
<1>3. ASSUME StampFile(t) PROVE  Stays
  <2> DEFINE l == [task[t] EXCEPT !.file = None]
  <2>1. /\ l.node = task[t].node /\ l.seen = task[t].seen
        /\ l.commit = task[t].commit /\ Locally(t, l)
        /\ l.file = None /\ l.existing = task[t].existing
    BY <1>3, LocalsType DEF StampFile, Locals
  <2> HIDE DEF l
  <2> QED
    BY <2>1, <1>0
<1>4. ASSUME NEW p \in Packages, ChangeConstraint(t, p) PROVE  Stays
  <2> DEFINE l == [task[t] EXCEPT !.have[p] = None, !.want[p] = None]
  <2>1. /\ l.node = task[t].node /\ l.seen = task[t].seen
        /\ l.commit = task[t].commit /\ Locally(t, l)
        /\ l.file = task[t].file /\ l.existing = task[t].existing
    BY <1>4, LocalsType DEF ChangeConstraint, Locals
  <2> HIDE DEF l
  <2> QED
    BY <2>1, <1>0
<1>5. ASSUME NEW p \in Packages, RemovePackage(t, p) PROVE  Stays
  <2> DEFINE l == [task[t] EXCEPT !.have[p] = None]
  <2>1. /\ l.node = task[t].node /\ l.seen = task[t].seen
        /\ l.commit = task[t].commit /\ Locally(t, l)
        /\ l.file = task[t].file /\ l.existing = task[t].existing
    BY <1>5, LocalsType DEF RemovePackage, Locals
  <2> HIDE DEF l
  <2> QED
    BY <2>1, <1>0
<1>6. ASSUME NEW p \in Packages, CheckPackage(t, p) PROVE  Stays
  <2> DEFINE l == IF p \in packages
                  THEN [task[t] EXCEPT !.batch[p] = task[t].want[p],
                                       !.want[p] = None]
                  ELSE [task[t] EXCEPT !.missing = p]
  <2>1. /\ l.node = task[t].node /\ l.seen = task[t].seen
        /\ l.commit = task[t].commit
        /\ l.file = task[t].file /\ l.existing = task[t].existing
    BY LocalsType DEF Locals
  <2>2. Locally(t, l)
    BY <1>6 DEF CheckPackage
  <2> HIDE DEF l
  <2> QED
    BY <2>1, <2>2, <1>0
<1>7. Stays
  BY <1>1, <1>2, <1>3, <1>4, <1>5, <1>6
<1>8. Moves(t)
  <2>1. Persist(t) /\ pc[t] \in {"packages", "xadd", "stamp"}
    BY DEF Persist, AddMessage, RelatePackages, StampFile, ChangeConstraint,
           RemovePackage, CheckPackage, Goto
  <2>2. ~CreateRepository(t) /\ ~MarkIncomplete(t) /\ ~SetComplete(t)
    BY <2>1 DEF CreateRepository, MarkIncomplete, SetComplete, FilesDone, Goto
  <2> QED
    BY <2>1, <2>2, PersistFrame DEF Frame
<1>9. UNCHANGED <<repository, owns, uses, commits>> /\ pc'[t] \notin {"mark", "list"}
  BY DEF AddMessage, RelatePackages, StampFile, ChangeConstraint, RemovePackage,
         CheckPackage, RelateAll, StampMoment, SetConstraint, DeleteRelation,
         graphVars, environment, Goto, TypeInv, TypeOK
<1> QED
  BY <1>7, <1>8, <1>9, QuietCat DEF TypeInv, TypeOK, Stays

(* Files come and go, and the task takes one in hand.                      *)
LEMMA FilesCat ==
  ASSUME TypeInv, CatInv, LockInv, NEW t \in Tasks,
         \/ ListFiles(t)
         \/ \E f \in Files : \/ DropFile(t, f) \/ UpdateFile(t, f)
                            \/ CreateRequirementFile(t, f)
  PROVE  CatInv'
<1>1. /\ UNCHANGED <<repository, owns, commits>>
      /\ \A u \in Tasks \ {t} : pc'[u] = pc[u] /\ task'[u] = task[u]
      /\ pc[t] \in Writing /\ pc'[t] \in Writing
  BY DEF ListFiles, DropFile, UpdateFile, CreateRequirementFile, DeleteFile,
         CreateFile, graphVars, environment, Goto, Locally, Writing, TypeInv,
         TypeOK
<1>2. \A r : NodesOf(r)' = NodesOf(r)
  BY <1>1 DEF NodesOf
<1>3. ASSUME task'[t].node = task[t].node, task'[t].seen = task[t].seen,
             task'[t].commit = task[t].commit, pc'[t] # "list",
             Mine(t, task[t].file) => Mine(t, task'[t].file),
             \A f \in Files : Mine(t, task'[t].existing[f]),
             \A id \in FileIds : \/ uses'[id] \in {uses[id], None}
                                 \/ uses'[id] \in NodesOf(RepoOf[id[1]])
      PROVE  CatInv'
  <2>1. FilesBelong' /\ OwnersBelong'
    BY <1>1, <1>2, <1>3 DEF CatInv, FilesBelong, OwnersBelong
  <2>2. TasksBelong'
    BY <1>1, <1>3 DEF CatInv, TasksBelong, Mine
  <2>3. MomentsKnown'
    BY <1>1, <1>3 DEF CatInv, MomentsKnown, Current, Writing, Accepted, Window
  <2> QED
    BY <2>1, <2>2, <2>3 DEF CatInv
<1>4. \A f \in Files : Mine(t, task[t].existing[f])
  BY DEF CatInv, TasksBelong
<1>5. CASE ListFiles(t)
  <2>1. PICK e \in FilesRead(task[t].node) :
          Locally(t, [task[t] EXCEPT !.existing = e])
    BY <1>5 DEF ListFiles
  <2> DEFINE l == [task[t] EXCEPT !.existing = e]
  <2>2. /\ l.node = task[t].node /\ l.seen = task[t].seen
        /\ l.commit = task[t].commit /\ Locally(t, l)
        /\ l.file = task[t].file /\ l.existing = e
    BY <2>1, LocalsType DEF Locals
  <2> HIDE DEF l
  <2>3. task'[t] = l /\ UNCHANGED uses
    BY <1>5, <2>2 DEF Locally, ListFiles, graphVars, TypeInv, TypeOK
  <2>4. task[t].node # None
    BY <1>5 DEF ListFiles, Goto, CatInv, TasksBelong
  <2>5. task[t].node \in NodesOf(RepoOf[t])
    BY <2>4, TaskFacts DEF LockInv, NodesTrue, NodesOf
  <2>6. ASSUME NEW f \in Files, e[f] # None PROVE RepoOf[e[f][1]] = RepoOf[t]
    <3>1. e[f] \in FileIds /\ uses[e[f]] = task[t].node
      BY <2>1, <2>6 DEF FilesRead, FilesNamed
    <3>2. uses[e[f]] \in NodesOf(RepoOf[e[f][1]])
      BY <2>4, <3>1 DEF CatInv, FilesBelong
    <3> QED
      BY <2>5, <3>1, <3>2 DEF NodesOf
  <2>7. pc'[t] = "files"
    BY <1>5 DEF ListFiles, Goto, TypeInv, TypeOK
  <2> QED
    BY <1>3, <2>2, <2>3, <2>4, <2>6, <2>7 DEF Mine
<1>6. ASSUME NEW f \in Files, DropFile(t, f) PROVE CatInv'
  <2> DEFINE l == [task[t] EXCEPT !.existing[f] = None]
  <2>1. /\ l.node = task[t].node /\ l.seen = task[t].seen
        /\ l.commit = task[t].commit /\ Locally(t, l)
        /\ l.file = task[t].file
        /\ \A g \in Files : l.existing[g] \in {task[t].existing[g], None}
    BY <1>6, LocalsType, TaskFacts DEF DropFile, Locals
  <2> HIDE DEF l
  <2>2. task'[t] = l /\ pc'[t] = "files"
    BY <1>6, <2>1 DEF Locally, DropFile, TypeInv, TypeOK
  <2>3. \A id \in FileIds : uses'[id] \in {uses[id], None}
    BY <1>6 DEF DropFile, DeleteFile
  <2> QED
    BY <1>3, <1>4, <2>1, <2>2, <2>3 DEF Mine
<1>7. ASSUME NEW f \in Files, UpdateFile(t, f) PROVE CatInv'
  <2>1. PICK have, want :
          Locally(t, [task[t] EXCEPT !.file = task[t].existing[f],
                                     !.existing[f] = None, !.todo = @ \ {f},
                                     !.have = have, !.want = want])
    BY <1>7 DEF UpdateFile
  <2> DEFINE l == [task[t] EXCEPT !.file = task[t].existing[f],
                                  !.existing[f] = None, !.todo = @ \ {f},
                                  !.have = have, !.want = want]
  <2>2. /\ l.node = task[t].node /\ l.seen = task[t].seen
        /\ l.commit = task[t].commit /\ Locally(t, l)
        /\ l.file = task[t].existing[f]
        /\ \A g \in Files : l.existing[g] \in {task[t].existing[g], None}
    BY <2>1, LocalsType, TaskFacts DEF Locals
  <2> HIDE DEF l
  <2>3. task'[t] = l /\ pc'[t] = "packages" /\ UNCHANGED uses
    BY <1>7, <2>2 DEF Locally, UpdateFile, Goto, graphVars, TypeInv, TypeOK
  <2> QED
    BY <1>3, <1>4, <2>2, <2>3 DEF Mine
<1>8. ASSUME NEW f \in Files, CreateRequirementFile(t, f) PROVE CatInv'
  <2> DEFINE l == [task[t] EXCEPT
       !.file = IF NodeExists(task[t].node) THEN <<t, f>> ELSE None,
       !.todo = @ \ {f}, !.want = task[t].raw[f]]
  <2>1. /\ l.node = task[t].node /\ l.seen = task[t].seen
        /\ l.commit = task[t].commit /\ Locally(t, l)
        /\ l.file = IF NodeExists(task[t].node) THEN <<t, f>> ELSE None
        /\ l.existing = task[t].existing
    BY <1>8, LocalsType DEF CreateRequirementFile, Locals
  <2> HIDE DEF l
  <2>2. task'[t] = l /\ pc'[t] = "packages"
    BY <1>8, <2>1 DEF Locally, CreateRequirementFile, Goto, TypeInv, TypeOK
  <2>3. Mine(t, l.file)
    BY <2>1 DEF Mine, NodeExists
  <2>4. \A id \in FileIds : \/ uses'[id] \in {uses[id], None}
                          \/ uses'[id] \in NodesOf(RepoOf[id[1]])
    <3>1. CASE NodeExists(task[t].node)
      <4>1. task[t].node \in NodesOf(RepoOf[t])
        BY <3>1, TaskFacts DEF NodeExists, LockInv, NodesTrue, NodesOf
      <4>2. uses' = [uses EXCEPT ![<<t, f>>] = task[t].node]
        BY <1>8, <3>1 DEF CreateRequirementFile, CreateFile
      <4> QED
        BY <4>1, <4>2 DEF TypeInv, TypeOK, GraphTypeOK, FileIds
    <3>2. CASE ~NodeExists(task[t].node)
      BY <1>8, <3>2 DEF CreateRequirementFile, CreateFile
    <3> QED
      BY <3>1, <3>2
  <2> QED
    BY <1>3, <1>4, <2>1, <2>2, <2>3, <2>4 DEF Mine
<1> QED
  BY <1>5, <1>6, <1>7, <1>8

-----------------------------------------------------------------------------
(* The steps that write repositories and owners.                           *)

(* One node changes in one field, and nothing else does.                   *)
Becomes(n, m, b) ==
  /\ repository[n] # None /\ repository'[n] # None
  /\ repository'[n].repo = repository[n].repo
  /\ repository'[n].moment = m
  /\ repository'[n].complete = b
  /\ \A x \in Tasks \ {n} : repository'[x] = repository[x]

LEMMA FlagBecomes ==
  ASSUME TypeInv, NEW n \in Tasks \cup {None}, NEW b \in BOOLEAN, SetFlag(n, b)
  PROVE  IF NodeExists(n) THEN Becomes(n, repository[n].moment, b)
                          ELSE UNCHANGED repository
<1> DEFINE Node == [repo : Repos, moment : Nat, complete : BOOLEAN]
<1>1. repository \in [Tasks -> Node \cup {None}]
  BY DEF TypeInv, TypeOK, GraphTypeOK
<1>2. CASE NodeExists(n)
  <2>1. n \in Tasks /\ repository[n] \in Node
    BY <1>1, <1>2 DEF NodeExists
  <2> DEFINE new == [repository[n] EXCEPT !.complete = b]
  <2>2. /\ new \in Node /\ new.repo = repository[n].repo /\ new.complete = b
        /\ new.moment = repository[n].moment
    BY <2>1
  <2>3. repository' = [repository EXCEPT ![n] = new]
    BY <1>2 DEF SetFlag
  <2> HIDE DEF new
  <2>4. new # None /\ repository[n] # None
    BY <2>1, <2>2, NoneAssumption
  <2> QED
    BY <1>1, <1>2, <2>1, <2>2, <2>3, <2>4 DEF Becomes
<1>3. CASE ~NodeExists(n)
  BY <1>3 DEF SetFlag
<1> QED
  BY <1>2, <1>3

LEMMA MomentBecomes ==
  ASSUME TypeInv, NEW n \in Tasks \cup {None}, NEW m \in Nat, SetMoment(n, m)
  PROVE  IF NodeExists(n) THEN Becomes(n, m, repository[n].complete)
                          ELSE UNCHANGED repository
<1> DEFINE Node == [repo : Repos, moment : Nat, complete : BOOLEAN]
<1>1. repository \in [Tasks -> Node \cup {None}]
  BY DEF TypeInv, TypeOK, GraphTypeOK
<1>2. CASE NodeExists(n)
  <2>1. n \in Tasks /\ repository[n] \in Node
    BY <1>1, <1>2 DEF NodeExists
  <2> DEFINE new == [repository[n] EXCEPT !.moment = m]
  <2>2. /\ new \in Node /\ new.repo = repository[n].repo /\ new.moment = m
        /\ new.complete = repository[n].complete
    BY <2>1
  <2>3. repository' = [repository EXCEPT ![n] = new]
    BY <1>2 DEF SetMoment
  <2> HIDE DEF new
  <2>4. new # None /\ repository[n] # None
    BY <2>1, <2>2, NoneAssumption
  <2> QED
    BY <1>1, <1>2, <2>1, <2>2, <2>3, <2>4 DEF Becomes
<1>3. CASE ~NodeExists(n)
  BY <1>3 DEF SetMoment
<1> QED
  BY <1>2, <1>3

LEMMA BecomesNodes ==
  ASSUME NEW n \in Tasks, NEW m, NEW b, Becomes(n, m, b)
  PROVE  \A r : NodesOf(r)' = NodesOf(r)
BY DEF Becomes, NodesOf

(* A task that only moves on, or a node that changes where no other task    *)
(* stands between its read and its first write.                            *)
LEMMA RecordCat ==
  ASSUME TypeInv, CatInv, NEW t \in Tasks,
         UNCHANGED <<task, owns, uses, commits>>,
         \A u \in Tasks \ {t} : pc'[u] = pc[u],
         pc'[t] \notin Accepted,
         pc'[t] = "list" => task[t].node # None,
         \A r : NodesOf(r)' = NodesOf(r),
         \A n \in Tasks : repository[n] # None => repository'[n] # None,
         \A u \in Tasks \ {t} :
           pc[u] \in Accepted /\ task[u].node # None /\ Current(u) =>
             /\ repository'[task[u].node].moment = repository[task[u].node].moment
             /\ repository'[task[u].node].complete
  PROVE  CatInv'
<1>1. FilesBelong'
  BY DEF CatInv, FilesBelong
<1>2. OwnersBelong'
  BY DEF CatInv, OwnersBelong, TypeInv, TypeOK, GraphTypeOK
<1>3. TasksBelong'
  BY DEF CatInv, TasksBelong, Mine
<1>4. MomentsKnown'
  BY DEF CatInv, MomentsKnown, Current, Accepted, Window
<1> QED
  BY <1>1, <1>2, <1>3, <1>4 DEF CatInv

LEMMA MarkCat ==
  ASSUME TypeInv, LockInv, CatInv, NEW t \in Tasks, MarkIncomplete(t)
  PROVE  CatInv'
<1> DEFINE n == task[t].node
<1>1. /\ pc[t] = "mark" /\ pc'[t] = "list"
      /\ UNCHANGED <<task, owns, uses, commits>>
      /\ \A u \in Tasks \ {t} : pc'[u] = pc[u]
  BY DEF MarkIncomplete, SetFlag, environment, Goto, TypeInv, TypeOK
<1>2. n \in Tasks /\ n # None /\ NodeExists(n)
  BY <1>1, TaskFacts
     DEF LockInv, RecordCurrent, Accepted, Window, NodesTrue, NodeExists
<1>3. Becomes(n, repository[n].moment, FALSE)
  BY <1>2, FlagBecomes DEF MarkIncomplete
<1> HIDE DEF n
<1>4. \A r : NodesOf(r)' = NodesOf(r)
  BY <1>2, <1>3, BecomesNodes
<1>5. \A x \in Tasks : repository[x] # None =>
        /\ repository'[x] # None /\ repository'[x].moment = repository[x].moment
        /\ x # n => repository'[x].complete = repository[x].complete
  BY <1>3 DEF Becomes
<1>6. \A u \in Tasks : task[u].node # None =>
        task[u].node \in Tasks /\ repository[task[u].node] # None
  BY TaskFacts DEF LockInv, NodesTrue
<1>7. \A u \in Tasks \ {t} : pc[u] \in Accepted => task[u].node # n
  BY <1>1, <1>2 DEF LockInv, NodesTrue, WindowExclusive, Sibling, Accepted,
                    Window, n
<1> QED
  BY <1>1, <1>2, <1>4, <1>5, <1>6, <1>7, RecordCat
     DEF Accepted, Window, Current, n

LEMMA CompleteCat ==
  ASSUME TypeInv, LockInv, CatInv, NEW t \in Tasks, SetComplete(t)
  PROVE  CatInv'
<1> DEFINE n == task[t].node
<1>1. /\ pc'[t] = "own" /\ UNCHANGED <<task, owns, uses, commits>>
      /\ pc[t] \in Writing /\ \A u \in Tasks \ {t} : pc'[u] = pc[u]
  BY DEF SetComplete, FilesDone, SetFlag, environment, Writing, TypeInv, TypeOK
<1>2. n \in Tasks \cup {None} /\ SetFlag(n, TRUE)
  BY TaskFacts DEF SetComplete
<1>3. IF NodeExists(n) THEN Becomes(n, repository[n].moment, TRUE)
                       ELSE UNCHANGED repository
  BY <1>2, FlagBecomes
<1> HIDE DEF n
<1>4. \A r : NodesOf(r)' = NodesOf(r)
  BY <1>2, <1>3, BecomesNodes DEF NodesOf, NodeExists
<1>5. \A x \in Tasks : repository[x] # None =>
        /\ repository'[x] # None /\ repository'[x].moment = repository[x].moment
        /\ repository[x].complete => repository'[x].complete
  BY <1>3 DEF Becomes
<1>6. \A u \in Tasks : task[u].node # None =>
        task[u].node \in Tasks /\ repository[task[u].node] # None
  BY TaskFacts DEF LockInv, NodesTrue
<1> QED
  BY <1>1, <1>4, <1>5, <1>6, RecordCat DEF Accepted, Window, Current

LEMMA MomentCat ==
  ASSUME TypeInv, LockInv, CatInv, NEW t \in Tasks, UpdateMoment(t)
  PROVE  CatInv'
<1> DEFINE n == task[t].node
           now == commits[RepoOf[t]]
<1>1. /\ pc[t] = "files" /\ pc'[t] = "finish"
      /\ UNCHANGED <<task, owns, uses, commits>>
      /\ \A u \in Tasks \ {t} : pc'[u] = pc[u]
  BY DEF UpdateMoment, FilesDone, SetMoment, environment, Goto, TypeInv, TypeOK
<1>2. n \in Tasks \cup {None} /\ now \in Nat /\ SetMoment(n, now)
  BY TaskFacts, RequestAssumption DEF UpdateMoment, TypeInv, TypeOK
<1>3. IF NodeExists(n) THEN Becomes(n, now, repository[n].complete)
                       ELSE UNCHANGED repository
  BY <1>2, MomentBecomes
<1>4. ASSUME NEW u \in Tasks \ {t}, pc[u] \in Accepted, task[u].node # None
      PROVE  task[u].node # n /\ task[u].node \in Tasks
                              /\ repository[task[u].node] # None
  <2>1. task[u].node = n => RepoOf[u] = RepoOf[t]
    BY <1>4 DEF LockInv, NodesTrue
  <2> QED
    BY <1>1, <1>4, <2>1, TaskFacts
       DEF LockInv, NodesTrue, AcceptedAlone, Sibling, Writing
<1> HIDE DEF n, now
<1>5. \A r : NodesOf(r)' = NodesOf(r)
  BY <1>2, <1>3, BecomesNodes DEF NodesOf, NodeExists
<1>6. \A x \in Tasks : repository[x] # None => repository'[x] # None
  BY <1>3 DEF Becomes
<1>7. \A u \in Tasks \ {t} : pc[u] \in Accepted /\ task[u].node # None =>
        /\ repository'[task[u].node].moment = repository[task[u].node].moment
        /\ repository'[task[u].node].complete = repository[task[u].node].complete
  BY <1>3, <1>4 DEF Becomes
<1> QED
  BY <1>1, <1>5, <1>6, <1>7, RecordCat DEF Accepted, Window, Current

(* A new node carries the task's commit and has no file and no owner but    *)
(* the one it is created with.                                             *)
LEMMA NewNode ==
  ASSUME TypeInv, LockInv, NEW t \in Tasks, CreateRepository(t),
         UserOf[t] \in KnownUsers
  PROVE  /\ \A n \in Tasks \ {t} : repository'[n] = repository[n]
         /\ repository[t] = None /\ repository'[t] # None
         /\ repository'[t] = [repo |-> RepoOf[t], moment |-> task[t].commit,
                              complete |-> FALSE]
         /\ owns' = owns \cup {[user |-> UserOf[t], node |-> t, by |-> t]}
         /\ task'[t] = [task[t] EXCEPT !.node = t]
<1> DEFINE r == RepoOf[t]
           new == [repo |-> r, moment |-> task[t].commit, complete |-> FALSE]
<1>1. NodesOf(r) = {} /\ task[t].node = None
  BY DEF CreateRepository, Goto, LockInv, RecordCurrent, Accepted, Window
<1>2. repository[t] = None
  BY <1>1 DEF LockInv, NodesTrue, NodesOf
<1>3. MergedWith(r, task[t].commit) = {}
  BY <1>1 DEF MergedWith
<1>4. /\ repository' = [repository EXCEPT ![t] = new]
      /\ owns' = owns \cup {[user |-> UserOf[t], node |-> n, by |-> t] : n \in {t}}
      /\ Locally(t, [task[t] EXCEPT !.node = t])
  BY <1>3 DEF CreateRepository, CreateRepositoryNode
<1>5. new \in [repo : Repos, moment : Nat, complete : BOOLEAN]
  BY TaskFacts, RequestAssumption
<1>6. new # None
  BY <1>5, NoneAssumption
<1>7. repository'[t] = new /\ \A n \in Tasks \ {t} : repository'[n] = repository[n]
  BY <1>4 DEF TypeInv, TypeOK, GraphTypeOK
<1>8. task'[t] = [task[t] EXCEPT !.node = t]
  BY <1>4 DEF Locally, TypeInv, TypeOK
<1>9. owns' = owns \cup {[user |-> UserOf[t], node |-> t, by |-> t]}
  BY <1>4
<1> QED
  BY <1>2, <1>6, <1>7, <1>8, <1>9

LEMMA CreateCat ==
  ASSUME TypeInv, LockInv, CatInv, NEW t \in Tasks, CreateRepository(t)
  PROVE  CatInv'
<1>1. /\ pc[t] = "create" /\ pc'[t] = "files" /\ UNCHANGED <<uses, commits>>
      /\ \A u \in Tasks \ {t} : pc'[u] = pc[u] /\ task'[u] = task[u]
  BY DEF CreateRepository, CreateRepositoryNode, Goto, Locally, graphVars,
         environment, TypeInv, TypeOK
<1>2. CASE UserOf[t] \notin KnownUsers
  <2>1. UNCHANGED <<repository, owns, task>> /\ \A r : NodesOf(r)' = NodesOf(r)
    BY <1>2 DEF CreateRepository, graphVars, NodesOf
  <2> QED
    BY <1>1, <2>1, RecordCat DEF Accepted, Window, Current
<1>3. CASE UserOf[t] \in KnownUsers
  <2>1. /\ \A n \in Tasks \ {t} : repository'[n] = repository[n]
        /\ repository[t] = None /\ repository'[t] # None
        /\ owns' = owns \cup {[user |-> UserOf[t], node |-> t, by |-> t]}
    BY <1>3, NewNode
  <2>2. /\ task'[t].node = t /\ task'[t].seen = task[t].seen
        /\ task'[t].commit = task[t].commit /\ task'[t].file = task[t].file
        /\ task'[t].existing = task[t].existing
    BY <1>3, NewNode, LocalsType DEF Locals
  <2>3. \A r : NodesOf(r) \subseteq NodesOf(r)'
    BY <2>1 DEF NodesOf
  <2>4. FilesBelong'
    BY <1>1, <2>3 DEF CatInv, FilesBelong
  <2>5. OwnersBelong'
    BY <2>1 DEF CatInv, OwnersBelong, TypeInv, TypeOK, GraphTypeOK
  <2>6. TasksBelong'
    BY <1>1, <2>2, NoneAssumption DEF CatInv, TasksBelong, Mine
  <2>7. \A u \in Tasks : task[u].node # t
    BY <2>1, NoneAssumption DEF LockInv, NodesTrue
  <2>8. MomentsKnown'
    BY <1>1, <2>1, <2>2, <2>7, TaskFacts DEF CatInv, MomentsKnown, Current, Accepted, Window
  <2> QED
    BY <2>4, <2>5, <2>6, <2>8 DEF CatInv
<1> QED
  BY <1>2, <1>3

LEMMA OwnCat ==
  ASSUME TypeInv, CatInv, NEW t \in Tasks, OwnRepository(t)
  PROVE  CatInv'
<1>1. /\ pc[t] = "own" /\ pc'[t] = "done"
      /\ UNCHANGED <<repository, uses, commits, task>>
      /\ \A u \in Tasks \ {t} : pc'[u] = pc[u]
  BY DEF OwnRepository, MergeOwner, environment, Goto, TypeInv, TypeOK
<1>2. \A r : NodesOf(r)' = NodesOf(r)
  BY <1>1 DEF NodesOf
<1>3. FilesBelong' /\ TasksBelong'
  BY <1>1, <1>2 DEF CatInv, FilesBelong, TasksBelong, Mine
<1>4. OwnersBelong'
  BY <1>1 DEF OwnRepository, MergeOwner, NodeExists, CatInv, OwnersBelong
<1>5. MomentsKnown'
  BY <1>1 DEF CatInv, MomentsKnown, Current, Accepted, Window
<1> QED
  BY <1>3, <1>4, <1>5 DEF CatInv

LEMMA CatNext ==
  TypeInv /\ LockInv /\ CatInv /\ [Next]_vars => CatInv'
<1> SUFFICES ASSUME TypeInv, LockInv, CatInv, [Next]_vars PROVE CatInv'
  OBVIOUS
<1>1. ASSUME NEW t \in Tasks, Persist(t) PROVE CatInv'
  BY <1>1, CreateCat, MarkCat, FilesCat, PackagesCat, MomentCat, CompleteCat,
     OwnCat DEF Persist
<1>2. ASSUME NEW t \in Tasks, Fail(t) PROVE CatInv'
  <2>1. Moves(t)
    BY <1>2, FailFrame DEF Frame
  <2>2. /\ UNCHANGED <<repository, owns, uses, commits, task>>
        /\ pc'[t] = "failed"
    BY <1>2 DEF Fail, graphVars, TypeInv, TypeOK
  <2> QED
    BY <2>1, <2>2, QuietCat, UnchangedLocals DEF TypeInv, TypeOK
<1>3. ASSUME \/ UNCHANGED vars
             \/ \E r \in Repos : Commit(r)
             \/ \E m \in stream : Extract(m)
      PROVE  CatInv'
  <2>1. UNCHANGED <<repository, owns, uses, pc, task>>
    BY <1>3 DEF Commit, Extract, ExtractInto, vars, graphVars
  <2>2. \A r \in Repos : commits'[r] \in Nat /\ commits'[r] >= commits[r]
    BY <1>3 DEF Commit, Extract, environment, vars, TypeInv, TypeOK
  <2>3. CASE Tasks = {}
    BY <2>1, <2>3, RequestAssumption
       DEF CatInv, FilesBelong, OwnersBelong, TasksBelong, MomentsKnown, Current,
           FileIds, TypeInv, TypeOK, GraphTypeOK
  <2>4. ASSUME NEW t \in Tasks PROVE CatInv'
    BY <2>1, <2>2, StayMoves, QuietCat, UnchangedLocals
  <2> QED
    BY <2>3, <2>4
<1> QED
  BY <1>1, <1>2, <1>3, HandleCat, DownloadCat DEF Next

-----------------------------------------------------------------------------
(* What a reader sees of each repository, and what leaves it as it is.     *)

SameRecordOf(r) == RecordOf(r)' = RecordOf(r)
SameHoldersOf(r) == HoldersOf(r)' = HoldersOf(r)
SameBelowOf(r) == BelowOf(r)' = BelowOf(r)

LEMMA OnlyRecord ==
  ASSUME NEW r, NEW n, NodesOf(r) = {n}
  PROVE  RecordOf(r) = [moment |-> repository[n].moment,
                        complete |-> repository[n].complete]
<1>1. (CHOOSE x \in {n} : TRUE) = n
  OBVIOUS
<1> QED
  BY <1>1 DEF RecordOf

LEMMA OnlyNode ==
  ASSUME LockInv, NEW n \in Tasks, repository[n] # None
  PROVE  repository[n].repo = RepoOf[n] /\ NodesOf(RepoOf[n]) = {n}
BY RequestAssumption DEF LockInv, NodesTrue, OneRepositoryPerName, NodesOf

LEMMA TaskNode ==
  ASSUME TypeInv, LockInv, NEW t \in Tasks, task[t].node # None
  PROVE  /\ task[t].node \in Tasks /\ NodeExists(task[t].node)
         /\ RepoOf[task[t].node] = RepoOf[t]
         /\ NodesOf(RepoOf[t]) = {task[t].node}
<1>1. task[t].node \in Tasks /\ repository[task[t].node] # None
  BY TaskFacts DEF LockInv, NodesTrue
<1>2. RepoOf[task[t].node] = RepoOf[t]
  BY <1>1, OnlyNode DEF LockInv, NodesTrue
<1> QED
  BY <1>1, <1>2, OnlyNode DEF NodeExists

LEMMA SameHolders ==
  ASSUME UNCHANGED owns, NEW r, NodesOf(r)' = NodesOf(r)
  PROVE  SameHoldersOf(r)
BY DEF SameHoldersOf, HoldersOf

LEMMA SameRepository ==
  ASSUME UNCHANGED repository, NEW r
  PROVE  NodesOf(r)' = NodesOf(r) /\ SameRecordOf(r)
BY DEF NodesOf, SameRecordOf, RecordOf

LEMMA SameBelow ==
  ASSUME TypeInv, TypeInv', FilesBelong, FilesBelong', NEW r \in Repos,
         NodesOf(r)' = NodesOf(r),
         \A id \in FileIds : RepoOf[id[1]] = r =>
           uses'[id] = uses[id] /\ RelationsOf(id)' = RelationsOf(id)
  PROVE  SameBelowOf(r)
<1>1. \A q \in requires \cup requires' : q.file \in FileIds
  BY DEF TypeInv, TypeOK, GraphTypeOK, Relation
<1>2. NodesOf(r) \subseteq Tasks
  BY DEF NodesOf
<1>3. \A id \in FileIds : uses[id] \in NodesOf(r) => RepoOf[id[1]] = r
  BY <1>2, NoneAssumption DEF FilesBelong, NodesOf
<1>4. \A id \in FileIds : uses'[id] \in NodesOf(r) => RepoOf[id[1]] = r
  BY <1>2, NoneAssumption DEF FilesBelong, NodesOf
<1>5. {x \in requires : uses[x.file] \in NodesOf(r)}
        = {x \in requires' : uses'[x.file] \in NodesOf(r)}
  BY <1>1, <1>3, <1>4 DEF RelationsOf
<1> QED
  BY <1>5 DEF SameBelowOf, BelowOf

LEMMA StillBelow ==
  ASSUME UNCHANGED <<uses, requires>>, NEW r, NodesOf(r)' = NodesOf(r)
  PROVE  SameBelowOf(r)
BY DEF SameBelowOf, BelowOf

LEMMA Stutter ==
  ASSUME UNCHANGED <<commits, repository, owns, uses, requires>>
  PROVE  UNCHANGED Catalog!vars
<1>1. \A r : SameRecordOf(r) /\ SameHoldersOf(r) /\ SameBelowOf(r)
  BY SameRepository, SameHolders, StillBelow
<1> QED
  BY <1>1 DEF Catalog!vars, SameRecordOf, SameHoldersOf, SameBelowOf

-----------------------------------------------------------------------------
(* Every step is one of the catalog.                                       *)

LEMMA CommitStep ==
  ASSUME TypeInv, NEW r \in Repos, Commit(r)
  PROVE  Catalog!Push(r)
<1>1. UNCHANGED <<repository, owns, uses, requires>>
  BY DEF Commit, graphVars
<1>2. \A x : SameRecordOf(x) /\ SameHoldersOf(x) /\ SameBelowOf(x)
  BY <1>1, SameRepository, SameHolders, StillBelow
<1> QED
  BY <1>2 DEF Commit, Catalog!Push, SameRecordOf, SameHoldersOf, SameBelowOf

(* What lies below the task's own repository changes, while it is marked.  *)
LEMMA RewriteStep ==
  ASSUME TypeInv, TypeInv', LockInv, CatInv, CatInv', NEW t \in Tasks,
         pc[t] \in Writing, task[t].node # None,
         UNCHANGED <<commits, repository, owns>>,
         \A id \in FileIds : RepoOf[id[1]] # RepoOf[t] =>
           uses'[id] = uses[id] /\ RelationsOf(id)' = RelationsOf(id)
  PROVE  Catalog!Rewrite(RepoOf[t])
<1> DEFINE R == RepoOf[t]
<1>1. R \in Repos
  BY RequestAssumption
<1>2. \A x : NodesOf(x)' = NodesOf(x) /\ SameRecordOf(x) /\ SameHoldersOf(x)
  BY SameRepository, SameHolders
<1>3. \A x \in Repos : x # R => SameBelowOf(x)
  BY <1>2, SameBelow DEF CatInv
<1>4. BelowOf(R)' \subseteq Files \X Packages \X Constraints
  BY DEF TypeInv, TypeOK, GraphTypeOK, Relation, FileIds, BelowOf
<1>5. RecordOf(R) # None /\ ~RecordOf(R).complete
  <2>1. RecordOf(R) = [moment |-> repository[task[t].node].moment,
                       complete |-> repository[task[t].node].complete]
    BY TaskNode, OnlyRecord
  <2>2. /\ ~repository[task[t].node].complete
        /\ RecordOf(R) \in [moment : Nat, complete : BOOLEAN]
    BY <2>1, TaskNode
       DEF LockInv, WritersLock, NodeExists, TypeInv, TypeOK, GraphTypeOK
  <2> QED
    BY <2>1, <2>2, RecordAssumption
<1> QED
  BY <1>1, <1>2, <1>3, <1>4, <1>5
     DEF Catalog!Rewrite, Catalog!Processing, SameRecordOf, SameHoldersOf,
         SameBelowOf

LEMMA RelationsTouched ==
  ASSUME NEW id \in FileIds,
         \/ \E p \in Packages : \E c : SetConstraint(id, p, c)
         \/ \E p \in Packages : DeleteRelation(id, p)
         \/ \E t \in Tasks : \E batch : RelateAll(t, id, batch)
  PROVE  /\ UNCHANGED <<repository, owns, uses>>
         /\ \A x \in FileIds : x # id => RelationsOf(x)' = RelationsOf(x)
<1>1. UNCHANGED <<repository, owns, uses>>
  BY DEF SetConstraint, DeleteRelation, RelateAll
<1>2. ASSUME NEW x \in FileIds, x # id PROVE RelationsOf(x)' = RelationsOf(x)
  <2>1. ASSUME NEW p \in Packages, NEW c, SetConstraint(id, p, c)
        PROVE  RelationsOf(x)' = RelationsOf(x)
    <3> DEFINE change(q) == IF q.file = id /\ q.pkg = p
                            THEN [q EXCEPT !.con = c] ELSE q
    <3>1. requires' = {change(q) : q \in requires}
      BY <2>1 DEF SetConstraint, ChangeRelations
    <3>2. ASSUME NEW q \in requires
          PROVE  IF q.file = x THEN change(q) = q ELSE change(q).file # x
      BY <1>2, <3>2
    <3> HIDE DEF change
    <3> QED
      BY <3>1, <3>2 DEF RelationsOf
  <2>2. ASSUME NEW p \in Packages, DeleteRelation(id, p)
        PROVE  RelationsOf(x)' = RelationsOf(x)
    BY <1>2, <2>2 DEF DeleteRelation, ChangeRelations, RelationsOf
  <2>3. ASSUME NEW t \in Tasks, NEW batch, RelateAll(t, id, batch)
        PROVE  RelationsOf(x)' = RelationsOf(x)
    BY <1>2, <2>3 DEF RelateAll, ChangeRelations, RelationsOf
  <2> QED
    BY <2>1, <2>2, <2>3
<1> QED
  BY <1>1, <1>2

LEMMA PackagesStep ==
  ASSUME TypeInv, TypeInv', LockInv, CatInv, CatInv', NEW t \in Tasks,
         \/ RelatePackages(t)
         \/ \E p \in Packages : ChangeConstraint(t, p) \/ RemovePackage(t, p)
  PROVE  Catalog!Rewrite(RepoOf[t]) \/ UNCHANGED Catalog!vars
<1> DEFINE id == task[t].file
<1>1. pc[t] \in Writing /\ UNCHANGED commits
  BY DEF RelatePackages, ChangeConstraint, RemovePackage, environment, Goto,
         Writing
<1>2. id \in FileIds \cup {None}
  BY TaskFacts DEF Locals
<1>3. \/ RelateAll(t, id, task[t].batch)
      \/ \E p \in Packages : \/ SetConstraint(id, p, task[t].want[p])
                             \/ DeleteRelation(id, p)
  BY DEF RelatePackages, ChangeConstraint, RemovePackage
<1>4. UNCHANGED <<repository, owns, uses>>
  BY <1>3 DEF SetConstraint, DeleteRelation, RelateAll
<1>5. CASE id = None
  <2>1. \A q \in requires : q.file # None
    BY NoneAssumption DEF TypeInv, TypeOK, GraphTypeOK, Relation
  <2>2. requires' = requires
    BY <1>3, <1>5, <2>1
       DEF RelateAll, FileExists, SetConstraint, DeleteRelation, ChangeRelations
  <2> QED
    BY <1>1, <1>4, <2>2, Stutter
<1>6. CASE id # None
  <2>1. id \in FileIds /\ task[t].node # None /\ RepoOf[id[1]] = RepoOf[t]
    BY <1>2, <1>6 DEF CatInv, TasksBelong, Mine
  <2>2. \A x \in FileIds : x # id => RelationsOf(x)' = RelationsOf(x)
    BY <1>3, <2>1, RelationsTouched
  <2> HIDE DEF id
  <2>3. \A x \in FileIds : RepoOf[x[1]] # RepoOf[t] =>
          uses'[x] = uses[x] /\ RelationsOf(x)' = RelationsOf(x)
    BY <1>4, <2>1, <2>2
  <2> QED
    BY <1>1, <1>4, <2>1, <2>3, RewriteStep
<1> QED
  BY <1>5, <1>6

LEMMA FilesStep ==
  ASSUME TypeInv, TypeInv', LockInv, CatInv, CatInv', NEW t \in Tasks,
         NEW f \in Files, DropFile(t, f) \/ CreateRequirementFile(t, f)
  PROVE  Catalog!Rewrite(RepoOf[t]) \/ UNCHANGED Catalog!vars
<1>1. pc[t] \in Writing /\ UNCHANGED <<commits, repository, owns>>
  BY DEF DropFile, DeleteFile, CreateRequirementFile, CreateFile, environment,
         Goto, Writing
<1>2. CASE task[t].node = None
  <2>1. task[t].existing[f] = None
    BY <1>2 DEF CatInv, TasksBelong, Mine
  <2>2. UNCHANGED <<uses, requires>>
    BY <1>2, <2>1 DEF DropFile, CreateRequirementFile, CreateFile, NodeExists
  <2> QED
    BY <1>1, <2>2, Stutter
<1>3. CASE task[t].node # None
  <2>1. \A x \in FileIds : uses[x] = task[t].node => RepoOf[x[1]] = RepoOf[t]
    BY <1>3, TaskNode DEF CatInv, FilesBelong, NodesOf
  <2>2. \A x \in FileIds : RepoOf[x[1]] # RepoOf[t] =>
          uses'[x] = uses[x] /\ RelationsOf(x)' = RelationsOf(x)
    <3>1. CASE DropFile(t, f)
      <4>1. \A x \in Doomed(task[t].node, f) : x \in FileIds /\ uses[x] = task[t].node
        BY DEF Doomed, FilesNamed
      <4>2. /\ \A x \in FileIds : x \notin Doomed(task[t].node, f) =>
                 uses'[x] = uses[x]
            /\ requires' = {q \in requires : q.file \notin Doomed(task[t].node, f)}
        BY <3>1 DEF DropFile, DeleteFile
      <4> QED
        BY <2>1, <4>1, <4>2 DEF RelationsOf
    <3>2. CASE CreateRequirementFile(t, f)
      BY <3>2 DEF CreateRequirementFile, CreateFile, RelationsOf, FileIds, TypeInv,
                  TypeOK, GraphTypeOK
    <3> QED
      BY <3>1, <3>2
  <2> QED
    BY <1>1, <1>3, <2>2, RewriteStep
<1> QED
  BY <1>2, <1>3

(* A record changes for one repository, and nothing else does.             *)
LEMMA RecordStep ==
  ASSUME TypeInv, LockInv, NEW t \in Tasks, NEW m, NEW b,
         task[t].node # None, Becomes(task[t].node, m, b),
         UNCHANGED <<owns, uses, requires>>
  PROVE  /\ RecordOf(RepoOf[t])
              = [moment |-> repository[task[t].node].moment,
                 complete |-> repository[task[t].node].complete]
         /\ RecordOf(RepoOf[t])' = [moment |-> m, complete |-> b]
         /\ \A r : r # RepoOf[t] => SameRecordOf(r)
         /\ \A r : SameHoldersOf(r) /\ SameBelowOf(r)
         /\ RecordOf(RepoOf[t]) # None
<1> DEFINE n == task[t].node
<1>1. n \in Tasks /\ NodeExists(n) /\ NodesOf(RepoOf[t]) = {n}
  BY TaskNode
<1> HIDE DEF n
<1>2. \A r : NodesOf(r)' = NodesOf(r)
  BY <1>1, BecomesNodes DEF n
<1>3. RecordOf(RepoOf[t]) = [moment |-> repository[n].moment,
                             complete |-> repository[n].complete]
  BY <1>1, OnlyRecord
<1>4. RecordOf(RepoOf[t])' = [moment |-> m, complete |-> b]
  <2>1. NodesOf(RepoOf[t])' = {n}
    BY <1>1, <1>2
  <2>2. (CHOOSE x \in {n} : TRUE) = n
    OBVIOUS
  <2> QED
    BY <2>1, <2>2 DEF RecordOf, Becomes, n
<1>5. ASSUME NEW r, r # RepoOf[t] PROVE SameRecordOf(r)
  <2>1. n \notin NodesOf(r)
    BY <1>1, <1>5 DEF NodesOf
  <2>2. CASE NodesOf(r) = {}
    BY <1>2, <2>2 DEF SameRecordOf, RecordOf
  <2>3. CASE NodesOf(r) # {}
    <3>1. (CHOOSE x \in NodesOf(r) : TRUE) \in NodesOf(r)
      BY <2>3
    <3> DEFINE c == CHOOSE x \in NodesOf(r) : TRUE
    <3>2. c \in Tasks \ {n} /\ (CHOOSE x \in NodesOf(r)' : TRUE) = c
      BY <1>2, <2>1, <3>1 DEF NodesOf
    <3>3. repository'[c] = repository[c]
      BY <3>2 DEF Becomes, n
    <3> QED
      BY <1>2, <2>3, <3>2, <3>3 DEF SameRecordOf, RecordOf
  <2> QED
    BY <2>2, <2>3
<1>6. \A r : SameHoldersOf(r) /\ SameBelowOf(r)
  BY <1>2, SameHolders, StillBelow
<1>7. RecordOf(RepoOf[t]) # None
  BY <1>1, <1>3, RecordAssumption DEF NodeExists, TypeInv, TypeOK, GraphTypeOK
<1> QED
  BY <1>3, <1>4, <1>5, <1>6, <1>7 DEF n

View == [r \in Repos |-> RecordOf(r)]

LEMMA ViewStep ==
  ASSUME NEW R \in Repos, NEW e, RecordOf(R)' = e,
         \A r : r # R => SameRecordOf(r),
         \A r : SameHoldersOf(r) /\ SameBelowOf(r)
  PROVE  /\ View' = [View EXCEPT ![R] = e] /\ View[R] = RecordOf(R)
         /\ [r \in Repos |-> HoldersOf(r)]' = [r \in Repos |-> HoldersOf(r)]
         /\ [r \in Repos |-> BelowOf(r)]' = [r \in Repos |-> BelowOf(r)]
BY DEF View, SameRecordOf, SameHoldersOf, SameBelowOf

LEMMA MarkStep ==
  ASSUME TypeInv, LockInv, CatInv, NEW t \in Tasks, MarkIncomplete(t)
  PROVE  Catalog!Reopen(RepoOf[t])
<1> DEFINE n == task[t].node
           R == RepoOf[t]
<1>1. pc[t] = "mark" /\ UNCHANGED <<commits, owns, uses, requires>>
  BY DEF MarkIncomplete, SetFlag, environment, Goto
<1>2. n # None /\ R \in Repos
  BY <1>1, RequestAssumption DEF LockInv, RecordCurrent, Accepted, Window
<1>3. n \in Tasks /\ NodeExists(n)
  BY <1>2, TaskNode
<1>4. Becomes(n, repository[n].moment, FALSE)
  BY <1>3, FlagBecomes DEF MarkIncomplete
<1>5. repository[n].complete /\ repository[n].moment < commits[R]
  <2>1. Current(t) /\ task[t].seen < task[t].commit /\ task[t].commit <= commits[R]
    BY <1>1, <1>2 DEF CatInv, MomentsKnown, Accepted, Window
  <2>2. /\ repository[n].moment \in Nat /\ task[t].commit \in Nat
        /\ commits[R] \in Nat
    BY <1>2, <1>3, TaskFacts DEF NodeExists, TypeInv, TypeOK, GraphTypeOK
  <2> QED
    BY <2>1, <2>2 DEF Current
<1>6. /\ RecordOf(R) = [moment |-> repository[n].moment,
                         complete |-> repository[n].complete]
      /\ RecordOf(R)' = [moment |-> repository[n].moment, complete |-> FALSE]
      /\ \A r : r # R => SameRecordOf(r)
      /\ \A r : SameHoldersOf(r) /\ SameBelowOf(r)
      /\ RecordOf(R) # None
  BY <1>1, <1>2, <1>4, RecordStep
<1> HIDE DEF n, R
<1>7. /\ View' = [View EXCEPT ![R] = Catalog!Entry(View[R].moment, FALSE)]
      /\ View[R] = RecordOf(R)
      /\ [r \in Repos |-> HoldersOf(r)]' = [r \in Repos |-> HoldersOf(r)]
      /\ [r \in Repos |-> BelowOf(r)]' = [r \in Repos |-> BelowOf(r)]
  BY <1>2, <1>6, ViewStep DEF Catalog!Entry
<1> QED
  BY <1>1, <1>5, <1>6, <1>7 DEF Catalog!Reopen, Catalog!Complete, View, R

LEMMA MomentStep ==
  ASSUME TypeInv, LockInv, CatInv, NEW t \in Tasks, UpdateMoment(t)
  PROVE  Catalog!Restamp(RepoOf[t]) \/ UNCHANGED Catalog!vars
<1> DEFINE n == task[t].node
           R == RepoOf[t]
<1>1. /\ pc[t] \in Writing /\ UNCHANGED <<commits, owns, uses, requires>>
      /\ R \in Repos /\ commits[R] \in Nat
  BY RequestAssumption DEF UpdateMoment, FilesDone, SetMoment, environment,
     Writing, TypeInv, TypeOK
<1>2. CASE n = None
  BY <1>1, <1>2, Stutter DEF UpdateMoment, SetMoment, NodeExists
<1>3. CASE n # None
  <2>1. n \in Tasks /\ NodeExists(n)
    BY <1>3, TaskNode
  <2>2. Becomes(n, commits[R], repository[n].complete)
    BY <1>1, <2>1, MomentBecomes DEF UpdateMoment
  <2>3. ~repository[n].complete
    BY <1>1, <1>3 DEF LockInv, WritersLock
  <2>4. /\ RecordOf(R) = [moment |-> repository[n].moment,
                           complete |-> repository[n].complete]
        /\ RecordOf(R)' = [moment |-> commits[R],
                           complete |-> repository[n].complete]
        /\ \A r : r # R => SameRecordOf(r)
        /\ \A r : SameHoldersOf(r) /\ SameBelowOf(r)
        /\ RecordOf(R) # None
    BY <1>1, <1>3, <2>2, RecordStep
  <2> HIDE DEF n, R
  <2>5. Catalog!Restamp(R)
    <3>1. /\ View' = [View EXCEPT ![R] = Catalog!Entry(commits[R], View[R].complete)]
          /\ View[R] = RecordOf(R)
          /\ [r \in Repos |-> HoldersOf(r)]' = [r \in Repos |-> HoldersOf(r)]
          /\ [r \in Repos |-> BelowOf(r)]' = [r \in Repos |-> BelowOf(r)]
      BY <1>1, <2>4, ViewStep DEF Catalog!Entry
    <3> QED
      BY <1>1, <2>3, <2>4, <3>1 DEF Catalog!Restamp, Catalog!Processing, View
  <2> QED
    BY <2>5 DEF R
<1> QED
  BY <1>2, <1>3

LEMMA CompleteStep ==
  ASSUME TypeInv, LockInv, CatInv, NEW t \in Tasks, SetComplete(t)
  PROVE  Catalog!Release(RepoOf[t]) \/ UNCHANGED Catalog!vars
<1> DEFINE n == task[t].node
           R == RepoOf[t]
<1>1. /\ pc[t] \in Writing /\ UNCHANGED <<commits, owns, uses, requires>>
      /\ R \in Repos /\ SetFlag(n, TRUE)
  BY RequestAssumption DEF SetComplete, FilesDone, SetFlag, environment, Writing
<1>2. CASE n = None
  BY <1>1, <1>2, Stutter DEF SetFlag, NodeExists
<1>3. CASE n # None
  <2>1. n \in Tasks /\ NodeExists(n)
    BY <1>3, TaskNode
  <2>2. Becomes(n, repository[n].moment, TRUE)
    BY <1>1, <2>1, FlagBecomes
  <2>3. ~repository[n].complete
    BY <1>1, <1>3 DEF LockInv, WritersLock
  <2>4. /\ RecordOf(R) = [moment |-> repository[n].moment,
                           complete |-> repository[n].complete]
        /\ RecordOf(R)' = [moment |-> repository[n].moment, complete |-> TRUE]
        /\ \A r : r # R => SameRecordOf(r)
        /\ \A r : SameHoldersOf(r) /\ SameBelowOf(r)
        /\ RecordOf(R) # None
    BY <1>1, <1>3, <2>2, RecordStep
  <2> HIDE DEF n, R
  <2>5. Catalog!Release(R)
    <3>1. /\ View' = [View EXCEPT ![R] = Catalog!Entry(View[R].moment, TRUE)]
          /\ View[R] = RecordOf(R)
          /\ [r \in Repos |-> HoldersOf(r)]' = [r \in Repos |-> HoldersOf(r)]
          /\ [r \in Repos |-> BelowOf(r)]' = [r \in Repos |-> BelowOf(r)]
      BY <1>1, <2>4, ViewStep DEF Catalog!Entry
    <3> QED
      BY <1>1, <2>3, <2>4, <3>1 DEF Catalog!Release, Catalog!Processing, View
  <2> QED
    BY <2>5 DEF R
<1> QED
  BY <1>2, <1>3

(* An owner joins those of one repository.                                 *)
LEMMA Joins ==
  ASSUME NEW n, NEW user, NEW t,
         owns' = owns \cup {[user |-> user, node |-> n, by |-> t]},
         NEW r, NodesOf(r)' = NodesOf(r)
  PROVE  /\ n \notin NodesOf(r) => SameHoldersOf(r)
         /\ n \in NodesOf(r) => HoldersOf(r)' = HoldersOf(r) \cup {user}
<1>1. ASSUME n \notin NodesOf(r) PROVE SameHoldersOf(r)
  <2>1. {x \in owns : x.node \in NodesOf(r)} = {x \in owns' : x.node \in NodesOf(r)}
    BY <1>1
  <2> QED
    BY <2>1 DEF SameHoldersOf, HoldersOf
<1>2. ASSUME n \in NodesOf(r) PROVE HoldersOf(r)' = HoldersOf(r) \cup {user}
  <2> DEFINE new == [user |-> user, node |-> n, by |-> t]
  <2>1. {x \in owns' : x.node \in NodesOf(r)}
          = {x \in owns : x.node \in NodesOf(r)} \cup {new}
    BY <1>2
  <2>2. new.user = user
    OBVIOUS
  <2> HIDE DEF new
  <2> QED
    BY <2>1, <2>2 DEF HoldersOf
<1> QED
  BY <1>1, <1>2

LEMMA OwnStep ==
  ASSUME TypeInv, LockInv, NEW t \in Tasks, OwnRepository(t)
  PROVE  \/ \E u \in KnownUsers : Catalog!Grant(RepoOf[t], u)
         \/ UNCHANGED Catalog!vars
<1> DEFINE n == task[t].node
           R == RepoOf[t]
<1>1. UNCHANGED <<commits, repository, uses, requires>>
  BY DEF OwnRepository, MergeOwner, environment
<1>2. CASE UNCHANGED owns
  BY <1>1, <1>2, Stutter
<1>3. CASE ~UNCHANGED owns
  <2>1. /\ n # None /\ UserOf[t] \in KnownUsers
        /\ owns' = owns \cup {[user |-> UserOf[t], node |-> n, by |-> t]}
    BY <1>3 DEF OwnRepository, MergeOwner, NodeExists
  <2>2. NodeExists(n) /\ NodesOf(R) = {n} /\ R \in Repos /\ n \in Tasks
    BY <2>1, TaskNode, RequestAssumption
  <2>3. \A x : NodesOf(x)' = NodesOf(x) /\ SameRecordOf(x) /\ SameBelowOf(x)
    BY <1>1, SameRepository, StillBelow
  <2>4. \A x : x # R => n \notin NodesOf(x)
    BY <2>2 DEF NodesOf
  <2>5. \A x : x # R => SameHoldersOf(x)
    BY <2>1, <2>3, <2>4, Joins
  <2>6. HoldersOf(R)' = HoldersOf(R) \cup {UserOf[t]}
    BY <2>1, <2>2, <2>3, Joins
  <2>7. RecordOf(R) # None
    BY <2>2, OnlyRecord, RecordAssumption
       DEF NodeExists, TypeInv, TypeOK, GraphTypeOK
  <2>8. Catalog!Grant(R, UserOf[t])
    BY <1>1, <2>2, <2>3, <2>5, <2>6, <2>7
       DEF Catalog!Grant, Catalog!Absent, SameRecordOf, SameHoldersOf,
           SameBelowOf
  <2> QED
    BY <2>1, <2>8
<1> QED
  BY <1>2, <1>3

LEMMA CreateStep ==
  ASSUME TypeInv, LockInv, CatInv, NEW t \in Tasks, CreateRepository(t)
  PROVE  \/ \E u \in KnownUsers : Catalog!Register(RepoOf[t], u)
         \/ UNCHANGED Catalog!vars
<1> DEFINE R == RepoOf[t]
           e == [moment |-> task[t].commit, complete |-> FALSE]
<1>1. /\ UNCHANGED <<uses, requires, commits>> /\ R \in Repos
      /\ NodesOf(R) = {} /\ UserOf[t] \in Users
  BY RequestAssumption
     DEF CreateRepository, CreateRepositoryNode, graphVars, environment, Goto,
         LockInv, RecordCurrent, Accepted, Window
<1>2. CASE UserOf[t] \notin KnownUsers
  BY <1>1, <1>2, Stutter DEF CreateRepository, graphVars
<1>3. CASE UserOf[t] \in KnownUsers
  <2>1. /\ \A n \in Tasks \ {t} : repository'[n] = repository[n]
        /\ repository[t] = None /\ repository'[t] # None
        /\ repository'[t] = [repo |-> R, moment |-> task[t].commit,
                             complete |-> FALSE]
        /\ owns' = owns \cup {[user |-> UserOf[t], node |-> t, by |-> t]}
    BY <1>3, NewNode
  <2>2. \A x : x # R => NodesOf(x)' = NodesOf(x)
    BY <2>1 DEF NodesOf
  <2>3. NodesOf(R)' = {t}
    BY <1>1, <2>1 DEF NodesOf
  <2>4. RecordOf(R) = None /\ RecordOf(R)' = e
    <3>1. RecordOf(R) = None
      BY <1>1 DEF RecordOf
    <3>2. (CHOOSE x \in {t} : TRUE) = t
      OBVIOUS
    <3>3. RecordOf(R)' = [moment |-> repository'[t].moment,
                          complete |-> repository'[t].complete]
      BY <2>3, <3>2 DEF RecordOf
    <3>4. repository'[t].moment = task[t].commit /\ ~repository'[t].complete
      BY <2>1
    <3>5. repository'[t].complete = FALSE
      BY <2>1
    <3> QED
      BY <3>1, <3>3, <3>4, <3>5
  <2>5. \A x : x # R => SameRecordOf(x)
    <3>1. SUFFICES ASSUME NEW x, x # R PROVE SameRecordOf(x)
      OBVIOUS
    <3>2. CASE NodesOf(x) = {}
      BY <2>2, <3>1, <3>2 DEF SameRecordOf, RecordOf
    <3>3. CASE NodesOf(x) # {}
      <4> DEFINE c == CHOOSE y \in NodesOf(x) : TRUE
      <4>1. c \in NodesOf(x) /\ (CHOOSE y \in NodesOf(x)' : TRUE) = c
        BY <2>2, <3>1, <3>3
      <4>2. c \in Tasks \ {t} /\ repository'[c] = repository[c]
        BY <2>1, <4>1 DEF NodesOf
      <4> QED
        BY <2>2, <3>1, <3>3, <4>1, <4>2 DEF SameRecordOf, RecordOf
    <3> QED
      BY <3>2, <3>3
  <2>6. \A x : x # R => SameHoldersOf(x) /\ SameBelowOf(x)
    <3>1. \A x : x # R => t \notin NodesOf(x)
      BY <2>1 DEF NodesOf
    <3> QED
      BY <1>1, <2>1, <2>2, <3>1, Joins, StillBelow
  <2>7. \A o \in owns : o.node # t
    BY <2>1 DEF CatInv, OwnersBelong
  <2>8. HoldersOf(R)' = {UserOf[t]}
    <3> DEFINE new == [user |-> UserOf[t], node |-> t, by |-> t]
    <3>1. {x \in owns' : x.node \in {t}} = {new}
      BY <2>1, <2>7
    <3>2. new.user = UserOf[t]
      OBVIOUS
    <3> HIDE DEF new
    <3> QED
      BY <2>3, <3>1, <3>2 DEF HoldersOf
  <2>9. \A id \in FileIds : uses[id] # t
    BY <2>1, NoneAssumption DEF CatInv, FilesBelong, NodesOf
  <2>10. BelowOf(R) = {} /\ BelowOf(R)' = {}
    <3>1. \A q \in requires : q.file \in FileIds
      BY DEF TypeInv, TypeOK, GraphTypeOK, Relation
    <3> QED
      BY <1>1, <2>3, <2>9, <3>1 DEF BelowOf
  <2>11. task[t].commit \in 0 .. commits[R]
    BY <1>1, TaskFacts DEF CatInv, MomentsKnown, TypeInv, TypeOK
  <2> HIDE DEF R
  <2>12. Catalog!Entry(task[t].commit, FALSE) = RecordOf(R)'
    BY <2>4 DEF Catalog!Entry
  <2>13. Catalog!Register(R, UserOf[t])
    BY <1>1, <2>4, <2>5, <2>6, <2>8, <2>10, <2>11, <2>12
       DEF Catalog!Register, Catalog!Absent, SameRecordOf, SameHoldersOf,
           SameBelowOf
  <2> QED
    BY <1>3, <2>13 DEF R
<1> QED
  BY <1>2, <1>3

LEMMA ExtractStep ==
  ASSUME TypeInv, TypeInv', LockInv, CatInv, CatInv', NEW m \in stream,
         Extract(m)
  PROVE  \/ \E r \in Repos : Catalog!Deliver(r)
         \/ UNCHANGED Catalog!vars
<1>1. UNCHANGED <<commits, repository, owns, uses>>
  BY DEF Extract, ExtractInto, environment
<1>2. m.parent \in FileIds \cup {None}
  BY DEF TypeInv, TypeOK, Message
<1>3. CASE ~FileExists(m.parent)
  BY <1>1, <1>3, Stutter DEF Extract, ExtractInto
<1>4. CASE FileExists(m.parent)
  <2> DEFINE id == m.parent
             R == RepoOf[id[1]]
  <2>1. id \in FileIds /\ uses[id] \in NodesOf(R) /\ R \in Repos
    BY <1>2, <1>4, RequestAssumption DEF FileExists, FileIds, CatInv, FilesBelong
  <2>2. PICK q : requires' = requires \cup {q} /\ q.file = id
    <3>1. requires' = requires \cup
            {[file |-> id, pkg |-> m.pkg, con |-> m.con, by |-> m.by]}
      BY <1>4 DEF Extract, ExtractInto, ChangeRelations
    <3>2. [file |-> id, pkg |-> m.pkg, con |-> m.con, by |-> m.by].file = id
      OBVIOUS
    <3> QED
      BY <3>1, <3>2
  <2>3. \A x : NodesOf(x)' = NodesOf(x) /\ SameRecordOf(x) /\ SameHoldersOf(x)
    BY <1>1, SameRepository, SameHolders
  <2>4. \A x \in FileIds : x # id => RelationsOf(x)' = RelationsOf(x)
    BY <2>2 DEF RelationsOf
  <2> HIDE DEF R, id
  <2>5. \A x \in Repos : x # R => SameBelowOf(x)
    BY <1>1, <2>3, <2>4, SameBelow DEF CatInv, R
  <2>6. BelowOf(R) \subseteq BelowOf(R)'
    BY <1>1, <2>2, <2>3 DEF BelowOf
  <2>7. BelowOf(R)' \subseteq Files \X Packages \X Constraints
    BY DEF TypeInv, TypeOK, GraphTypeOK, Relation, FileIds, BelowOf
  <2>8. RecordOf(R) # None
    <3>1. uses[id] \in Tasks /\ repository[uses[id]] # None
      BY <2>1 DEF NodesOf
    <3>2. NodesOf(R) = {uses[id]}
      BY <2>1 DEF NodesOf, LockInv, OneRepositoryPerName
    <3>3. RecordOf(R) = [moment |-> repository[uses[id]].moment,
                         complete |-> repository[uses[id]].complete]
      BY <3>2, OnlyRecord
    <3> QED
      BY <3>1, <3>3, RecordAssumption DEF TypeInv, TypeOK, GraphTypeOK
  <2>9. Catalog!Deliver(R)
    BY <1>1, <2>1, <2>3, <2>5, <2>6, <2>7, <2>8
       DEF Catalog!Deliver, Catalog!Absent, SameRecordOf, SameHoldersOf,
           SameBelowOf
  <2> QED
    BY <2>1, <2>9
<1> QED
  BY <1>3, <1>4

LEMMA StepRefines ==
  TypeInv /\ TypeInv' /\ LockInv /\ CatInv /\ CatInv' /\ [Next]_vars
    => [Catalog!Next]_(Catalog!vars)
<1> SUFFICES ASSUME TypeInv, TypeInv', LockInv, CatInv, CatInv', [Next]_vars
             PROVE  Catalog!Next \/ UNCHANGED Catalog!vars
  OBVIOUS
<1> USE DEF Catalog!Next
<1>1. ASSUME NEW t \in Tasks, Handle(t) \/ Download(t) \/ Fail(t)
      PROVE  UNCHANGED Catalog!vars
  <2>1. UNCHANGED <<commits, repository, owns, uses, requires>>
    BY <1>1 DEF Handle, Request, AcceptNew, AcceptKnown, RefuseBusy, Download,
         StartDownload, ListTree, OpenTarget, DirectoryGone, WriteTarget,
         Analyze, FetchFile, SkipFile, Fail, graphVars, environment
  <2> QED
    BY <2>1, Stutter
<1>2. ASSUME NEW t \in Tasks, Persist(t)
      PROVE  Catalog!Next \/ UNCHANGED Catalog!vars
  <2> RepoOf[t] \in Repos
    BY RequestAssumption
  <2>1. CASE CreateRepository(t)
    BY <2>1, CreateStep
  <2>2. CASE MarkIncomplete(t)
    BY <2>2, MarkStep
  <2>3. CASE UpdateMoment(t)
    BY <2>3, MomentStep
  <2>4. CASE SetComplete(t)
    BY <2>4, CompleteStep
  <2>5. CASE OwnRepository(t)
    BY <2>5, OwnStep
  <2>6. CASE \/ RelatePackages(t)
             \/ \E p \in Packages : ChangeConstraint(t, p) \/ RemovePackage(t, p)
    BY <2>6, PackagesStep
  <2>7. ASSUME NEW f \in Files, DropFile(t, f) \/ CreateRequirementFile(t, f)
        PROVE  Catalog!Next \/ UNCHANGED Catalog!vars
    BY <2>7, FilesStep
  <2>8. CASE \/ ListFiles(t) \/ AddMessage(t) \/ StampFile(t)
             \/ \E f \in Files : UpdateFile(t, f)
             \/ \E p \in Packages : CheckPackage(t, p)
    <3>1. UNCHANGED <<commits, repository, owns, uses, requires>>
      BY <2>8 DEF ListFiles, AddMessage, StampFile, StampMoment, UpdateFile,
           CheckPackage, graphVars, environment
    <3> QED
      BY <3>1, Stutter
  <2> QED
    BY <1>2, <2>1, <2>2, <2>3, <2>4, <2>5, <2>6, <2>7, <2>8 DEF Persist
<1>3. ASSUME NEW r \in Repos, Commit(r) PROVE Catalog!Next
  BY <1>3, CommitStep
<1>4. ASSUME NEW m \in stream, Extract(m)
      PROVE  Catalog!Next \/ UNCHANGED Catalog!vars
  BY <1>4, ExtractStep
<1>5. CASE UNCHANGED vars
  BY <1>5, Stutter DEF vars, graphVars, environment
<1> QED
  BY <1>1, <1>2, <1>3, <1>4, <1>5 DEF Next

LEMMA InitRefines == Init => Catalog!Init
<1> SUFFICES ASSUME Init PROVE Catalog!Init
  OBVIOUS
<1>1. \A r : NodesOf(r) = {}
  BY DEF Init, GraphInit, NodesOf
<1>2. \A r : RecordOf(r) = None /\ HoldersOf(r) = {} /\ BelowOf(r) = {}
  BY <1>1 DEF RecordOf, HoldersOf, BelowOf
<1> QED
  BY <1>2 DEF Init, Catalog!Init

(* Without races the whole life cycle implements the catalog: whatever the  *)
(* interleaving of requests, downloads, failures, pushes and extractions, a *)
(* reader of the graph sees steps of RepositoryCatalog only.               *)
THEOREM SerialCatalog == ~Racing => (Spec => ImplementsCatalog)
<1> SUFFICES ASSUME ~Racing PROVE Spec => ImplementsCatalog
  OBVIOUS
<1>1. TypeInv /\ LockInv /\ [Next]_vars => LockInv'
  BY LockNext
<1> QED
  BY <1>1, InitType, NextType, InitLock, InitCat, CatNext, InitRefines,
     StepRefines, PTL DEF Spec, ImplementsCatalog, Catalog!Spec
=============================================================================
