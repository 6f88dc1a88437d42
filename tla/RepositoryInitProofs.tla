------------------------ MODULE RepositoryInitProofs -------------------------
(***************************************************************************)
(* Proofs, for every value of the constants, about RepositoryInit.         *)
(***************************************************************************)
EXTENDS RepositoryProperties, TLAPS

-----------------------------------------------------------------------------
(* Type correctness.  TypeOK alone is not inductive: a queued constraint is *)
(* a constraint because todo holds only files that raw has, and because the *)
(* package at "xadd" is one that want has.                                  *)

TypeInv == TypeOK /\ LocalsCoherent

LEMMA ValueTypes ==
  /\ Nothing \in Contents
  /\ NoFiles \in Tree
  /\ NoFiles \in [Files -> FileIds \cup {None}]
  /\ NoDirectory \in Directory
  /\ NoLocals \in Locals
BY DEF Nothing, Contents, NoFiles, Tree, NoDirectory, Directory, NoLocals,
       Locals

LEMMA InitType == Init => TypeInv
BY ValueTypes, TreesAssumption, PackagesAssumption
   DEF Init, GraphInit, TypeInv, TypeOK, GraphTypeOK, Labels, Tree,
       LocalsCoherent, NoLocals

(* A step of t replaces the locals of t and leaves those of others alone.  *)
LEMMA LocalStep ==
  ASSUME TypeOK, LocalsCoherent, NEW t \in Tasks, NEW l \in Locals,
         Locally(t, l), pc' = [pc EXCEPT ![t] = pc'[t]],
         \A f \in l.todo : l.raw[f] # None,
         pc'[t] = "xadd" => l.missing # None /\ l.want[l.missing] # None
  PROVE  task' \in [Tasks -> Locals] /\ LocalsCoherent'
<1>1. /\ task'[t] = l
      /\ \A u \in Tasks \ {t} : task'[u] = task[u] /\ pc'[u] = pc[u]
  BY DEF Locally, TypeOK
<1>2. task' \in [Tasks -> Locals]
  BY DEF Locally, TypeOK
<1> QED
  BY <1>1, <1>2 DEF LocalsCoherent

(* A step that leaves all locals alone and does not enter "xadd".          *)
LEMMA OtherStep ==
  ASSUME TypeOK, LocalsCoherent, NEW t \in Tasks, UNCHANGED task,
         pc' = [pc EXCEPT ![t] = pc'[t]], pc'[t] # "xadd"
  PROVE  task' \in [Tasks -> Locals] /\ LocalsCoherent'
<1>1. \A u \in Tasks \ {t} : pc'[u] = pc[u]
  BY DEF TypeOK
<1> QED
  BY <1>1 DEF LocalsCoherent, TypeOK

LEMMA GotoStep ==
  ASSUME TypeOK, NEW t \in Tasks, NEW here, NEW there \in Labels,
         Goto(t, here, there)
  PROVE  /\ pc[t] = here /\ pc'[t] = there
         /\ pc' = [pc EXCEPT ![t] = pc'[t]]
         /\ pc' \in [Tasks -> Labels]
BY DEF Goto, TypeOK

(* The usual step: the keys of raw_requirement_files only shrink.          *)
LEMMA FieldStep ==
  ASSUME TypeInv, NEW t \in Tasks, NEW l \in Locals, Locally(t, l),
         NEW here, NEW there \in Labels, Goto(t, here, there), there # "xadd",
         l.todo \subseteq task[t].todo, l.raw = task[t].raw
  PROVE  task' \in [Tasks -> Locals] /\ LocalsCoherent'
BY GotoStep, LocalStep DEF TypeInv, LocalsCoherent

LEMMA LocalsType ==
  ASSUME TypeInv, NEW t \in Tasks
  PROVE  task[t] \in Locals
BY DEF TypeInv, TypeOK

LEMMA HandleType ==
  ASSUME TypeInv, NEW t \in Tasks, Handle(t)
  PROVE  TypeInv'
<1> USE RequestAssumption DEF TypeInv, graphVars, environment
<1>1. CASE Request(t)
  <2> DEFINE l == [task[t] EXCEPT !.commit = commits[RepoOf[t]]]
  <2>1. Goto(t, "idle", "read") /\ Locally(t, l)
    BY <1>1 DEF Request
  <2>2. l \in Locals /\ l.todo = task[t].todo /\ l.raw = task[t].raw
    BY LocalsType DEF TypeOK, Locals
  <2> HIDE DEF l
  <2>3. task' \in [Tasks -> Locals] /\ LocalsCoherent'
    BY <2>1, <2>2, FieldStep DEF Labels
  <2> QED
    BY <1>1, <2>1, <2>3, GotoStep DEF Request, TypeOK, GraphTypeOK, Labels
<1>2. CASE AcceptNew(t)
  <2>1. Goto(t, "read", "scheduled")
    BY <1>2 DEF AcceptNew
  <2>2. task' \in [Tasks -> Locals] /\ LocalsCoherent'
    BY <1>2, <2>1, GotoStep, OtherStep DEF AcceptNew, Labels
  <2> QED
    BY <1>2, <2>1, <2>2, GotoStep DEF AcceptNew, TypeOK, GraphTypeOK, Labels
<1>3. CASE AcceptKnown(t)
  <2>1. Goto(t, "read", "scheduled")
    BY <1>3 DEF AcceptKnown
  <2>2. PICK n \in NodesOf(RepoOf[t]) : Locally(t,
          [task[t] EXCEPT !.node = n, !.seen = repository[n].moment])
    BY <1>3 DEF AcceptKnown
  <2> DEFINE l == [task[t] EXCEPT !.node = n, !.seen = repository[n].moment]
  <2>3. n \in Tasks /\ repository[n].moment \in Nat /\ Locally(t, l)
    BY <2>2 DEF NodesOf, TypeOK, GraphTypeOK
  <2>4. l \in Locals /\ l.todo = task[t].todo /\ l.raw = task[t].raw
    BY <2>3, LocalsType DEF Locals
  <2> HIDE DEF l
  <2>5. task' \in [Tasks -> Locals] /\ LocalsCoherent'
    BY <2>1, <2>3, <2>4, FieldStep DEF Labels
  <2> QED
    BY <1>3, <2>1, <2>5, GotoStep DEF AcceptKnown, TypeOK, GraphTypeOK, Labels
<1>4. CASE RefuseBusy(t)
  <2>1. Goto(t, "read", "conflict")
    BY <1>4 DEF RefuseBusy
  <2>2. task' \in [Tasks -> Locals] /\ LocalsCoherent'
    BY <1>4, <2>1, GotoStep, OtherStep DEF RefuseBusy, Labels
  <2> QED
    BY <1>4, <2>1, <2>2, GotoStep DEF RefuseBusy, TypeOK, GraphTypeOK, Labels
<1> QED
  BY <1>1, <1>2, <1>3, <1>4 DEF Handle

LEMMA DownloadType ==
  ASSUME TypeInv, NEW t \in Tasks, Download(t)
  PROVE  TypeInv'
<1> USE RequestAssumption, FilesAssumption, ValueTypes
    DEF TypeInv, graphVars, environment
<1>1. CASE StartDownload(t)
  <2>1. Goto(t, "scheduled", "tree")
    BY <1>1 DEF StartDownload
  <2>2. task' \in [Tasks -> Locals] /\ LocalsCoherent'
    BY <1>1, <2>1, GotoStep, OtherStep DEF StartDownload, Labels
  <2>3. dir' \in [Repos -> Directory]
    BY <1>1 DEF StartDownload, TypeOK, Directory, NoDirectory
  <2> QED
    BY <1>1, <2>1, <2>2, <2>3, GotoStep
       DEF StartDownload, TypeOK, GraphTypeOK, Labels
<1>2. CASE ListTree(t)
  <2>1. Goto(t, "tree", "fetch")
    BY <1>2 DEF ListTree
  <2>2. PICK listed \in SUBSET Files :
          Locally(t, [task[t] EXCEPT !.fetching = listed])
    BY <1>2 DEF ListTree
  <2> DEFINE l == [task[t] EXCEPT !.fetching = listed]
  <2>3. /\ l \in Locals /\ l.todo = task[t].todo /\ l.raw = task[t].raw
        /\ Locally(t, l)
    BY <2>2, LocalsType DEF TypeOK, Locals
  <2> HIDE DEF l
  <2>4. task' \in [Tasks -> Locals] /\ LocalsCoherent'
    BY <2>1, <2>2, <2>3, FieldStep DEF Labels
  <2> QED
    BY <1>2, <2>1, <2>4, GotoStep DEF ListTree, TypeOK, GraphTypeOK, Labels
<1>3. CASE OpenTarget(t)
  <2>1. Goto(t, "open", "write")
    BY <1>3 DEF OpenTarget
  <2>2. task' \in [Tasks -> Locals] /\ LocalsCoherent'
    BY <1>3, <2>1, GotoStep, OtherStep DEF OpenTarget, Labels
  <2>3. dir' \in [Repos -> Directory]
    BY <1>3 DEF OpenTarget, TypeOK, Directory, Tree, Empty
  <2> QED
    BY <1>3, <2>1, <2>2, <2>3, GotoStep
       DEF OpenTarget, TypeOK, GraphTypeOK, Labels
<1>4. CASE DirectoryGone(t)
  <2>1. Goto(t, "open", "failed")
    BY <1>4 DEF DirectoryGone
  <2>2. task' \in [Tasks -> Locals] /\ LocalsCoherent'
    BY <1>4, <2>1, GotoStep, OtherStep DEF DirectoryGone, Labels
  <2> QED
    BY <1>4, <2>1, <2>2, GotoStep DEF DirectoryGone, TypeOK, GraphTypeOK, Labels
<1>5. CASE WriteTarget(t)
  <2>1. Goto(t, "write", "fetch")
    BY <1>5 DEF WriteTarget
  <2>2. task' \in [Tasks -> Locals] /\ LocalsCoherent'
    BY <1>5, <2>1, GotoStep, OtherStep DEF WriteTarget, Labels
  <2>3. task[t].content \in Contents
    BY DEF TypeOK, Locals
  <2>4. dir' \in [Repos -> Directory]
    BY <1>5, <2>3 DEF WriteTarget, TypeOK, Directory, Tree
  <2> QED
    BY <1>5, <2>1, <2>2, <2>4, GotoStep
       DEF WriteTarget, TypeOK, GraphTypeOK, Labels
<1>6. CASE Analyze(t)
  <2> DEFINE found == dir[RepoOf[t]].entries
             l == [task[t] EXCEPT !.raw = found,
                                  !.todo = {f \in Files : found[f] # None}]
  <2>1. Goto(t, "fetch", AfterAnalysis(t)) /\ Locally(t, l)
    BY <1>6 DEF Analyze
  <2>2. AfterAnalysis(t) \in Labels /\ AfterAnalysis(t) # "xadd"
    BY DEF AfterAnalysis, Labels
  <2>3. found \in Tree
    BY DEF TypeOK, Directory
  <2>4. /\ l \in Locals
        /\ l.raw = found
        /\ l.todo = {f \in Files : found[f] # None}
    BY <2>3, LocalsType DEF Locals
  <2> HIDE DEF l
  <2>5. task' \in [Tasks -> Locals] /\ LocalsCoherent'
    BY <2>1, <2>2, <2>4, GotoStep, LocalStep
  <2> QED
    BY <1>6, <2>1, <2>2, <2>5, GotoStep DEF Analyze, TypeOK, GraphTypeOK
<1>7. ASSUME NEW f \in Files, FetchFile(t, f) PROVE TypeInv'
  <2> DEFINE l == [task[t] EXCEPT !.fetching = @ \ {f}, !.target = f,
                                  !.content = head[RepoOf[t]][f]]
  <2>1. Goto(t, "fetch", "open") /\ Locally(t, l)
    BY <1>7 DEF FetchFile
  <2>2. head[RepoOf[t]][f] \in Contents
    BY <1>7 DEF FetchFile, TypeOK, Tree
  <2>3. l \in Locals /\ l.todo = task[t].todo /\ l.raw = task[t].raw
    BY <2>2, LocalsType DEF Locals
  <2> HIDE DEF l
  <2>4. task' \in [Tasks -> Locals] /\ LocalsCoherent'
    BY <2>1, <2>3, FieldStep DEF Labels
  <2>5. dir' \in [Repos -> Directory]
    BY <1>7 DEF FetchFile, TypeOK, Directory
  <2> QED
    BY <1>7, <2>1, <2>4, <2>5, GotoStep
       DEF FetchFile, TypeOK, GraphTypeOK, Labels
<1>8. ASSUME NEW f \in Files, SkipFile(t, f) PROVE TypeInv'
  <2> DEFINE l == [task[t] EXCEPT !.fetching = @ \ {f}]
  <2>1. Locally(t, l) /\ pc[t] = "fetch" /\ pc' = pc
    BY <1>8 DEF SkipFile
  <2>2. l \in Locals /\ l.todo = task[t].todo /\ l.raw = task[t].raw
    BY LocalsType DEF TypeOK, Locals
  <2> HIDE DEF l
  <2>3. task' \in [Tasks -> Locals] /\ LocalsCoherent'
    BY <2>1, <2>2, LocalStep DEF LocalsCoherent, TypeOK
  <2> QED
    BY <1>8, <2>3 DEF SkipFile, TypeOK, GraphTypeOK
<1> QED
  BY <1>1, <1>2, <1>3, <1>4, <1>5, <1>6, <1>7, <1>8 DEF Download

(* Every query keeps the graph well typed.                                 *)
LEMMA CreateRepositoryType ==
  ASSUME GraphTypeOK, NEW t \in Tasks, NEW r \in Repos, NEW m \in Nat,
         NEW u \in Users, CreateRepositoryNode(t, r, m, u)
  PROVE  GraphTypeOK'
BY DEF GraphTypeOK, CreateRepositoryNode, MergedWith, NodesOf

LEMMA MergeOwnerType ==
  ASSUME GraphTypeOK, NEW t \in Tasks, NEW n \in Tasks \cup {None},
         NEW u \in Users, MergeOwner(t, n, u)
  PROVE  GraphTypeOK'
BY DEF GraphTypeOK, MergeOwner, NodeExists

LEMMA SetFlagType ==
  ASSUME GraphTypeOK, NEW n \in Tasks \cup {None}, NEW b \in BOOLEAN,
         SetFlag(n, b)
  PROVE  GraphTypeOK'
BY DEF GraphTypeOK, SetFlag, NodeExists

LEMMA SetMomentType ==
  ASSUME GraphTypeOK, NEW n \in Tasks \cup {None}, NEW m \in Nat,
         SetMoment(n, m)
  PROVE  GraphTypeOK'
BY DEF GraphTypeOK, SetMoment, NodeExists

LEMMA CreateFileType ==
  ASSUME GraphTypeOK, NEW id \in FileIds, NEW n \in Tasks \cup {None},
         CreateFile(id, n)
  PROVE  GraphTypeOK'
BY DEF GraphTypeOK, CreateFile, NodeExists

LEMMA DeleteFileType ==
  ASSUME GraphTypeOK, NEW n \in Tasks \cup {None}, NEW f \in Files,
         DeleteFile(n, f)
  PROVE  GraphTypeOK'
BY DEF GraphTypeOK, DeleteFile

LEMMA SetConstraintType ==
  ASSUME GraphTypeOK, NEW id, NEW p \in Packages, NEW c \in Constraints,
         SetConstraint(id, p, c)
  PROVE  GraphTypeOK'
<1>1. requires' \subseteq Relation
  BY DEF SetConstraint, ChangeRelations, GraphTypeOK, Relation
<1>2. requires' # requires => id \in FileIds
  BY DEF SetConstraint, ChangeRelations, GraphTypeOK, Relation
<1> QED
  BY <1>1, <1>2 DEF GraphTypeOK, SetConstraint, ChangeRelations

LEMMA DeleteRelationType ==
  ASSUME GraphTypeOK, NEW id, NEW p \in Packages, DeleteRelation(id, p)
  PROVE  GraphTypeOK'
<1>1. requires' # requires => id \in FileIds
  BY DEF DeleteRelation, ChangeRelations, GraphTypeOK, Relation
<1> QED
  BY <1>1 DEF GraphTypeOK, DeleteRelation, ChangeRelations

LEMMA RelateAllType ==
  ASSUME GraphTypeOK, NEW t \in Tasks, NEW id \in FileIds \cup {None},
         NEW batch \in Contents, RelateAll(t, id, batch)
  PROVE  GraphTypeOK'
<1>1. CASE FileExists(id)
  <2>1. id \in FileIds
    BY <1>1 DEF FileExists
  <2>2. \A p \in packages : batch[p] # None =>
          [file |-> id, pkg |-> p, con |-> batch[p], by |-> t] \in Relation
    BY <2>1 DEF Contents, Relation, GraphTypeOK
  <2> QED
    BY <1>1, <2>1, <2>2 DEF GraphTypeOK, RelateAll, ChangeRelations
<1>2. CASE ~FileExists(id)
  BY <1>2 DEF GraphTypeOK, RelateAll
<1> QED
  BY <1>1, <1>2

LEMMA ExtractIntoType ==
  ASSUME GraphTypeOK, NEW m \in Message, ExtractInto(m)
  PROVE  GraphTypeOK'
<1>1. CASE FileExists(m.parent)
  <2>1. m.parent \in FileIds
    BY <1>1 DEF FileExists, Message
  <2>2. [file |-> m.parent, pkg |-> m.pkg, con |-> m.con, by |-> m.by]
          \in Relation
    BY <2>1 DEF Message, Relation
  <2> QED
    BY <1>1, <2>1, <2>2
       DEF GraphTypeOK, ExtractInto, ChangeRelations, Message
<1>2. CASE ~FileExists(m.parent)
  BY <1>2 DEF GraphTypeOK, ExtractInto, Message
<1> QED
  BY <1>1, <1>2

(* What TypeInv says of one task.                                          *)
LEMMA TaskFacts ==
  ASSUME TypeInv, NEW t \in Tasks
  PROVE  /\ GraphTypeOK
         /\ task[t] \in Locals
         /\ task[t].node \in Tasks \cup {None}
         /\ task[t].commit \in Nat
         /\ task[t].raw \in Tree
         /\ task[t].want \in Contents
         /\ task[t].have \in Contents
         /\ task[t].batch \in Contents
         /\ task[t].file \in FileIds \cup {None}
         /\ task[t].existing \in [Files -> FileIds \cup {None}]
         /\ RepoOf[t] \in Repos /\ UserOf[t] \in Users
         /\ commits[RepoOf[t]] \in Nat
BY RequestAssumption DEF TypeInv, TypeOK, Locals

LEMMA PersistType ==
  ASSUME TypeInv, NEW t \in Tasks, Persist(t)
  PROVE  TypeInv'
<1> USE TaskFacts DEF graphVars, environment
<1> DEFINE LocalsOK == task' \in [Tasks -> Locals] /\ LocalsCoherent'
<1>1. CASE CreateRepository(t)
  <2>1. Goto(t, "create", "files")
    BY <1>1 DEF CreateRepository
  <2>2. CASE UserOf[t] \notin KnownUsers
    <3>1. UNCHANGED <<graphVars, task>>
      BY <1>1, <2>2 DEF CreateRepository
    <3>2. LocalsOK
      BY <2>1, <3>1, GotoStep, OtherStep DEF TypeInv, Labels
    <3> QED
      BY <1>1, <2>1, <3>1, <3>2, GotoStep
         DEF CreateRepository, TypeInv, TypeOK, GraphTypeOK, Labels
  <2>3. CASE UserOf[t] \in KnownUsers
    <3>1. PICK n \in Tasks : Locally(t, [task[t] EXCEPT !.node = n])
      BY <1>1, <2>3 DEF CreateRepository, MergedWith, NodesOf
    <3> DEFINE l == [task[t] EXCEPT !.node = n]
    <3>2. /\ l \in Locals /\ l.todo = task[t].todo /\ l.raw = task[t].raw
          /\ Locally(t, l)
      BY <3>1 DEF Locals
    <3> HIDE DEF l
    <3>3. LocalsOK
      BY <2>1, <3>2, FieldStep DEF Labels
    <3>4. GraphTypeOK'
      BY <1>1, <2>3, CreateRepositoryType DEF CreateRepository
    <3> QED
      BY <1>1, <2>1, <3>3, <3>4, GotoStep
         DEF CreateRepository, TypeInv, TypeOK, Labels
  <2> QED
    BY <2>2, <2>3
<1>2. CASE MarkIncomplete(t)
  <2>1. Goto(t, "mark", "list")
    BY <1>2 DEF MarkIncomplete
  <2>2. LocalsOK
    BY <1>2, <2>1, GotoStep, OtherStep DEF MarkIncomplete, TypeInv, Labels
  <2>3. GraphTypeOK'
    BY <1>2, SetFlagType DEF MarkIncomplete
  <2> QED
    BY <1>2, <2>1, <2>2, <2>3, GotoStep
       DEF MarkIncomplete, TypeInv, TypeOK, Labels
<1>3. CASE ListFiles(t)
  <2>1. Goto(t, "list", "files")
    BY <1>3 DEF ListFiles
  <2>2. PICK e \in [Files -> FileIds \cup {None}] :
          Locally(t, [task[t] EXCEPT !.existing = e])
    BY <1>3 DEF ListFiles, FilesRead
  <2> DEFINE l == [task[t] EXCEPT !.existing = e]
  <2>3. /\ l \in Locals /\ l.todo = task[t].todo /\ l.raw = task[t].raw
        /\ Locally(t, l)
    BY <2>2 DEF Locals
  <2> HIDE DEF l
  <2>4. LocalsOK
    BY <2>1, <2>3, FieldStep DEF Labels
  <2> QED
    BY <1>3, <2>1, <2>4, GotoStep
       DEF ListFiles, TypeInv, TypeOK, GraphTypeOK, Labels
<1>4. CASE AddMessage(t)
  <2> DEFINE l == [task[t] EXCEPT !.want[task[t].missing] = None,
                                  !.missing = None]
  <2>1. Goto(t, "xadd", "packages") /\ Locally(t, l)
    BY <1>4 DEF AddMessage
  <2>2. /\ task[t].missing \in Packages
        /\ task[t].want[task[t].missing] \in Constraints
    BY <2>1 DEF Goto, TypeInv, LocalsCoherent, Locals, Contents
  <2>3. l \in Locals /\ l.todo = task[t].todo /\ l.raw = task[t].raw
    BY DEF Locals, Contents
  <2> HIDE DEF l
  <2>4. LocalsOK
    BY <2>1, <2>3, FieldStep DEF Labels
  <2>5. stream' \subseteq Message
    BY <1>4, <2>2 DEF AddMessage, TypeInv, TypeOK, Message
  <2> QED
    BY <1>4, <2>1, <2>4, <2>5, GotoStep
       DEF AddMessage, TypeInv, TypeOK, GraphTypeOK, Labels
<1>5. CASE RelatePackages(t)
  <2> DEFINE l == [task[t] EXCEPT !.batch = Nothing,
                                  !.file = IF Created(t) THEN None ELSE @]
  <2>1. PICK there \in {"files", "stamp"} : Goto(t, "packages", there)
    BY <1>5 DEF RelatePackages
  <2>2. Locally(t, l)
    BY <1>5 DEF RelatePackages
  <2>3. l \in Locals /\ l.todo = task[t].todo /\ l.raw = task[t].raw
    BY ValueTypes DEF Locals
  <2> HIDE DEF l
  <2>4. LocalsOK
    BY <2>1, <2>2, <2>3, FieldStep DEF Labels
  <2>5. GraphTypeOK'
    BY <1>5, RelateAllType DEF RelatePackages
  <2> QED
    BY <1>5, <2>1, <2>4, <2>5, GotoStep
       DEF RelatePackages, TypeInv, TypeOK, Labels
<1>6. CASE StampFile(t)
  <2> DEFINE l == [task[t] EXCEPT !.file = None]
  <2>1. Goto(t, "stamp", "files") /\ Locally(t, l)
    BY <1>6 DEF StampFile
  <2>2. l \in Locals /\ l.todo = task[t].todo /\ l.raw = task[t].raw
    BY DEF Locals
  <2> HIDE DEF l
  <2>3. LocalsOK
    BY <2>1, <2>2, FieldStep DEF Labels
  <2> QED
    BY <1>6, <2>1, <2>3, GotoStep
       DEF StampFile, StampMoment, TypeInv, TypeOK, GraphTypeOK, Labels
<1>7. CASE UpdateMoment(t)
  <2>1. Goto(t, "files", "finish")
    BY <1>7 DEF UpdateMoment
  <2>2. LocalsOK
    BY <1>7, <2>1, GotoStep, OtherStep DEF UpdateMoment, TypeInv, Labels
  <2>3. GraphTypeOK'
    BY <1>7, SetMomentType DEF UpdateMoment
  <2> QED
    BY <1>7, <2>1, <2>2, <2>3, GotoStep
       DEF UpdateMoment, TypeInv, TypeOK, Labels
<1>8. CASE SetComplete(t)
  <2>1. Goto(t, pc[t], "own")
    BY <1>8 DEF SetComplete, Goto
  <2>2. LocalsOK
    BY <1>8, <2>1, GotoStep, OtherStep DEF SetComplete, TypeInv, Labels
  <2>3. GraphTypeOK'
    BY <1>8, SetFlagType DEF SetComplete
  <2>4. latest' \in [Tasks -> Tree \cup {None}]
    BY <1>8 DEF SetComplete, TypeInv, TypeOK
  <2> QED
    BY <1>8, <2>1, <2>2, <2>3, <2>4, GotoStep
       DEF SetComplete, TypeInv, TypeOK, Labels
<1>9. CASE OwnRepository(t)
  <2>1. Goto(t, "own", "done")
    BY <1>9 DEF OwnRepository
  <2>2. LocalsOK
    BY <1>9, <2>1, GotoStep, OtherStep DEF OwnRepository, TypeInv, Labels
  <2>3. GraphTypeOK'
    BY <1>9, MergeOwnerType DEF OwnRepository
  <2> QED
    BY <1>9, <2>1, <2>2, <2>3, GotoStep
       DEF OwnRepository, TypeInv, TypeOK, Labels
<1>10. ASSUME NEW f \in Files, DropFile(t, f) PROVE TypeInv'
  <2> DEFINE l == [task[t] EXCEPT !.existing[f] = None]
  <2>1. Locally(t, l) /\ pc[t] = "files" /\ pc' = pc
    BY <1>10 DEF DropFile
  <2>2. l \in Locals /\ l.todo = task[t].todo /\ l.raw = task[t].raw
    BY DEF Locals
  <2> HIDE DEF l
  <2>3. LocalsOK
    BY <2>1, <2>2, LocalStep DEF LocalsCoherent, TypeInv, TypeOK
  <2>4. GraphTypeOK'
    BY <1>10, DeleteFileType DEF DropFile
  <2> QED
    BY <1>10, <2>3, <2>4 DEF DropFile, TypeInv, TypeOK
<1>11. ASSUME NEW f \in Files, UpdateFile(t, f) PROVE TypeInv'
  <2>1. Goto(t, "files", "packages")
    BY <1>11 DEF UpdateFile
  <2>2. task[t].raw[f] \in Contents
    BY <1>11 DEF UpdateFile, TypeInv, LocalsCoherent, Tree
  <2>3. PICK have \in Contents, want \in Contents :
          Locally(t, [task[t] EXCEPT !.file = task[t].existing[f],
                                     !.existing[f] = None, !.todo = @ \ {f},
                                     !.have = have, !.want = want])
    <3>1. PICK h \in PackagesRead(task[t].existing[f]) :
            LET w == task[t].raw[f]
                same == {p \in Packages : Matches(f, p, h, w) /\ h[p] = w[p]}
                rest(g) == [p \in Packages |->
                              IF p \in same THEN None ELSE g[p]]
            IN Locally(t, [task[t] EXCEPT !.file = task[t].existing[f],
                             !.existing[f] = None, !.todo = @ \ {f},
                             !.have = rest(h), !.want = rest(w)])
      BY <1>11 DEF UpdateFile
    <3> DEFINE w == task[t].raw[f]
               same == {p \in Packages : Matches(f, p, h, w) /\ h[p] = w[p]}
               rest(g) == [p \in Packages |-> IF p \in same THEN None ELSE g[p]]
    <3>2. h \in Contents
      BY DEF PackagesRead
    <3>3. \A S : \A g \in Contents :
            [p \in Packages |-> IF p \in S THEN None ELSE g[p]] \in Contents
      BY DEF Contents
    <3>4. rest(h) \in Contents /\ rest(w) \in Contents
      BY <2>2, <3>2, <3>3
    <3> QED
      BY <3>1, <3>4
  <2> DEFINE l == [task[t] EXCEPT !.file = task[t].existing[f],
                                  !.existing[f] = None, !.todo = @ \ {f},
                                  !.have = have, !.want = want]
  <2>4. /\ l \in Locals /\ l.todo \subseteq task[t].todo
        /\ l.raw = task[t].raw /\ Locally(t, l)
    BY <2>3 DEF Locals
  <2> HIDE DEF l
  <2>5. LocalsOK
    BY <2>1, <2>4, FieldStep DEF Labels
  <2> QED
    BY <1>11, <2>1, <2>5, GotoStep
       DEF UpdateFile, TypeInv, TypeOK, GraphTypeOK, Labels
<1>12. ASSUME NEW f \in Files, CreateRequirementFile(t, f) PROVE TypeInv'
  <2> DEFINE l == [task[t] EXCEPT
       !.file = IF NodeExists(task[t].node) THEN <<t, f>> ELSE None,
       !.todo = @ \ {f}, !.want = task[t].raw[f]]
  <2>1. Goto(t, "files", "packages") /\ Locally(t, l)
    BY <1>12 DEF CreateRequirementFile
  <2>2. task[t].raw[f] \in Contents /\ <<t, f>> \in FileIds
    BY <1>12 DEF CreateRequirementFile, TypeInv, LocalsCoherent, Tree, FileIds
  <2>3. /\ l \in Locals /\ l.todo \subseteq task[t].todo
        /\ l.raw = task[t].raw
    BY <2>2 DEF Locals
  <2> HIDE DEF l
  <2>4. LocalsOK
    BY <2>1, <2>3, FieldStep DEF Labels
  <2>5. GraphTypeOK'
    BY <1>12, <2>2, CreateFileType DEF CreateRequirementFile
  <2> QED
    BY <1>12, <2>1, <2>4, <2>5, GotoStep
       DEF CreateRequirementFile, TypeInv, TypeOK, Labels
<1>13. ASSUME NEW p \in Packages, ChangeConstraint(t, p) PROVE TypeInv'
  <2> DEFINE l == [task[t] EXCEPT !.have[p] = None, !.want[p] = None]
  <2>1. /\ Locally(t, l) /\ pc[t] = "packages" /\ pc' = pc
        /\ task[t].want[p] # None
    BY <1>13 DEF ChangeConstraint, Matches
  <2>2. l \in Locals /\ l.todo = task[t].todo /\ l.raw = task[t].raw
    BY DEF Locals, Contents
  <2> HIDE DEF l
  <2>3. LocalsOK
    BY <2>1, <2>2, LocalStep DEF LocalsCoherent, TypeInv, TypeOK
  <2>4. task[t].want[p] \in Constraints
    BY <2>1 DEF Contents
  <2>5. GraphTypeOK'
    BY <1>13, <2>4, SetConstraintType DEF ChangeConstraint
  <2> QED
    BY <1>13, <2>3, <2>5 DEF ChangeConstraint, TypeInv, TypeOK
<1>14. ASSUME NEW p \in Packages, RemovePackage(t, p) PROVE TypeInv'
  <2> DEFINE l == [task[t] EXCEPT !.have[p] = None]
  <2>1. Locally(t, l) /\ pc[t] = "packages" /\ pc' = pc
    BY <1>14 DEF RemovePackage
  <2>2. l \in Locals /\ l.todo = task[t].todo /\ l.raw = task[t].raw
    BY DEF Locals, Contents
  <2> HIDE DEF l
  <2>3. LocalsOK
    BY <2>1, <2>2, LocalStep DEF LocalsCoherent, TypeInv, TypeOK
  <2>4. GraphTypeOK'
    BY <1>14, DeleteRelationType DEF RemovePackage
  <2> QED
    BY <1>14, <2>3, <2>4 DEF RemovePackage, TypeInv, TypeOK
<1>15. ASSUME NEW p \in Packages, CheckPackage(t, p) PROVE TypeInv'
  <2>1. task[t].want[p] \in Constraints /\ task[t].want[p] # None
    BY <1>15 DEF CheckPackage, Contents
  <2>2. CASE p \in packages
    <3> DEFINE l == [task[t] EXCEPT !.batch[p] = task[t].want[p],
                                    !.want[p] = None]
    <3>1. Locally(t, l) /\ pc[t] = "packages" /\ pc' = pc
      BY <1>15, <2>2 DEF CheckPackage
    <3>2. l \in Locals /\ l.todo = task[t].todo /\ l.raw = task[t].raw
      BY <2>1 DEF Locals, Contents
    <3> HIDE DEF l
    <3>3. LocalsOK
      BY <3>1, <3>2, LocalStep DEF LocalsCoherent, TypeInv, TypeOK
    <3> QED
      BY <1>15, <3>1, <3>3 DEF CheckPackage, TypeInv, TypeOK, GraphTypeOK
  <2>3. CASE p \notin packages
    <3> DEFINE l == [task[t] EXCEPT !.missing = p]
    <3>1. Locally(t, l) /\ Goto(t, "packages", "xadd")
      BY <1>15, <2>3 DEF CheckPackage, Goto
    <3>2. /\ l \in Locals /\ l.todo = task[t].todo /\ l.raw = task[t].raw
          /\ l.missing = p /\ l.want = task[t].want
      BY DEF Locals
    <3> HIDE DEF l
    <3>3. LocalsOK
      BY <2>1, <3>1, <3>2, GotoStep, LocalStep, NoneAssumption
         DEF LocalsCoherent, TypeInv, Labels
    <3> QED
      BY <1>15, <3>1, <3>3, GotoStep
         DEF CheckPackage, TypeInv, TypeOK, GraphTypeOK, Labels
  <2> QED
    BY <2>2, <2>3
<1> QED
  BY <1>1, <1>2, <1>3, <1>4, <1>5, <1>6, <1>7, <1>8, <1>9, <1>10, <1>11,
     <1>12, <1>13, <1>14, <1>15 DEF Persist

LEMMA FailType ==
  ASSUME TypeInv, NEW t \in Tasks, Fail(t)
  PROVE  TypeInv'
<1>1. Goto(t, pc[t], "failed")
  BY DEF Fail, Goto
<1>2. task' \in [Tasks -> Locals] /\ LocalsCoherent'
  BY <1>1, GotoStep, OtherStep DEF Fail, TypeInv, Labels
<1> QED
  BY <1>1, <1>2, GotoStep
     DEF Fail, graphVars, TypeInv, TypeOK, GraphTypeOK, Labels

LEMMA EnvironmentType ==
  ASSUME TypeInv,
         (\E r \in Repos : Commit(r)) \/ (\E m \in stream : Extract(m))
  PROVE  TypeInv'
<1>1. ASSUME NEW r \in Repos, Commit(r) PROVE TypeInv'
  BY <1>1, TreesAssumption
     DEF Commit, graphVars, TypeInv, TypeOK, GraphTypeOK, Tree, LocalsCoherent
<1>2. ASSUME NEW m \in stream, Extract(m) PROVE TypeInv'
  <2>1. m \in Message
    BY DEF TypeInv, TypeOK
  <2>2. GraphTypeOK'
    BY <1>2, <2>1, ExtractIntoType DEF Extract, TypeInv, TypeOK
  <2> QED
    BY <1>2, <2>2 DEF Extract, environment, TypeInv, TypeOK, LocalsCoherent
<1> QED
  BY <1>1, <1>2

LEMMA NextType == TypeInv /\ [Next]_vars => TypeInv'
<1> SUFFICES ASSUME TypeInv, [Next]_vars PROVE TypeInv'
  OBVIOUS
<1>1. CASE UNCHANGED vars
  BY <1>1 DEF vars, graphVars, environment, TypeInv, TypeOK, GraphTypeOK,
              LocalsCoherent
<1>2. CASE Next
  BY <1>2, HandleType, DownloadType, PersistType, FailType, EnvironmentType
     DEF Next
<1> QED
  BY <1>1, <1>2

(* Type correctness of the whole life cycle, whatever the races, failures   *)
(* and HTTP errors: in particular every queued message carries a package    *)
(* and a constraint, never the absence of one.                             *)
THEOREM TypeCorrect == Spec => []TypeOK
<1>1. TypeInv => TypeOK
  BY DEF TypeInv
<1> QED
  BY <1>1, InitType, NextType, PTL DEF Spec

-----------------------------------------------------------------------------
(* The lock that is_complete implements: what holds of it in any           *)
(* environment, and what holds when no request arrives while an earlier    *)
(* one for the same repository is between its read and its first write.    *)

(* What a step does to the part of the state the lock is about: the         *)
(* program counters, the record a task holds, and the flag of each node.    *)

SameRecords ==
  \A u \in Tasks : task'[u].node = task[u].node /\ task'[u].seen = task[u].seen

SameFlags ==
  \A n \in Tasks :
    /\ repository'[n] = None <=> repository[n] = None
    /\ repository[n] # None => /\ repository'[n].repo = repository[n].repo
                               /\ repository'[n].complete = repository[n].complete

Moves(t) ==
  /\ \A u \in Tasks \ {t} : pc'[u] = pc[u]
  /\ \/ pc'[t] = pc[t]
     \/ /\ pc[t] \in Writing /\ pc'[t] \in Writing
     \/ /\ pc[t] \in Accepted /\ pc'[t] \in Accepted
        /\ pc'[t] = "create" => task[t].seen = None
        /\ pc'[t] = "mark" => task[t].seen # None
     \/ /\ pc[t] \notin Writing /\ pc[t] # "failed" /\ pc'[t] \in {"own", "done", "conflict"}
     \/ pc'[t] = "failed"

Frame(t) == SameRecords /\ SameFlags /\ Moves(t)

LEMMA LocallySame ==
  ASSUME TypeInv, NEW t \in Tasks, NEW l, Locally(t, l),
         l.node = task[t].node, l.seen = task[t].seen
  PROVE  SameRecords
BY DEF TypeInv, TypeOK, Locally, SameRecords

LEMMA UnchangedSame ==
  ASSUME UNCHANGED task
  PROVE  SameRecords
BY DEF SameRecords

LEMMA UnchangedFlags ==
  ASSUME UNCHANGED repository
  PROVE  SameFlags
BY DEF SameFlags

LEMMA GotoMoves ==
  ASSUME TypeInv, NEW t \in Tasks, NEW here, NEW there, Goto(t, here, there),
         \/ here \in Writing /\ there \in Writing
         \/ /\ here \in Accepted /\ there \in Accepted
            /\ there = "create" => task[t].seen = None
            /\ there = "mark" => task[t].seen # None
         \/ /\ here \notin Writing \cup {"failed"}
            /\ there \in {"own", "done", "conflict"}
         \/ there = "failed"
  PROVE  Moves(t)
BY DEF Goto, Moves, TypeInv, TypeOK

LEMMA StayMoves ==
  ASSUME UNCHANGED pc, NEW t \in Tasks
  PROVE  Moves(t)
BY DEF Moves

LEMMA SetMomentFlags ==
  ASSUME TypeInv, NEW n \in Tasks \cup {None}, NEW m \in Nat, SetMoment(n, m)
  PROVE  SameFlags
<1> DEFINE Node == [repo : Repos, moment : Nat, complete : BOOLEAN]
<1>1. repository \in [Tasks -> Node \cup {None}]
  BY DEF TypeInv, TypeOK, GraphTypeOK
<1>2. CASE NodeExists(n)
  <2>1. n \in Tasks /\ repository[n] \in Node
    BY <1>1, <1>2 DEF NodeExists
  <2> DEFINE new == [repository[n] EXCEPT !.moment = m]
  <2>2. /\ new \in Node /\ new.repo = repository[n].repo
        /\ new.complete = repository[n].complete
    BY <2>1
  <2>3. repository' = [repository EXCEPT ![n] = new]
    BY <1>2 DEF SetMoment
  <2> HIDE DEF new
  <2>4. new # None /\ repository[n] # None
    BY <2>1, <2>2, NoneAssumption
  <2> QED
    BY <1>1, <2>1, <2>2, <2>3, <2>4 DEF SameFlags
<1>3. CASE ~NodeExists(n)
  BY <1>3, UnchangedFlags DEF SetMoment
<1> QED
  BY <1>2, <1>3

(* Every step of the download is a frame step: it decides nothing about the *)
(* lock but whether the task will create, mark or only own.                *)
LEMMA DownloadFrame ==
  ASSUME TypeInv, NEW t \in Tasks, Download(t)
  PROVE  Frame(t)
<1> USE DEF Frame, graphVars, Accepted, Window
<1>1. UNCHANGED repository
  BY DEF Download, StartDownload, ListTree, OpenTarget, DirectoryGone,
         WriteTarget, Analyze, FetchFile, SkipFile
<1>2. SameRecords
  <2>1. UNCHANGED task \/ \E l : /\ Locally(t, l) /\ l.node = task[t].node
                                 /\ l.seen = task[t].seen
    <3>1. CASE ListTree(t)
      <4>1. PICK listed : Locally(t, [task[t] EXCEPT !.fetching = listed])
        BY <3>1 DEF ListTree
      <4> DEFINE l == [task[t] EXCEPT !.fetching = listed]
      <4>2. l.node = task[t].node /\ l.seen = task[t].seen
        BY LocalsType DEF Locals
      <4> QED
        BY <4>1, <4>2
    <3>2. CASE Analyze(t)
      <4> DEFINE found == dir[RepoOf[t]].entries
                 l == [task[t] EXCEPT !.raw = found,
                                !.todo = {f \in Files : found[f] # None}]
      <4>1. Locally(t, l)
        BY <3>2 DEF Analyze
      <4>2. l.node = task[t].node /\ l.seen = task[t].seen
        BY LocalsType DEF Locals
      <4> QED
        BY <4>1, <4>2
    <3>3. ASSUME NEW f \in Files, FetchFile(t, f)
          PROVE  \E l : /\ Locally(t, l) /\ l.node = task[t].node
                        /\ l.seen = task[t].seen
      <4> DEFINE l == [task[t] EXCEPT !.fetching = @ \ {f}, !.target = f,
                                      !.content = head[RepoOf[t]][f]]
      <4>1. Locally(t, l)
        BY <3>3 DEF FetchFile
      <4>2. l.node = task[t].node /\ l.seen = task[t].seen
        BY LocalsType DEF Locals
      <4> QED
        BY <4>1, <4>2
    <3>4. ASSUME NEW f \in Files, SkipFile(t, f)
          PROVE  \E l : /\ Locally(t, l) /\ l.node = task[t].node
                        /\ l.seen = task[t].seen
      <4> DEFINE l == [task[t] EXCEPT !.fetching = @ \ {f}]
      <4>1. Locally(t, l)
        BY <3>4 DEF SkipFile
      <4>2. l.node = task[t].node /\ l.seen = task[t].seen
        BY LocalsType DEF Locals
      <4> QED
        BY <4>1, <4>2
    <3> QED
      BY <3>1, <3>2, <3>3, <3>4
         DEF Download, StartDownload, OpenTarget, DirectoryGone, WriteTarget
  <2> QED
    BY <2>1, LocallySame, UnchangedSame
<1>3. Moves(t)
  <2>1. CASE StartDownload(t)
    BY <2>1, GotoMoves DEF StartDownload
  <2>2. CASE ListTree(t)
    BY <2>2, GotoMoves DEF ListTree
  <2>3. CASE OpenTarget(t)
    BY <2>3, GotoMoves DEF OpenTarget
  <2>4. CASE DirectoryGone(t)
    BY <2>4, GotoMoves DEF DirectoryGone
  <2>5. CASE WriteTarget(t)
    BY <2>5, GotoMoves DEF WriteTarget
  <2>6. CASE Analyze(t)
    <3>1. Goto(t, "fetch", AfterAnalysis(t))
      BY <2>6 DEF Analyze
    <3> QED
      BY <3>1, GotoMoves DEF AfterAnalysis, Writing
  <2>7. ASSUME NEW f \in Files, FetchFile(t, f) PROVE Moves(t)
    BY <2>7, GotoMoves DEF FetchFile
  <2>8. ASSUME NEW f \in Files, SkipFile(t, f) PROVE Moves(t)
    BY <2>8, StayMoves DEF SkipFile
  <2> QED
    BY <2>1, <2>2, <2>3, <2>4, <2>5, <2>6, <2>7, <2>8 DEF Download
<1> QED
  BY <1>1, <1>2, <1>3, UnchangedFlags

(* So is every step of replace_repository and extract_repository between    *)
(* the two writes of is_complete, and the last step of the task.           *)
LEMMA PersistFrame ==
  ASSUME TypeInv, NEW t \in Tasks, Persist(t),
         ~CreateRepository(t), ~MarkIncomplete(t), ~SetComplete(t)
  PROVE  Frame(t)
<1> USE LocallySame, UnchangedSame, UnchangedFlags, GotoMoves, LocalsType
    DEF Frame, graphVars, Writing
<1>1. CASE ListFiles(t)
  <2>1. PICK e : Locally(t, [task[t] EXCEPT !.existing = e])
    BY <1>1 DEF ListFiles
  <2> DEFINE l == [task[t] EXCEPT !.existing = e]
  <2>2. l.node = task[t].node /\ l.seen = task[t].seen /\ Locally(t, l)
    BY <2>1 DEF Locals
  <2> HIDE DEF l
  <2> QED
    BY <1>1, <2>2 DEF ListFiles
<1>2. CASE AddMessage(t)
  <2> DEFINE l == [task[t] EXCEPT !.want[task[t].missing] = None,
                                  !.missing = None]
  <2>1. l.node = task[t].node /\ l.seen = task[t].seen /\ Locally(t, l)
    BY <1>2 DEF AddMessage, Locals
  <2> HIDE DEF l
  <2> QED
    BY <1>2, <2>1 DEF AddMessage
<1>3. CASE RelatePackages(t)
  <2> DEFINE l == [task[t] EXCEPT !.batch = Nothing,
                                  !.file = IF Created(t) THEN None ELSE @]
  <2>1. l.node = task[t].node /\ l.seen = task[t].seen /\ Locally(t, l)
    BY <1>3 DEF RelatePackages, Locals
  <2> HIDE DEF l
  <2>2. PICK there \in {"files", "stamp"} : Goto(t, "packages", there)
    BY <1>3 DEF RelatePackages
  <2> QED
    BY <1>3, <2>1, <2>2 DEF RelatePackages, RelateAll
<1>4. CASE StampFile(t)
  <2> DEFINE l == [task[t] EXCEPT !.file = None]
  <2>1. l.node = task[t].node /\ l.seen = task[t].seen /\ Locally(t, l)
    BY <1>4 DEF StampFile, Locals
  <2> HIDE DEF l
  <2> QED
    BY <1>4, <2>1 DEF StampFile, StampMoment
<1>5. CASE UpdateMoment(t)
  <2>1. SameFlags
    BY <1>5, SetMomentFlags, RequestAssumption
       DEF UpdateMoment, TypeInv, TypeOK, Locals
  <2> QED
    BY <1>5, <2>1 DEF UpdateMoment
<1>6. CASE OwnRepository(t)
  BY <1>6 DEF OwnRepository, MergeOwner
<1>7. ASSUME NEW f \in Files, DropFile(t, f) PROVE Frame(t)
  <2> DEFINE l == [task[t] EXCEPT !.existing[f] = None]
  <2>1. l.node = task[t].node /\ l.seen = task[t].seen /\ Locally(t, l)
    BY <1>7 DEF DropFile, Locals
  <2> HIDE DEF l
  <2> QED
    BY <1>7, <2>1, StayMoves DEF DropFile, DeleteFile
<1>8. ASSUME NEW f \in Files, UpdateFile(t, f) PROVE Frame(t)
  <2>1. PICK have, want :
          Locally(t, [task[t] EXCEPT !.file = task[t].existing[f],
                                     !.existing[f] = None, !.todo = @ \ {f},
                                     !.have = have, !.want = want])
    BY <1>8 DEF UpdateFile
  <2> DEFINE l == [task[t] EXCEPT !.file = task[t].existing[f],
                                  !.existing[f] = None, !.todo = @ \ {f},
                                  !.have = have, !.want = want]
  <2>2. l.node = task[t].node /\ l.seen = task[t].seen /\ Locally(t, l)
    BY <2>1 DEF Locals
  <2> HIDE DEF l
  <2> QED
    BY <1>8, <2>2 DEF UpdateFile
<1>9. ASSUME NEW f \in Files, CreateRequirementFile(t, f) PROVE Frame(t)
  <2> DEFINE l == [task[t] EXCEPT
       !.file = IF NodeExists(task[t].node) THEN <<t, f>> ELSE None,
       !.todo = @ \ {f}, !.want = task[t].raw[f]]
  <2>1. l.node = task[t].node /\ l.seen = task[t].seen /\ Locally(t, l)
    BY <1>9 DEF CreateRequirementFile, Locals
  <2> HIDE DEF l
  <2> QED
    BY <1>9, <2>1 DEF CreateRequirementFile, CreateFile
<1>10. ASSUME NEW p \in Packages, ChangeConstraint(t, p) PROVE Frame(t)
  <2> DEFINE l == [task[t] EXCEPT !.have[p] = None, !.want[p] = None]
  <2>1. l.node = task[t].node /\ l.seen = task[t].seen /\ Locally(t, l)
    BY <1>10 DEF ChangeConstraint, Locals
  <2> HIDE DEF l
  <2> QED
    BY <1>10, <2>1, StayMoves DEF ChangeConstraint, SetConstraint
<1>11. ASSUME NEW p \in Packages, RemovePackage(t, p) PROVE Frame(t)
  <2> DEFINE l == [task[t] EXCEPT !.have[p] = None]
  <2>1. l.node = task[t].node /\ l.seen = task[t].seen /\ Locally(t, l)
    BY <1>11 DEF RemovePackage, Locals
  <2> HIDE DEF l
  <2> QED
    BY <1>11, <2>1, StayMoves DEF RemovePackage, DeleteRelation
<1>12. ASSUME NEW p \in Packages, CheckPackage(t, p) PROVE Frame(t)
  <2>1. CASE p \in packages
    <3> DEFINE l == [task[t] EXCEPT !.batch[p] = task[t].want[p],
                                    !.want[p] = None]
    <3>1. l.node = task[t].node /\ l.seen = task[t].seen /\ Locally(t, l)
      BY <1>12, <2>1 DEF CheckPackage, Locals
    <3> HIDE DEF l
    <3> QED
      BY <1>12, <2>1, <3>1, StayMoves DEF CheckPackage
  <2>2. CASE p \notin packages
    <3> DEFINE l == [task[t] EXCEPT !.missing = p]
    <3>1. l.node = task[t].node /\ l.seen = task[t].seen /\ Locally(t, l)
      BY <1>12, <2>2 DEF CheckPackage, Locals
    <3>2. Goto(t, "packages", "xadd")
      BY <1>12, <2>2 DEF CheckPackage, Goto
    <3> HIDE DEF l
    <3> QED
      BY <1>12, <2>2, <3>1, <3>2 DEF CheckPackage
  <2> QED
    BY <2>1, <2>2
<1> QED
  BY <1>1, <1>2, <1>3, <1>4, <1>5, <1>6, <1>7, <1>8, <1>9, <1>10, <1>11,
     <1>12 DEF Persist

LEMMA FailFrame ==
  ASSUME TypeInv, NEW t \in Tasks, Fail(t)
  PROVE  Frame(t)
BY UnchangedSame, UnchangedFlags
   DEF Fail, Frame, Moves, graphVars, TypeInv, TypeOK

LEMMA EnvironmentFrame ==
  ASSUME NEW t \in Tasks,
         \/ UNCHANGED vars
         \/ \E r \in Repos : Commit(r)
         \/ \E m \in stream : Extract(m)
  PROVE  Frame(t)
BY UnchangedSame, UnchangedFlags, StayMoves
   DEF Commit, Extract, ExtractInto, Frame, graphVars, vars

-----------------------------------------------------------------------------
(* In any environment, an incomplete repository has a task at work on it,   *)
(* or one that died there.                                                 *)

AtWork == Writing \cup {"failed"}

Workers(places) ==
  \A n \in Tasks : repository[n] # None /\ ~repository[n].complete =>
    \E t \in Tasks : task[t].node = n /\ pc[t] \in places

LEMMA WorkersMeaning == IncompleteHasWorker <=> Workers(AtWork)
BY DEF IncompleteHasWorker, Workers, WorksOn, AtWork, Writing

(* A task at work stays at work.  AtWork has this of every frame step,      *)
(* Writing only of those that are no failure.                              *)
LEMMA AtWorkStays ==
  ASSUME TypeInv, NEW t \in Tasks, Frame(t)
  PROVE  \A u \in Tasks : pc[u] \in AtWork => pc'[u] \in AtWork
BY DEF Frame, Moves, AtWork, Accepted, Writing, Window

LEMMA FrameWorkers ==
  ASSUME TypeInv, NEW t \in Tasks, Frame(t), NEW places, Workers(places),
         \A u \in Tasks : pc[u] \in places => pc'[u] \in places
  PROVE  Workers(places)'
<1>1. \A u \in Tasks : pc[u] \in places =>
        pc'[u] \in places /\ task'[u].node = task[u].node
  BY DEF Frame, SameRecords
<1>2. \A n \in Tasks : repository'[n] # None /\ ~repository'[n].complete =>
        repository[n] # None /\ ~repository[n].complete
  BY DEF Frame, SameFlags
<1> QED
  BY <1>1, <1>2 DEF Workers

LEMMA HandleWorkers ==
  ASSUME TypeInv, NEW t \in Tasks, Handle(t),
         NEW places, Workers(places),
         Writing \subseteq places, places \subseteq AtWork
  PROVE  Workers(places)'
<1>1. UNCHANGED repository
  BY DEF Handle, Request, AcceptNew, AcceptKnown, RefuseBusy, graphVars
<1>2. pc[t] \in {"idle", "read"} /\ \A u \in Tasks \ {t} : pc'[u] = pc[u]
  BY DEF Handle, Request, AcceptNew, AcceptKnown, RefuseBusy, Goto, TypeInv,
         TypeOK
<1>3. \A u \in Tasks \ {t} : task'[u] = task[u]
  BY DEF Handle, Request, AcceptNew, AcceptKnown, RefuseBusy, Locally, TypeInv,
         TypeOK
<1> QED
  BY <1>1, <1>2, <1>3 DEF Workers, AtWork, Writing

LEMMA CreateWorkers ==
  ASSUME TypeInv, NEW t \in Tasks, CreateRepository(t),
         NEW places, Workers(places),
         Writing \subseteq places, places \subseteq AtWork
  PROVE  Workers(places)'
<1>1. /\ pc[t] = "create" /\ pc'[t] = "files"
      /\ \A u \in Tasks \ {t} : pc'[u] = pc[u]
  BY DEF CreateRepository, Goto, TypeInv, TypeOK
<1>2. \A u \in Tasks \ {t} : task'[u] = task[u]
  BY DEF CreateRepository, Locally, TypeInv, TypeOK
<1>3. CASE UNCHANGED repository
  BY <1>1, <1>2, <1>3 DEF Workers, AtWork, Writing
<1>4. CASE ~UNCHANGED repository
  <2> DEFINE new == [repo |-> RepoOf[t], moment |-> task[t].commit,
                     complete |-> FALSE]
  <2>1. /\ repository' = [repository EXCEPT ![t] = new]
        /\ \E n \in {t} : Locally(t, [task[t] EXCEPT !.node = n])
    BY <1>4 DEF CreateRepository, CreateRepositoryNode, graphVars
  <2>2. task'[t].node = t
    <3> DEFINE l == [task[t] EXCEPT !.node = t]
    <3>1. l.node = t /\ Locally(t, l)
      BY <2>1, LocalsType DEF Locals
    <3> HIDE DEF l
    <3> QED
      BY <3>1 DEF Locally, TypeInv, TypeOK
  <2> HIDE DEF new
  <2>3. \A n \in Tasks \ {t} : repository'[n] = repository[n]
    BY <2>1 DEF TypeInv, TypeOK, GraphTypeOK
  <2> QED
    BY <1>1, <1>2, <2>2, <2>3 DEF Workers, AtWork, Writing
<1> QED
  BY <1>3, <1>4

(* What setting the flag does to the nodes.                                *)
LEMMA SetFlagNodes ==
  ASSUME TypeInv, NEW n \in Tasks \cup {None}, NEW b \in BOOLEAN, SetFlag(n, b)
  PROVE  /\ \A m \in Tasks \ {n} : repository'[m] = repository[m]
         /\ \A m \in Tasks : repository'[m] = None <=> repository[m] = None
         /\ \A m \in Tasks : repository[m] # None =>
              repository'[m].repo = repository[m].repo
         /\ NodeExists(n) => repository'[n].complete = b
<1> DEFINE Node == [repo : Repos, moment : Nat, complete : BOOLEAN]
<1>1. repository \in [Tasks -> Node \cup {None}]
  BY DEF TypeInv, TypeOK, GraphTypeOK
<1>2. CASE NodeExists(n)
  <2>1. n \in Tasks /\ repository[n] \in Node
    BY <1>1, <1>2 DEF NodeExists
  <2> DEFINE new == [repository[n] EXCEPT !.complete = b]
  <2>2. new \in Node /\ new.repo = repository[n].repo /\ new.complete = b
    BY <2>1
  <2>3. repository' = [repository EXCEPT ![n] = new]
    BY <1>2 DEF SetFlag
  <2> HIDE DEF new
  <2>4. new # None /\ repository[n] # None
    BY <2>1, <2>2, NoneAssumption
  <2> QED
    BY <1>1, <2>1, <2>2, <2>3, <2>4
<1>3. CASE ~NodeExists(n)
  BY <1>3 DEF SetFlag
<1> QED
  BY <1>2, <1>3

LEMMA MarkWorkers ==
  ASSUME TypeInv, NEW t \in Tasks, MarkIncomplete(t),
         NEW places, Workers(places),
         Writing \subseteq places, places \subseteq AtWork
  PROVE  Workers(places)'
<1>1. /\ pc[t] = "mark" /\ pc'[t] = "list" /\ UNCHANGED task
      /\ \A u \in Tasks \ {t} : pc'[u] = pc[u]
  BY DEF MarkIncomplete, Goto, TypeInv, TypeOK
<1>2. task[t].node \in Tasks \cup {None} /\ SetFlag(task[t].node, FALSE)
  BY TaskFacts DEF MarkIncomplete
<1>3. \A n \in Tasks \ {task[t].node} : repository'[n] = repository[n]
  BY <1>2, SetFlagNodes
<1> QED
  BY <1>1, <1>3 DEF Workers, AtWork, Writing

LEMMA CompleteWorkers ==
  ASSUME TypeInv, NEW t \in Tasks, SetComplete(t),
         NEW places, Workers(places),
         Writing \subseteq places, places \subseteq AtWork
  PROVE  Workers(places)'
<1>1. UNCHANGED task /\ \A u \in Tasks \ {t} : pc'[u] = pc[u]
  BY DEF SetComplete, TypeInv, TypeOK
<1>2. task[t].node \in Tasks \cup {None} /\ SetFlag(task[t].node, TRUE)
  BY TaskFacts DEF SetComplete
<1>3. \A n \in Tasks \ {task[t].node} : repository'[n] = repository[n]
  BY <1>2, SetFlagNodes
<1>4. ASSUME NEW n \in Tasks, n = task[t].node, repository'[n] # None
      PROVE  repository'[n].complete
  <2>1. repository[n] # None /\ n # None
    BY <1>2, <1>4, SetFlagNodes, NoneAssumption
  <2> QED
    BY <1>2, <1>4, <2>1, SetFlagNodes DEF NodeExists
<1> QED
  BY <1>1, <1>3, <1>4 DEF Workers

LEMMA InitWorkers ==
  ASSUME NEW places, Init
  PROVE  Workers(places)
BY DEF Init, GraphInit, Workers

LEMMA WorkersNext ==
  ASSUME TypeInv, [Next]_vars, NEW places, Workers(places),
         Writing \subseteq places, places \subseteq AtWork,
         \A t \in Tasks : Frame(t) =>
           \A u \in Tasks : pc[u] \in places => pc'[u] \in places
  PROVE  Workers(places)'
<1>1. ASSUME NEW t \in Tasks, Handle(t) PROVE Workers(places)'
  BY <1>1, HandleWorkers
<1>2. ASSUME NEW t \in Tasks, Download(t) PROVE Workers(places)'
  BY <1>2, DownloadFrame, FrameWorkers
<1>3. ASSUME NEW t \in Tasks, Persist(t) PROVE Workers(places)'
  BY <1>3, PersistFrame, FrameWorkers, CreateWorkers, MarkWorkers,
     CompleteWorkers
<1>4. ASSUME NEW t \in Tasks, Fail(t) PROVE Workers(places)'
  BY <1>4, FailFrame, FrameWorkers
<1>5. CASE \/ UNCHANGED vars
           \/ \E r \in Repos : Commit(r)
           \/ \E m \in stream : Extract(m)
  <2>1. CASE Tasks = {}
    BY <2>1 DEF Workers
  <2>2. CASE Tasks # {}
    BY <1>5, <2>2, EnvironmentFrame, FrameWorkers
  <2> QED
    BY <2>1, <2>2
<1> QED
  BY <1>1, <1>2, <1>3, <1>4, <1>5 DEF Next

(* In any environment, the flag of a repository is FALSE only while one of  *)
(* the background tasks works on it, or after one died there: every path    *)
(* through init_repository that ends at all has set it back to TRUE.        *)
THEOREM IncompleteMeansWorked == Spec => []IncompleteHasWorker
<1>1. TypeInv /\ Workers(AtWork) /\ [Next]_vars => Workers(AtWork)'
  BY WorkersNext, AtWorkStays DEF AtWork
<1>2. Init => Workers(AtWork)
  BY InitWorkers
<1> QED
  BY <1>1, <1>2, InitType, NextType, WorkersMeaning, PTL DEF Spec

-----------------------------------------------------------------------------
(* A task that does not fail leaves the places where it writes only by       *)
(* giving the repository back.                                             *)

LEMMA NoFault ==
  ASSUME MaxFaults = 0, TypeInv, NEW t \in Tasks
  PROVE  ~Fail(t)
BY DEF Fail, TypeInv, TypeOK

LEMMA WritingStays ==
  ASSUME MaxFaults = 0, TypeInv, [Next]_vars, NEW t \in Tasks, Frame(t),
         NEW u \in Tasks, pc[u] \in Writing
  PROVE  pc'[u] \in Writing
<1>1. CASE pc'[u] # "failed"
  <2>1. u # t => pc'[u] = pc[u]
    BY DEF Frame, Moves
  <2> QED
    BY <1>1, <2>1 DEF Frame, Moves, Accepted, Writing, Window
<1>2. CASE pc'[u] = "failed"
  <2>1. ASSUME NEW v \in Tasks, Handle(v) \/ Download(v) \/ Persist(v)
        PROVE  pc'[u] = pc[u] \/ pc'[u] # "failed" \/ pc[u] = "open"
    BY <2>1 DEF Handle, Request, AcceptNew, AcceptKnown, RefuseBusy, Download,
       StartDownload, ListTree, OpenTarget, DirectoryGone, WriteTarget, Analyze,
       AfterAnalysis, FetchFile, SkipFile, Persist, CreateRepository,
       MarkIncomplete, ListFiles, AddMessage, RelatePackages, StampFile,
       UpdateMoment, SetComplete, OwnRepository, DropFile, UpdateFile,
       CreateRequirementFile, ChangeConstraint, RemovePackage, CheckPackage,
       Goto, TypeInv, TypeOK
  <2>2. pc'[u] = pc[u] \/ pc[u] = "open"
    BY <1>2, <2>1, NoFault DEF Next, vars, Commit, Extract
  <2> QED
    BY <1>2, <2>2 DEF Writing
<1> QED
  BY <1>1, <1>2

(* When no task fails, a 409 says what its text says: a repository that the  *)
(* handler finds incomplete is being written by some task at that moment,  *)
(* however requests, downloads and pushes interleave.                      *)
THEOREM RefusalTrue == MaxFaults = 0 => (Spec => RefusalMeansProcessing)
<1> SUFFICES ASSUME MaxFaults = 0 PROVE Spec => RefusalMeansProcessing
  OBVIOUS
<1>1. TypeInv /\ Workers(Writing) /\ [Next]_vars => Workers(Writing)'
  BY WorkersNext, WritingStays DEF AtWork
<1>2. TypeInv /\ Workers(Writing) =>
        \A t \in Tasks : RefuseBusy(t) =>
          \E u \in Tasks, n \in NodesOf(RepoOf[t]) : WorksOn(u, n)
  BY DEF RefuseBusy, Workers, WorksOn, NodesOf
<1>3. Init => Workers(Writing)
  BY InitWorkers
<1> QED
  BY <1>1, <1>2, <1>3, InitType, NextType, PTL
     DEF Spec, RefusalMeansProcessing

-----------------------------------------------------------------------------
(* When no request arrives inside another one's window, the flag is a lock. *)

(* What a frame step may do to the places the lock distinguishes.          *)
LEMMA FrameFacts ==
  ASSUME TypeInv, NEW t \in Tasks, Frame(t)
  PROVE  /\ \A u \in Tasks : pc'[u] \in Window => pc[u] \in Window
         /\ \A u \in Tasks : pc'[u] \in Accepted => pc[u] \in Accepted
         /\ \A u \in Tasks : pc'[u] \in Writing => pc[u] \in Writing
         /\ \A u \in Tasks : pc'[u] \in {"idle", "read"} => pc[u] = pc'[u]
         /\ \A r : NodesOf(r)' = NodesOf(r)
<1>1. \A r : NodesOf(r)' = NodesOf(r)
  BY DEF Frame, SameFlags, NodesOf
<1> QED
  BY <1>1 DEF Frame, Moves, Accepted, Window, Writing

LEMMA FrameLock ==
  ASSUME TypeInv, LockInv, NEW t \in Tasks, Frame(t)
  PROVE  LockInv'
<1> USE FrameFacts DEF LockInv
<1>1. OneRepositoryPerName'
  BY DEF OneRepositoryPerName
<1>2. NodesTrue'
  BY TaskFacts DEF NodesTrue, Frame, SameRecords, SameFlags
<1>3. WindowExclusive'
  BY DEF WindowExclusive, Sibling
<1>4. WritersExclusive'
  BY DEF WritersExclusive, Frame, SameRecords
<1>5. WritersLock'
  BY TaskFacts DEF WritersLock, NodesTrue, Frame, SameRecords, SameFlags
<1>6. AcceptedAlone'
  BY DEF AcceptedAlone, Sibling, Frame, SameRecords
<1>7. RecordCurrent'
  <2>1. \A u \in Tasks : pc'[u] = "create" => pc[u] = "create" \/ u = t
    BY DEF Frame, Moves
  <2>2. \A u \in Tasks : pc'[u] = "mark" => pc[u] = "mark" \/ u = t
    BY DEF Frame, Moves
  <2>3. /\ pc'[t] = "create" => task[t].seen = None
        /\ pc'[t] = "mark" => task[t].seen # None
    BY DEF Frame, Moves, RecordCurrent, Writing
  <2> QED
    BY <2>1, <2>2, <2>3 DEF RecordCurrent, Frame, SameRecords
<1> QED
  BY <1>1, <1>2, <1>3, <1>4, <1>5, <1>6, <1>7

LEMMA RequestLock ==
  ASSUME TypeInv, LockInv, ~Racing, NEW t \in Tasks, Request(t)
  PROVE  LockInv'
<1> USE DEF LockInv
<1>1. /\ pc[t] = "idle" /\ pc'[t] = "read" /\ UNCHANGED repository
      /\ \A u \in Tasks \ {t} : pc'[u] = pc[u]
      /\ \A u \in Tasks : Sibling(t, u) => pc[u] \notin Window
  BY DEF Request, Goto, graphVars, TypeInv, TypeOK
<1>2. SameRecords
  <2> DEFINE l == [task[t] EXCEPT !.commit = commits[RepoOf[t]]]
  <2>1. l.node = task[t].node /\ l.seen = task[t].seen /\ Locally(t, l)
    BY LocalsType DEF Request, Locals
  <2> HIDE DEF l
  <2> QED
    BY <2>1, LocallySame
<1>3. \A r : NodesOf(r)' = NodesOf(r)
  BY <1>1 DEF NodesOf
<1>4. OneRepositoryPerName' /\ NodesTrue'
  BY <1>1, <1>2, <1>3 DEF OneRepositoryPerName, NodesTrue, SameRecords
<1>5. WindowExclusive'
  BY <1>1 DEF WindowExclusive, Sibling
<1>6. WritersExclusive' /\ WritersLock' /\ AcceptedAlone'
  BY <1>1, <1>2 DEF WritersExclusive, WritersLock, AcceptedAlone, SameRecords,
                    Sibling, Writing, Accepted
<1>7. RecordCurrent'
  BY <1>1, <1>2, <1>3 DEF RecordCurrent, SameRecords, Accepted
<1> QED
  BY <1>4, <1>5, <1>6, <1>7

LEMMA AcceptNewLock ==
  ASSUME TypeInv, LockInv, NEW t \in Tasks, AcceptNew(t)
  PROVE  LockInv'
<1> USE DEF LockInv
<1>1. /\ pc[t] = "read" /\ pc'[t] = "scheduled" /\ UNCHANGED <<repository, task>>
      /\ \A u \in Tasks \ {t} : pc'[u] = pc[u]
      /\ NodesOf(RepoOf[t]) = {}
  BY DEF AcceptNew, Goto, graphVars, TypeInv, TypeOK
<1>2. \A r : NodesOf(r)' = NodesOf(r)
  BY <1>1 DEF NodesOf
<1>3. OneRepositoryPerName' /\ NodesTrue'
  BY <1>1, <1>2 DEF OneRepositoryPerName, NodesTrue
<1>4. WindowExclusive' /\ WritersExclusive' /\ WritersLock'
  BY <1>1 DEF WindowExclusive, WritersExclusive, WritersLock, Window, Writing
<1>5. AcceptedAlone'
  <2>1. \A u \in Tasks : Sibling(t, u) => task[u].node = None
    BY <1>1, TaskFacts DEF NodesTrue, NodesOf, Sibling
  <2> QED
    BY <1>1, <2>1 DEF AcceptedAlone, Writing, Sibling
<1>6. RecordCurrent'
  BY <1>1, <1>2 DEF RecordCurrent
<1> QED
  BY <1>3, <1>4, <1>5, <1>6

LEMMA AcceptKnownLock ==
  ASSUME TypeInv, LockInv, NEW t \in Tasks, AcceptKnown(t)
  PROVE  LockInv'
<1> USE DEF LockInv
<1>1. /\ pc[t] = "read" /\ pc'[t] = "scheduled" /\ UNCHANGED repository
      /\ \A u \in Tasks \ {t} : pc'[u] = pc[u]
  BY DEF AcceptKnown, Goto, graphVars, TypeInv, TypeOK
<1>2. PICK n \in NodesOf(RepoOf[t]) :
        /\ repository[n].complete
        /\ Locally(t, [task[t] EXCEPT !.node = n, !.seen = repository[n].moment])
  BY DEF AcceptKnown
<1>3. /\ n \in Tasks /\ n # None /\ repository[n] # None
      /\ repository[n].repo = RepoOf[t]
      /\ repository[n].moment \in Nat /\ repository[n].moment # None
  BY NoneAssumption DEF NodesOf, TypeInv, TypeOK, GraphTypeOK
<1>4. /\ task'[t].node = n /\ task'[t].seen # None
      /\ \A u \in Tasks \ {t} : task'[u] = task[u]
  <2> DEFINE l == [task[t] EXCEPT !.node = n, !.seen = repository[n].moment]
  <2>1. l.node = n /\ l.seen = repository[n].moment /\ Locally(t, l)
    BY <1>2, LocalsType DEF Locals
  <2> HIDE DEF l
  <2> QED
    BY <1>3, <2>1 DEF Locally, TypeInv, TypeOK
<1>5. \A r : NodesOf(r)' = NodesOf(r)
  BY <1>1 DEF NodesOf
<1>6. OneRepositoryPerName' /\ NodesTrue'
  BY <1>1, <1>3, <1>4, <1>5 DEF OneRepositoryPerName, NodesTrue
<1>7. WindowExclusive' /\ WritersExclusive' /\ WritersLock'
  BY <1>1, <1>4 DEF WindowExclusive, WritersExclusive, WritersLock, Window,
                    Writing
<1>8. AcceptedAlone'
  <2>1. ASSUME NEW u \in Tasks, Sibling(t, u), task[u].node # None
        PROVE  task[u].node = n
    <3>1. task[u].node \in NodesOf(RepoOf[t])
      BY <2>1, TaskFacts DEF NodesTrue, NodesOf, Sibling
    <3> QED
      BY <3>1, TaskFacts DEF OneRepositoryPerName
  <2>2. \A u \in Tasks : Sibling(t, u) =>
          pc[u] \notin Writing \/ task[u].node = None
    BY <1>2, <2>1 DEF WritersLock
  <2> QED
    BY <1>1, <1>4, <2>2 DEF AcceptedAlone, Writing, Sibling
<1>9. RecordCurrent'
  BY <1>1, <1>3, <1>4, <1>5 DEF RecordCurrent
<1> QED
  BY <1>6, <1>7, <1>8, <1>9

LEMMA RefuseFrame ==
  ASSUME TypeInv, NEW t \in Tasks, RefuseBusy(t)
  PROVE  Frame(t)
BY UnchangedSame, UnchangedFlags, GotoMoves
   DEF RefuseBusy, Frame, graphVars, Writing

LEMMA CreateLock ==
  ASSUME TypeInv, LockInv, NEW t \in Tasks, CreateRepository(t)
  PROVE  LockInv'
<1> USE DEF LockInv
<1> DEFINE r == RepoOf[t]
<1>1. /\ pc[t] = "create" /\ pc'[t] = "files"
      /\ \A u \in Tasks \ {t} : pc'[u] = pc[u]
      /\ \A u \in Tasks \ {t} : task'[u] = task[u]
  BY DEF CreateRepository, Goto, Locally, TypeInv, TypeOK
<1>2. NodesOf(r) = {} /\ task[t].node = None
  BY <1>1 DEF RecordCurrent, Accepted, Window
<1>3. \A u \in Tasks : Sibling(t, u) => pc[u] \notin Window
  BY <1>1 DEF WindowExclusive, Window
<1>4. repository[t] = None /\ \A u \in Tasks : task[u].node # t
  BY <1>2, NoneAssumption DEF NodesTrue, NodesOf
<1>5. \/ UNCHANGED <<repository, task>>
      \/ /\ \A n \in Tasks \ {t} : repository'[n] = repository[n]
         /\ repository'[t] # None /\ repository'[t].repo = r
         /\ repository'[t].complete = FALSE /\ task'[t].node = t
  <2>1. CASE UserOf[t] \notin KnownUsers
    BY <2>1 DEF CreateRepository, graphVars
  <2>2. CASE UserOf[t] \in KnownUsers
    <3> DEFINE new == [repo |-> r, moment |-> task[t].commit,
                       complete |-> FALSE]
               l == [task[t] EXCEPT !.node = t]
    <3>1. MergedWith(r, task[t].commit) = {}
      BY <1>2 DEF MergedWith
    <3>2. repository' = [repository EXCEPT ![t] = new] /\ Locally(t, l)
      BY <2>2, <3>1 DEF CreateRepository, CreateRepositoryNode
    <3>3. l.node = t
      BY LocalsType DEF Locals
    <3>4. /\ new \in [repo : Repos, moment : Nat, complete : BOOLEAN]
          /\ new.repo = r /\ new.complete = FALSE
      BY TaskFacts
    <3> HIDE DEF new, l
    <3>5. new # None
      BY <3>4, NoneAssumption
    <3>6. task'[t].node = t
      BY <3>2, <3>3 DEF Locally, TypeInv, TypeOK
    <3> QED
      BY <3>2, <3>4, <3>5, <3>6 DEF TypeInv, TypeOK, GraphTypeOK
  <2> QED
    BY <2>1, <2>2
<1> HIDE DEF r
<1>6. \A q : q # r => NodesOf(q)' = NodesOf(q)
  BY <1>4, <1>5 DEF NodesOf
<1>7. \A n \in NodesOf(r)' : n = t
  BY <1>2, <1>5 DEF NodesOf
<1>8. OneRepositoryPerName'
  BY <1>6, <1>7 DEF OneRepositoryPerName
<1>9. NodesTrue'
  BY <1>1, <1>4, <1>5, NoneAssumption, TaskFacts DEF NodesTrue, r
<1>10. WindowExclusive'
  BY <1>1 DEF WindowExclusive, Window
<1>11. WritersExclusive' /\ WritersLock'
  BY <1>1, <1>2, <1>4, <1>5, TaskFacts DEF WritersExclusive, WritersLock
<1>12. AcceptedAlone'
  BY <1>1, <1>3 DEF AcceptedAlone, Sibling, Accepted, Window
<1>13. RecordCurrent'
  BY <1>1, <1>3, <1>6 DEF RecordCurrent, Sibling, Accepted, Window, r
<1> QED
  BY <1>8, <1>9, <1>10, <1>11, <1>12, <1>13

LEMMA MarkLock ==
  ASSUME TypeInv, LockInv, NEW t \in Tasks, MarkIncomplete(t)
  PROVE  LockInv'
<1> USE DEF LockInv
<1> DEFINE n == task[t].node
<1>1. /\ pc[t] = "mark" /\ pc'[t] = "list" /\ UNCHANGED task
      /\ \A u \in Tasks \ {t} : pc'[u] = pc[u]
  BY DEF MarkIncomplete, Goto, TypeInv, TypeOK
<1>2. /\ n \in Tasks /\ n # None /\ repository[n] # None
      /\ repository[n].repo = RepoOf[t]
  BY <1>1, TaskFacts DEF RecordCurrent, Accepted, Window, NodesTrue
<1>3. SetFlag(n, FALSE) /\ NodeExists(n)
  BY <1>2 DEF MarkIncomplete, NodeExists
<1>4. /\ \A m \in Tasks \ {n} : repository'[m] = repository[m]
      /\ \A m \in Tasks : repository'[m] = None <=> repository[m] = None
      /\ \A m \in Tasks : repository[m] # None =>
           repository'[m].repo = repository[m].repo
      /\ repository'[n].complete = FALSE
  BY <1>2, <1>3, SetFlagNodes
<1> HIDE DEF n
<1>5. \A r : NodesOf(r)' = NodesOf(r)
  BY <1>4 DEF NodesOf
<1>6. \A u \in Tasks : Sibling(t, u) => pc[u] \notin Window
  BY <1>1 DEF WindowExclusive, Window
<1>7. \A u \in Tasks \ {t} : task[u].node = n => pc[u] \notin Writing
  BY <1>1, <1>2 DEF AcceptedAlone, Accepted, Window, NodesTrue, Sibling
<1>8. OneRepositoryPerName' /\ NodesTrue'
  BY <1>1, <1>4, <1>5, TaskFacts DEF OneRepositoryPerName, NodesTrue
<1>9. WindowExclusive'
  BY <1>1 DEF WindowExclusive, Window
<1>10. WritersExclusive'
  BY <1>1, <1>7 DEF WritersExclusive, n
<1>11. WritersLock'
  BY <1>1, <1>4, <1>7, TaskFacts DEF WritersLock, n
<1>12. AcceptedAlone'
  BY <1>1, <1>6 DEF AcceptedAlone, Sibling, Accepted, Window
<1>13. RecordCurrent'
  BY <1>1, <1>5 DEF RecordCurrent, Accepted, Window
<1> QED
  BY <1>8, <1>9, <1>10, <1>11, <1>12, <1>13

LEMMA CompleteLock ==
  ASSUME TypeInv, LockInv, NEW t \in Tasks, SetComplete(t)
  PROVE  LockInv'
<1> USE DEF LockInv
<1> DEFINE n == task[t].node
<1>1. /\ pc[t] \in Writing /\ pc'[t] = "own" /\ UNCHANGED task
      /\ \A u \in Tasks \ {t} : pc'[u] = pc[u]
  BY DEF SetComplete, FilesDone, Writing, TypeInv, TypeOK
<1>2. n \in Tasks \cup {None} /\ SetFlag(n, TRUE)
  BY TaskFacts DEF SetComplete
<1>3. /\ \A m \in Tasks \ {n} : repository'[m] = repository[m]
      /\ \A m \in Tasks : repository'[m] = None <=> repository[m] = None
      /\ \A m \in Tasks : repository[m] # None =>
           repository'[m].repo = repository[m].repo
  BY <1>2, SetFlagNodes
<1> HIDE DEF n
<1>4. \A r : NodesOf(r)' = NodesOf(r)
  BY <1>3 DEF NodesOf
<1>5. OneRepositoryPerName' /\ NodesTrue'
  BY <1>1, <1>3, <1>4, TaskFacts DEF OneRepositoryPerName, NodesTrue
<1>6. WindowExclusive' /\ WritersExclusive'
  BY <1>1 DEF WindowExclusive, WritersExclusive, Window, Writing
<1>7. WritersLock'
  BY <1>1, <1>3, TaskFacts DEF WritersLock, WritersExclusive, Writing, n
<1>8. AcceptedAlone' /\ RecordCurrent'
  BY <1>1, <1>4 DEF AcceptedAlone, RecordCurrent, Sibling, Accepted, Window,
                    Writing
<1> QED
  BY <1>5, <1>6, <1>7, <1>8

LEMMA LockNext == ~Racing /\ TypeInv /\ LockInv /\ [Next]_vars => LockInv'
<1> SUFFICES ASSUME ~Racing, TypeInv, LockInv, [Next]_vars PROVE LockInv'
  OBVIOUS
<1>1. ASSUME NEW t \in Tasks, Handle(t) PROVE LockInv'
  BY <1>1, RequestLock, AcceptNewLock, AcceptKnownLock, RefuseFrame, FrameLock
     DEF Handle
<1>2. ASSUME NEW t \in Tasks, Download(t) PROVE LockInv'
  BY <1>2, DownloadFrame, FrameLock
<1>3. ASSUME NEW t \in Tasks, Persist(t) PROVE LockInv'
  BY <1>3, PersistFrame, FrameLock, CreateLock, MarkLock, CompleteLock
<1>4. ASSUME NEW t \in Tasks, Fail(t) PROVE LockInv'
  BY <1>4, FailFrame, FrameLock
<1>5. CASE \/ UNCHANGED vars
           \/ \E r \in Repos : Commit(r)
           \/ \E m \in stream : Extract(m)
  <2>1. CASE Tasks = {}
    BY <2>1 DEF LockInv, OneRepositoryPerName, NodesOf, NodesTrue,
       WindowExclusive, WritersExclusive, WritersLock, AcceptedAlone,
       RecordCurrent
  <2>2. CASE Tasks # {}
    BY <1>5, <2>2, EnvironmentFrame, FrameLock
  <2> QED
    BY <2>1, <2>2
<1> QED
  BY <1>1, <1>2, <1>3, <1>4, <1>5 DEF Next

LEMMA InitLock == Init => LockInv
BY DEF Init, GraphInit, NoLocals, LockInv, OneRepositoryPerName, NodesOf,
       NodesTrue, WindowExclusive, WritersExclusive, WritersLock,
       AcceptedAlone, RecordCurrent, Window, Accepted, Writing

(* If no request reads the graph while an earlier one for the same          *)
(* repository is between its own read and its first write, is_complete is a *)
(* lock: the owner/name pair keeps one Repository node.                    *)
THEOREM SerialOneNode == ~Racing => (Spec => []OneRepositoryPerName)
<1> SUFFICES ASSUME ~Racing PROVE Spec => []OneRepositoryPerName
  OBVIOUS
<1>1. TypeInv /\ LockInv /\ [Next]_vars => LockInv'
  BY LockNext
<1>2. LockInv => OneRepositoryPerName
  BY DEF LockInv
<1> QED
  BY <1>1, <1>2, InitType, NextType, InitLock, PTL DEF Spec

(* Under the same assumption, a repository whose flag is TRUE is not being  *)
(* rewritten by any task.                                                  *)
THEOREM SerialComplete == ~Racing => (Spec => []CompleteMeansIdle)
<1> SUFFICES ASSUME ~Racing PROVE Spec => []CompleteMeansIdle
  OBVIOUS
<1>1. TypeInv /\ LockInv /\ [Next]_vars => LockInv'
  BY LockNext
<1>2. LockInv => CompleteMeansIdle
  BY NoneAssumption DEF LockInv, CompleteMeansIdle, WritersLock, WorksOn
<1> QED
  BY <1>1, <1>2, InitType, NextType, InitLock, PTL DEF Spec
=============================================================================
