-------------------------- MODULE AnalysisCacheProofs -------------------------
(***************************************************************************)
(* For every value of the constants: an analysis of a requirement file is  *)
(* never older than the file's last stamp, when no update stamps the file  *)
(* under a request that still has to store what it read.                   *)
(***************************************************************************)
EXTENDS AnalysisCache, TLAPS

-----------------------------------------------------------------------------
(* Type correctness.                                                       *)

(* What the place of a request says about its kind and its locals.         *)
Coherent ==
  \A r \in Requests :
    /\ pc[r] = "lookup" => ask[r].kind = "smt" /\ held[r].moment # None
    /\ pc[r] = "moment" => ask[r].kind = "file_info"
    /\ pc[r] = "expand" => ask[r].kind # "smt"
    /\ pc[r] = "store" /\ ask[r].kind # "smt" => held[r].graph # NoDependencies

TypeInv == TypeOK /\ Coherent

LEMMA InitType == Init => TypeInv
BY GraphsAssumption, AsksAssumption
   DEF Init, TypeInv, TypeOK, Coherent, NothingHeld, Labels

LEMMA AskFacts ==
  ASSUME TypeInv, NEW r \in Requests
  PROVE  /\ ask[r] \in Asks /\ ask[r].subject \in Subjects
         /\ ask[r].view \in Views
         /\ SmtKey(ask[r]) \in SmtKeys /\ ResultKey(ask[r]) \in ResultKeys
         /\ ask[r].subject \in ReqFiles <=> ask[r].kind # "package_info"
BY AsksAssumption DEF TypeInv, TypeOK, SmtKeys, ResultKeys

LEMMA RespondType ==
  ASSUME TypeInv, NEW r \in Requests, NEW g \in Graphs, NEW v \in Views,
         Respond(r, g, v)
  PROVE  /\ answer' \in [Requests -> [graph : Graphs, view : Views]]
         /\ held' \in [Requests -> [graph : Graphs, moment : Nat \cup {None}]]
         /\ cached' \in [Requests -> Entry \cup {None}]
         /\ answer'[r].graph = g
         /\ \A q \in Requests \ {r} :
              /\ held'[q] = held[q] /\ cached'[q] = cached[q]
              /\ answer'[q] = answer[q]
BY GraphsAssumption DEF Respond, NothingHeld, TypeInv, TypeOK

LEMMA GotoFacts ==
  ASSUME TypeInv, NEW r \in Requests, NEW here, NEW there \in Labels,
         Goto(r, here, there)
  PROVE  /\ pc[r] = here /\ pc'[r] = there /\ pc' \in [Requests -> Labels]
         /\ \A q \in Requests \ {r} : pc'[q] = pc[q]
BY DEF Goto, TypeInv, TypeOK

(* A request that answers leaves the others as they were.                  *)
LEMMA DoneStep ==
  ASSUME TypeInv, NEW r \in Requests, NEW g \in Graphs, NEW v \in Views,
         Respond(r, g, v), NEW here, Goto(r, here, "done"), UNCHANGED ask
  PROVE  /\ Coherent'
         /\ pc' \in [Requests -> Labels]
         /\ answer' \in [Requests -> [graph : Graphs, view : Views]]
         /\ held' \in [Requests -> [graph : Graphs, moment : Nat \cup {None}]]
         /\ cached' \in [Requests -> Entry \cup {None}]
BY RespondType, GotoFacts DEF TypeInv, Coherent, Labels

LEMMA ArriveFacts ==
  ASSUME TypeInv, NEW r \in Requests, NEW kind, Arrive(r, kind)
  PROVE  /\ seen' \in [Requests -> SUBSET Graphs]
         /\ seen'[r] = recent[ask[r].subject] /\ ask[r].kind = kind
         /\ \A q \in Requests \ {r} : seen'[q] = seen[q]
BY AskFacts DEF Arrive, TypeInv, TypeOK

LEMMA SolveType ==
  ASSUME TypeInv, NEW r \in Requests, Solve(r)
  PROVE  TypeInv'
<1> USE AskFacts DEF graphVars, storeVars, Labels
<1>1. CASE ReadGraph(r)
  <2> DEFINE f == ask[r].subject
             h == [graph |-> graph[f], moment |-> moment[f]]
  <2>1. /\ f \in ReqFiles /\ moment[f] \in Nat /\ graph[f] \in Graphs
        /\ held' = [held EXCEPT ![r] = h]
    BY <1>1, ArriveFacts DEF ReadGraph, TypeInv, TypeOK
  <2>2. h \in [graph : Graphs, moment : Nat \cup {None}] /\ h.moment # None
    BY <2>1, NoneAssumption
  <2> HIDE DEF f, h
  <2>3. Arrive(r, "smt") /\ Goto(r, "idle", "lookup")
    BY <1>1 DEF ReadGraph
  <2> QED
    BY <1>1, <2>1, <2>2, <2>3, ArriveFacts, GotoFacts
       DEF ReadGraph, TypeInv, TypeOK, Coherent
<1>2. CASE FileMissing(r)
  <2>1. Arrive(r, "smt") /\ Goto(r, "idle", "error")
    BY <1>2 DEF FileMissing
  <2> QED
    BY <1>2, <2>1, ArriveFacts, GotoFacts
       DEF FileMissing, TypeInv, TypeOK, Coherent
<1>3. CASE UseModel(r)
  <2> DEFINE entry == smts[SmtKey(ask[r])]
  <2>1. entry \in Entry
    BY <1>3 DEF UseModel, Newer, TypeInv, TypeOK
  <2>2. /\ Goto(r, "lookup", "done") /\ Respond(r, entry.graph, entry.view)
        /\ entry.graph \in Graphs /\ entry.view \in Views
    BY <1>3, <2>1 DEF UseModel, Entry
  <2> HIDE DEF entry
  <2> QED
    BY <1>3, <2>2, DoneStep DEF UseModel, TypeInv, TypeOK
<1>4. CASE Transform(r)
  <2>1. Goto(r, "lookup", "store") /\ ask[r].kind = "smt"
    BY <1>4 DEF Transform
  <2> QED
    BY <1>4, <2>1, GotoFacts DEF Transform, TypeInv, TypeOK, Coherent
<1>5. CASE StoreModel(r)
  <2>1. /\ Goto(r, "store", "done")
        /\ Respond(r, held[r].graph, ask[r].view) /\ held[r].graph \in Graphs
    BY <1>5 DEF StoreModel, TypeInv, TypeOK
  <2>2. smts' \in [SmtKeys -> Entry \cup {None}]
    BY <1>5, <2>1 DEF StoreModel, Text, Entry, TypeInv, TypeOK
  <2> QED
    BY <1>5, <2>1, <2>2, DoneStep DEF StoreModel, TypeInv, TypeOK
<1> QED
  BY <1>1, <1>2, <1>3, <1>4, <1>5 DEF Solve

Result == [graph : Graphs \ {NoDependencies}, view : Views, moment : Nat]

LEMMA ResultEntry == Result \subseteq Entry
BY DEF Result, Entry

LEMMA ReportType ==
  ASSUME TypeInv, NEW r \in Requests, Report(r)
  PROVE  TypeInv'
<1> USE AskFacts DEF graphVars, storeVars, Labels
<1>1. CASE LookupResult(r)
  <2>1. Arrive(r, "file_info") /\ Goto(r, "idle", "moment")
    BY <1>1 DEF LookupResult
  <2>2. cached' \in [Requests -> Entry \cup {None}]
    BY <1>1, ResultEntry DEF LookupResult, TypeInv, TypeOK, Result
  <2> QED
    BY <1>1, <2>1, <2>2, ArriveFacts, GotoFacts
       DEF LookupResult, TypeInv, TypeOK, Coherent
<1>2. CASE UseResult(r)
  <2>1. cached[r] \in Entry
    BY <1>2 DEF UseResult, Newer, TypeInv, TypeOK
  <2>2. /\ Goto(r, "moment", "done")
        /\ Respond(r, cached[r].graph, cached[r].view)
        /\ cached[r].graph \in Graphs /\ cached[r].view \in Views
    BY <1>2, <2>1 DEF UseResult, Entry
  <2> QED
    BY <1>2, <2>2, DoneStep DEF UseResult, TypeInv, TypeOK
<1>3. CASE IgnoreResult(r)
  <2>1. Goto(r, "moment", "expand")
    BY <1>3 DEF IgnoreResult
  <2> QED
    BY <1>3, <2>1, GotoFacts DEF IgnoreResult, TypeInv, TypeOK, Coherent
<1>4. CASE UsePackageResult(r)
  <2> DEFINE entry == results[ResultKey(ask[r])]
  <2>1. entry \in Entry
    BY <1>4, ResultEntry DEF UsePackageResult, TypeInv, TypeOK, Result
  <2>2. /\ Goto(r, "idle", "done") /\ Respond(r, entry.graph, entry.view)
        /\ Arrive(r, "package_info")
        /\ entry.graph \in Graphs /\ entry.view \in Views
    BY <1>4, <2>1 DEF UsePackageResult, Entry
  <2> HIDE DEF entry
  <2> QED
    BY <1>4, <2>2, ArriveFacts, DoneStep
       DEF UsePackageResult, TypeInv, TypeOK
<1>5. CASE NoPackageResult(r)
  <2>1. Arrive(r, "package_info") /\ Goto(r, "idle", "expand")
    BY <1>5 DEF NoPackageResult
  <2> QED
    BY <1>5, <2>1, ArriveFacts, GotoFacts
       DEF NoPackageResult, TypeInv, TypeOK, Coherent
<1>6. CASE ReadSubgraph(r)
  <2> DEFINE g == graph[ask[r].subject]
  <2>1. /\ Goto(r, "expand", "store") /\ g \in Graphs /\ g # NoDependencies
        /\ held' = [held EXCEPT ![r].graph = g]
    BY <1>6 DEF ReadSubgraph, TypeInv, TypeOK
  <2> HIDE DEF g
  <2>2. /\ held' \in [Requests -> [graph : Graphs, moment : Nat \cup {None}]]
        /\ held'[r].graph = g
        /\ \A q \in Requests \ {r} : held'[q] = held[q]
    BY <2>1 DEF TypeInv, TypeOK
  <2> QED
    BY <1>6, <2>1, <2>2, GotoFacts DEF ReadSubgraph, TypeInv, TypeOK, Coherent
<1>7. CASE AnswerEmpty(r)
  <2>1. /\ Goto(r, "expand", "done")
        /\ Respond(r, NoDependencies, ask[r].view)
    BY <1>7 DEF AnswerEmpty
  <2> QED
    BY <1>7, <2>1, GraphsAssumption, DoneStep
       DEF AnswerEmpty, TypeInv, TypeOK
<1>8. CASE StoreResult(r)
  <2>1. /\ Goto(r, "store", "done") /\ ask[r].kind # "smt"
        /\ Respond(r, held[r].graph, ask[r].view)
        /\ held[r].graph \in Graphs
    BY <1>8 DEF StoreResult, TypeInv, TypeOK
  <2>2. held[r].graph \in Graphs \ {NoDependencies}
    BY <2>1, GotoFacts DEF TypeInv, Coherent
  <2>3. Text(r) \in Result
    BY <2>2 DEF Text, Result, TypeInv, TypeOK
  <2>4. results' \in [ResultKeys -> Result \cup {None}]
    BY <1>8, <2>3 DEF StoreResult, Result, TypeInv, TypeOK
  <2> QED
    BY <1>8, <2>1, <2>4, DoneStep DEF StoreResult, TypeInv, TypeOK, Result
<1> QED
  BY <1>1, <1>2, <1>3, <1>4, <1>5, <1>6, <1>7, <1>8 DEF Report

LEMMA WriterType ==
  ASSUME TypeInv,
         \/ \E s \in Subjects, g \in Graphs : Change(s, g)
         \/ \E f \in ReqFiles : Stamp(f) \/ Remove(f)
         \/ Tick
  PROVE  TypeInv'
<1> USE SubjectsAssumption, GraphsAssumption
    DEF graphVars, storeVars, TypeInv, TypeOK, Coherent
<1>1. ASSUME NEW s \in Subjects, NEW g \in Graphs, Change(s, g) PROVE TypeInv'
  BY <1>1 DEF Change
<1>2. ASSUME NEW f \in ReqFiles, Stamp(f) PROVE TypeInv'
  BY <1>2 DEF Stamp
<1>3. ASSUME NEW f \in ReqFiles, Remove(f) PROVE TypeInv'
  BY <1>3 DEF Remove
<1>4. CASE Tick
  BY <1>4 DEF Tick
<1> QED
  BY <1>1, <1>2, <1>3, <1>4

LEMMA NextType == TypeInv /\ [Next]_vars => TypeInv'
<1>1. TypeInv /\ UNCHANGED vars => TypeInv'
  BY DEF TypeInv, TypeOK, Coherent, vars, graphVars, storeVars
<1> QED
  BY <1>1, SolveType, ReportType, WriterType DEF Next

(* Every reachable state is well typed: in particular an analysis without   *)
(* dependencies never enters the result cache, and no SMT request compares  *)
(* with the moment of a file that was missing when it read the graph.       *)
THEOREM TypeCorrect == Spec => []TypeOK
<1>1. TypeInv => TypeOK
  BY DEF TypeInv
<1> QED
  BY <1>1, InitType, NextType, PTL DEF Spec

-----------------------------------------------------------------------------
(* Freshness.  A stored entry newer than the file's moment holds a graph    *)
(* the file has had since; a request under way has seen all of those.       *)

EntryFresh(entry, f) ==
  entry # None => /\ entry.moment <= clock
                  /\ Newer(entry, moment[f]) => entry.graph \in recent[f]

StoresFresh ==
  \A a \in Asks : a.subject \in ReqFiles =>
    /\ EntryFresh(smts[SmtKey(a)], a.subject)
    /\ EntryFresh(results[ResultKey(a)], a.subject)

FileFresh ==
  \A f \in ReqFiles : graph[f] \in recent[f] /\ (moment[f] # None => moment[f] <= clock)

UnderWay(r) == pc[r] \notin {"idle", "done", "error"}

RequestFresh(r) ==
  LET f == ask[r].subject IN
  f \in ReqFiles =>
    /\ UnderWay(r) => recent[f] \subseteq seen[r]
    /\ pc[r] \in {"lookup", "store"} => held[r].graph \in recent[f]
    /\ pc[r] = "lookup" => held[r].moment = moment[f]
    /\ pc[r] = "moment" => EntryFresh(cached[r], f)
    /\ pc[r] = "done" => answer[r].graph \in seen[r]

FreshInv == StoresFresh /\ FileFresh /\ \A r \in Requests : RequestFresh(r)

LEMMA InitFresh == Init => FreshInv
<1> SUFFICES ASSUME Init PROVE FreshInv
  OBVIOUS
<1>1. StoresFresh
  BY AsksAssumption DEF Init, StoresFresh, EntryFresh, SmtKeys, ResultKeys
<1>2. FileFresh
  BY SubjectsAssumption DEF Init, FileFresh
<1>3. \A r \in Requests : RequestFresh(r)
  BY DEF Init, RequestFresh, UnderWay
<1> QED
  BY <1>1, <1>2, <1>3 DEF FreshInv

(* A step of a request leaves the graph alone, so all that it can disturb   *)
(* is what it stores and its own state.                                    *)
LEMMA RequestStep ==
  ASSUME TypeInv, FreshInv, NEW r \in Requests,
         UNCHANGED <<clock, graphVars, ask>>,
         \A q \in Requests \ {r} :
           /\ pc'[q] = pc[q] /\ held'[q] = held[q] /\ cached'[q] = cached[q]
           /\ answer'[q] = answer[q] /\ seen'[q] = seen[q],
         RequestFresh(r)', StoresFresh'
  PROVE  FreshInv'
BY DEF FreshInv, FileFresh, RequestFresh, EntryFresh, UnderWay, Newer, graphVars

LEMMA StoresSame ==
  ASSUME FreshInv, UNCHANGED <<clock, graphVars, storeVars>>
  PROVE  StoresFresh'
BY DEF FreshInv, StoresFresh, EntryFresh, Newer, graphVars, storeVars

LEMMA EntryOf ==
  ASSUME TypeInv, FreshInv, NEW r \in Requests, ask[r].subject \in ReqFiles
  PROVE  /\ EntryFresh(smts[SmtKey(ask[r])], ask[r].subject)
         /\ EntryFresh(results[ResultKey(ask[r])], ask[r].subject)
BY AskFacts DEF FreshInv, StoresFresh

(* What a request stores was below the file after its last stamp.          *)
LEMMA TextFresh ==
  ASSUME TypeInv, FreshInv, NEW r \in Requests, pc[r] = "store",
         NEW f \in ReqFiles, ask[r].subject = f, UNCHANGED <<clock, graphVars>>,
         NEW entry, entry = Text(r)
  PROVE  EntryFresh(entry, f)'
BY DEF FreshInv, RequestFresh, EntryFresh, Text, TypeInv, TypeOK, graphVars

LEMMA KeptFresh ==
  ASSUME FreshInv, NEW f \in ReqFiles, UNCHANGED <<clock, graphVars>>,
         NEW entry, EntryFresh(entry, f)
  PROVE  EntryFresh(entry, f)'
BY DEF EntryFresh, Newer, graphVars

LEMMA ModelStored ==
  ASSUME TypeInv, FreshInv, NEW r \in Requests, pc[r] = "store",
         ask[r].subject \in ReqFiles, UNCHANGED <<clock, graphVars, results>>,
         smts' = [smts EXCEPT ![SmtKey(ask[r])] = Text(r)]
  PROVE  StoresFresh'
<1>1. ASSUME NEW a \in Asks, a.subject \in ReqFiles,
             NEW entry, entry = smts'[SmtKey(a)]
      PROVE  EntryFresh(entry, a.subject)'
  <2>1. CASE SmtKey(a) = SmtKey(ask[r])
    <3>1. entry = Text(r) /\ ask[r].subject = a.subject
      BY <1>1, <2>1 DEF SmtKey, SmtKeys, TypeInv, TypeOK
    <3> QED
      BY <1>1, <3>1, TextFresh
  <2>2. CASE SmtKey(a) # SmtKey(ask[r])
    <3>1. entry = smts[SmtKey(a)]
      BY <1>1, <2>2 DEF TypeInv, TypeOK, SmtKeys
    <3>2. EntryFresh(entry, a.subject)
      BY <1>1, <3>1 DEF FreshInv, StoresFresh
    <3> QED
      BY <1>1, <3>2, KeptFresh
  <2> QED
    BY <2>1, <2>2
<1>2. ASSUME NEW a \in Asks, a.subject \in ReqFiles,
             NEW entry, entry = results'[ResultKey(a)]
      PROVE  EntryFresh(entry, a.subject)'
  <2>1. EntryFresh(entry, a.subject)
    BY <1>2 DEF FreshInv, StoresFresh
  <2> QED
    BY <1>2, <2>1, KeptFresh
<1> QED
  BY <1>1, <1>2 DEF StoresFresh, EntryFresh, Newer

LEMMA ResultStored ==
  ASSUME TypeInv, FreshInv, NEW r \in Requests, pc[r] = "store",
         ask[r].subject \in ReqFiles, UNCHANGED <<clock, graphVars, smts>>,
         results' = [results EXCEPT ![ResultKey(ask[r])] = Text(r)]
  PROVE  StoresFresh'
<1>1. ASSUME NEW a \in Asks, a.subject \in ReqFiles,
             NEW entry, entry = results'[ResultKey(a)]
      PROVE  EntryFresh(entry, a.subject)'
  <2>1. CASE ResultKey(a) = ResultKey(ask[r])
    <3>1. entry = Text(r) /\ ask[r].subject = a.subject
      BY <1>1, <2>1 DEF ResultKey, ResultKeys, TypeInv, TypeOK
    <3> QED
      BY <1>1, <3>1, TextFresh
  <2>2. CASE ResultKey(a) # ResultKey(ask[r])
    <3>1. entry = results[ResultKey(a)]
      BY <1>1, <2>2 DEF TypeInv, TypeOK, ResultKeys
    <3>2. EntryFresh(entry, a.subject)
      BY <1>1, <3>1 DEF FreshInv, StoresFresh
    <3> QED
      BY <1>1, <3>2, KeptFresh
  <2> QED
    BY <2>1, <2>2
<1>2. ASSUME NEW a \in Asks, a.subject \in ReqFiles,
             NEW entry, entry = smts'[SmtKey(a)]
      PROVE  EntryFresh(entry, a.subject)'
  <2>1. EntryFresh(entry, a.subject)
    BY <1>2 DEF FreshInv, StoresFresh
  <2> QED
    BY <1>2, <2>1, KeptFresh
<1> QED
  BY <1>1, <1>2 DEF StoresFresh, EntryFresh, Newer

LEMMA SolveFresh ==
  ASSUME TypeInv, FreshInv, NEW r \in Requests, Solve(r)
  PROVE  FreshInv'
<1> DEFINE f == ask[r].subject
<1> USE AskFacts, GraphsAssumption DEF Labels
<1>1. CASE ReadGraph(r)
  <2>1. Arrive(r, "smt") /\ Goto(r, "idle", "lookup") /\ f \in ReqFiles
    BY <1>1, ArriveFacts DEF ReadGraph
  <2>2. held'[r].graph = graph[f] /\ held'[r].moment = moment[f]
    BY <1>1 DEF ReadGraph, TypeInv, TypeOK
  <2>3. RequestFresh(r)'
    BY <1>1, <2>1, <2>2, ArriveFacts, GotoFacts
       DEF ReadGraph, FreshInv, FileFresh, RequestFresh, UnderWay, graphVars
  <2>4. \A q \in Requests \ {r} : held'[q] = held[q]
    BY <1>1 DEF ReadGraph, TypeInv, TypeOK
  <2> QED
    BY <1>1, <2>1, <2>3, <2>4, ArriveFacts, GotoFacts, RequestStep, StoresSame
       DEF ReadGraph
<1>2. CASE FileMissing(r)
  <2>1. Arrive(r, "smt") /\ Goto(r, "idle", "error")
    BY <1>2 DEF FileMissing
  <2>2. RequestFresh(r)'
    BY <2>1, GotoFacts DEF RequestFresh, UnderWay
  <2> QED
    BY <1>2, <2>1, <2>2, ArriveFacts, GotoFacts, RequestStep, StoresSame
       DEF FileMissing
<1>3. CASE UseModel(r)
  <2> DEFINE entry == smts[SmtKey(ask[r])]
  <2>1. entry \in Entry /\ ask[r].kind = "smt" /\ pc[r] = "lookup"
    BY <1>3 DEF UseModel, Newer, Goto, TypeInv, TypeOK
  <2>2. /\ Goto(r, "lookup", "done") /\ Respond(r, entry.graph, entry.view)
        /\ entry.graph \in Graphs /\ entry.view \in Views /\ f \in ReqFiles
    BY <1>3, <2>1 DEF UseModel, Entry
  <2>3. held[r].moment = moment[f] /\ recent[f] \subseteq seen[r]
    BY <2>1, <2>2 DEF FreshInv, RequestFresh, UnderWay
  <2>4. entry.graph \in seen[r]
    BY <1>3, <2>2, <2>3, EntryOf DEF UseModel, EntryFresh, Newer
  <2> HIDE DEF entry
  <2>5. RequestFresh(r)'
    BY <1>3, <2>2, <2>4, RespondType, GotoFacts
       DEF UseModel, RequestFresh, UnderWay
  <2> QED
    BY <1>3, <2>2, <2>5, RespondType, GotoFacts, RequestStep, StoresSame
       DEF UseModel
<1>4. CASE Transform(r)
  <2>1. Goto(r, "lookup", "store")
    BY <1>4 DEF Transform
  <2>2. RequestFresh(r)'
    BY <1>4, <2>1, GotoFacts
       DEF Transform, FreshInv, RequestFresh, UnderWay, graphVars
  <2> QED
    BY <1>4, <2>1, <2>2, GotoFacts, RequestStep, StoresSame DEF Transform
<1>5. CASE StoreModel(r)
  <2>1. /\ Goto(r, "store", "done") /\ pc[r] = "store" /\ f \in ReqFiles
        /\ Respond(r, held[r].graph, ask[r].view) /\ held[r].graph \in Graphs
    BY <1>5 DEF StoreModel, Goto, TypeInv, TypeOK
  <2>2. held[r].graph \in seen[r]
    BY <2>1 DEF FreshInv, RequestFresh, UnderWay
  <2>3. RequestFresh(r)'
    BY <1>5, <2>1, <2>2, RespondType, GotoFacts
       DEF StoreModel, RequestFresh, UnderWay
  <2>4. UNCHANGED <<clock, graphVars, results, ask>>
        /\ smts' = [smts EXCEPT ![SmtKey(ask[r])] = Text(r)]
    BY <1>5 DEF StoreModel
  <2>5. StoresFresh'
    BY <2>1, <2>4, ModelStored DEF graphVars
  <2> QED
    BY <1>5, <2>1, <2>3, <2>5, RespondType, GotoFacts, RequestStep
       DEF StoreModel
<1> QED
  BY <1>1, <1>2, <1>3, <1>4, <1>5 DEF Solve

LEMMA ReportFresh ==
  ASSUME TypeInv, FreshInv, NEW r \in Requests, Report(r)
  PROVE  FreshInv'
<1> DEFINE f == ask[r].subject
<1> USE AskFacts, GraphsAssumption DEF Labels
<1>1. CASE LookupResult(r)
  <2>1. /\ Arrive(r, "file_info") /\ Goto(r, "idle", "moment")
        /\ f \in ReqFiles
    BY <1>1, ArriveFacts DEF LookupResult
  <2>2. /\ cached'[r] = results[ResultKey(ask[r])]
        /\ \A q \in Requests \ {r} : cached'[q] = cached[q]
    BY <1>1 DEF LookupResult, TypeInv, TypeOK
  <2>3. RequestFresh(r)'
    BY <1>1, <2>1, <2>2, EntryOf, ArriveFacts, GotoFacts
       DEF LookupResult, RequestFresh, UnderWay, EntryFresh, Newer, graphVars
  <2> QED
    BY <1>1, <2>1, <2>2, <2>3, ArriveFacts, GotoFacts, RequestStep, StoresSame
       DEF LookupResult
<1>2. CASE UseResult(r)
  <2>1. cached[r] \in Entry /\ pc[r] = "moment" /\ f \in ReqFiles
    BY <1>2 DEF UseResult, Newer, Goto, TypeInv, TypeOK, Coherent
  <2>2. /\ Goto(r, "moment", "done")
        /\ Respond(r, cached[r].graph, cached[r].view)
        /\ cached[r].graph \in Graphs /\ cached[r].view \in Views
    BY <1>2, <2>1 DEF UseResult, Entry
  <2>3. cached[r].graph \in recent[f] /\ recent[f] \subseteq seen[r]
    BY <1>2, <2>1
       DEF UseResult, FreshInv, RequestFresh, UnderWay, EntryFresh, Newer
  <2>4. RequestFresh(r)'
    BY <1>2, <2>1, <2>2, <2>3, RespondType, GotoFacts
       DEF UseResult, RequestFresh, UnderWay
  <2> QED
    BY <1>2, <2>2, <2>4, RespondType, GotoFacts, RequestStep, StoresSame
       DEF UseResult
<1>3. CASE IgnoreResult(r)
  <2>1. /\ Goto(r, "moment", "expand")
        /\ \A q \in Requests \ {r} : cached'[q] = cached[q]
    BY <1>3 DEF IgnoreResult, TypeInv, TypeOK
  <2>2. RequestFresh(r)'
    BY <1>3, <2>1, GotoFacts
       DEF IgnoreResult, FreshInv, RequestFresh, UnderWay, graphVars
  <2> QED
    BY <1>3, <2>1, <2>2, GotoFacts, RequestStep, StoresSame DEF IgnoreResult
<1>4. CASE UsePackageResult(r)
  <2> DEFINE entry == results[ResultKey(ask[r])]
  <2>1. entry \in Entry
    BY <1>4, ResultEntry DEF UsePackageResult, TypeInv, TypeOK, Result
  <2>2. /\ Goto(r, "idle", "done") /\ Respond(r, entry.graph, entry.view)
        /\ Arrive(r, "package_info") /\ f \notin ReqFiles
        /\ entry.graph \in Graphs /\ entry.view \in Views
    BY <1>4, <2>1, ArriveFacts DEF UsePackageResult, Entry
  <2> HIDE DEF entry
  <2>3. RequestFresh(r)'
    BY <1>4, <2>2 DEF UsePackageResult, RequestFresh
  <2> QED
    BY <1>4, <2>2, <2>3, RespondType, ArriveFacts, GotoFacts, RequestStep,
       StoresSame DEF UsePackageResult
<1>5. CASE NoPackageResult(r)
  <2>1. /\ Arrive(r, "package_info") /\ Goto(r, "idle", "expand")
        /\ f \notin ReqFiles
    BY <1>5, ArriveFacts DEF NoPackageResult
  <2>2. RequestFresh(r)'
    BY <1>5, <2>1 DEF NoPackageResult, RequestFresh
  <2> QED
    BY <1>5, <2>1, <2>2, ArriveFacts, GotoFacts, RequestStep, StoresSame
       DEF NoPackageResult
<1>6. CASE ReadSubgraph(r)
  <2>1. /\ Goto(r, "expand", "store") /\ held'[r].graph = graph[f]
        /\ \A q \in Requests \ {r} : held'[q] = held[q]
    BY <1>6 DEF ReadSubgraph, TypeInv, TypeOK
  <2>2. RequestFresh(r)'
    BY <1>6, <2>1, GotoFacts
       DEF ReadSubgraph, FreshInv, FileFresh, RequestFresh, UnderWay, graphVars
  <2> QED
    BY <1>6, <2>1, <2>2, GotoFacts, RequestStep, StoresSame DEF ReadSubgraph
<1>7. CASE AnswerEmpty(r)
  <2>1. /\ Goto(r, "expand", "done") /\ pc[r] = "expand"
        /\ Respond(r, NoDependencies, ask[r].view) /\ graph[f] = NoDependencies
    BY <1>7 DEF AnswerEmpty, Goto
  <2>2. f \in ReqFiles => NoDependencies \in seen[r]
    BY <2>1 DEF FreshInv, FileFresh, RequestFresh, UnderWay
  <2>3. RequestFresh(r)'
    BY <1>7, <2>1, <2>2, RespondType, GotoFacts
       DEF AnswerEmpty, RequestFresh, UnderWay
  <2> QED
    BY <1>7, <2>1, <2>3, RespondType, GotoFacts, RequestStep, StoresSame
       DEF AnswerEmpty
<1>8. CASE StoreResult(r)
  <2>1. /\ Goto(r, "store", "done") /\ pc[r] = "store"
        /\ Respond(r, held[r].graph, ask[r].view) /\ held[r].graph \in Graphs
        /\ UNCHANGED <<clock, graphVars, smts, ask>>
        /\ results' = [results EXCEPT ![ResultKey(ask[r])] = Text(r)]
    BY <1>8 DEF StoreResult, Goto, TypeInv, TypeOK
  <2>2. f \in ReqFiles => held[r].graph \in seen[r]
    BY <2>1 DEF FreshInv, RequestFresh, UnderWay
  <2>3. RequestFresh(r)'
    BY <1>8, <2>1, <2>2, RespondType, GotoFacts
       DEF StoreResult, RequestFresh, UnderWay
  <2>4. CASE f \in ReqFiles
    <3>1. StoresFresh'
      BY <2>1, <2>4, ResultStored
    <3> QED
      BY <1>8, <2>1, <2>3, <3>1, RespondType, GotoFacts, RequestStep
         DEF StoreResult
  <2>5. CASE f \notin ReqFiles
    <3>1. \A a \in Asks : a.subject \in ReqFiles =>
            results'[ResultKey(a)] = results[ResultKey(a)]
      BY <2>1, <2>5 DEF ResultKey, ResultKeys, TypeInv, TypeOK
    <3>2. StoresFresh'
      BY <2>1, <3>1
         DEF FreshInv, StoresFresh, EntryFresh, Newer, graphVars
    <3> QED
      BY <1>8, <2>1, <2>3, <3>2, RespondType, GotoFacts, RequestStep
         DEF StoreResult
  <2> QED
    BY <2>4, <2>5
<1> QED
  BY <1>1, <1>2, <1>3, <1>4, <1>5, <1>6, <1>7, <1>8 DEF Report

(* Writers: a change widens what counts as recent and what every request    *)
(* under way has seen; a stamp narrows it to the graph of that moment, so   *)
(* that no entry is newer and, without Overlap, no request holds another.   *)
LEMMA WriterFresh ==
  ASSUME TypeInv, FreshInv, ~Overlap,
         \/ \E s \in Subjects, g \in Graphs : Change(s, g)
         \/ \E f \in ReqFiles : Stamp(f) \/ Remove(f)
         \/ Tick
  PROVE  FreshInv'
<1> USE SubjectsAssumption, GraphsAssumption, AskFacts
<1>1. ASSUME NEW s \in Subjects, NEW g \in Graphs, Change(s, g)
      PROVE  FreshInv'
  <2>1. /\ \A t \in Subjects : recent[t] \subseteq recent'[t]
        /\ graph'[s] = g /\ g \in recent'[s]
        /\ \A t \in Subjects \ {s} : graph'[t] = graph[t] /\ recent'[t] = recent[t]
        /\ recent'[s] = recent[s] \cup {g}
        /\ UNCHANGED <<clock, moment, storeVars, ask, pc, held, cached, answer>>
    BY <1>1 DEF Change, TypeInv, TypeOK
  <2>2. \A r \in Requests :
          /\ seen[r] \subseteq seen'[r]
          /\ ask[r].subject = s /\ UnderWay(r) => g \in seen'[r]
    BY <1>1 DEF Change, UnderWay
  <2>3. StoresFresh'
    BY <2>1, AsksAssumption
       DEF FreshInv, StoresFresh, EntryFresh, Newer, storeVars
  <2>4. FileFresh'
    BY <2>1 DEF FreshInv, FileFresh
  <2>5. \A r \in Requests : RequestFresh(r)'
    BY <2>1, <2>2 DEF FreshInv, RequestFresh, UnderWay, EntryFresh, Newer
  <2> QED
    BY <2>3, <2>4, <2>5 DEF FreshInv
<1>2. ASSUME NEW f \in ReqFiles, Stamp(f) PROVE FreshInv'
  <2>1. /\ moment'[f] = clock /\ recent'[f] = {graph[f]}
        /\ \A t \in ReqFiles \ {f} : moment'[t] = moment[t] /\ recent'[t] = recent[t]
        /\ UNCHANGED <<clock, graph, storeVars, ask, pc, held, cached, answer, seen>>
        /\ \A r \in Requests : ~Holds(r, f)
    BY <1>2 DEF Stamp, Undisturbed, TypeInv, TypeOK
  <2>2. clock \in Nat /\ graph[f] \in recent[f]
    BY DEF TypeInv, TypeOK, FreshInv, FileFresh
  <2>3. StoresFresh'
    <3>1. \A a \in Asks :
            /\ smts[SmtKey(a)] # None => smts[SmtKey(a)].moment \in Nat
            /\ results[ResultKey(a)] # None => results[ResultKey(a)].moment \in Nat
      BY DEF TypeInv, TypeOK, SmtKeys, ResultKeys, Entry
    <3> QED
      BY <2>1, <2>2, <3>1 DEF FreshInv, StoresFresh, EntryFresh, Newer, storeVars
  <2>4. FileFresh'
    BY <2>1, <2>2 DEF FreshInv, FileFresh
  <2>5. ASSUME NEW r \in Requests PROVE RequestFresh(r)'
    <3>1. cached[r] # None => cached[r].moment \in Nat
      BY DEF TypeInv, TypeOK, Entry
    <3> QED
      BY <2>1, <2>2, <3>1
         DEF Holds, FreshInv, RequestFresh, UnderWay, EntryFresh, Newer
  <2> QED
    BY <2>3, <2>4, <2>5 DEF FreshInv
<1>3. ASSUME NEW f \in ReqFiles, Remove(f) PROVE FreshInv'
  <2>1. /\ moment'[f] = None /\ graph'[f] = NoDependencies
        /\ recent'[f] = recent[f] \cup {NoDependencies}
        /\ \A t \in ReqFiles \ {f} : /\ moment'[t] = moment[t]
                                     /\ recent'[t] = recent[t]
                                     /\ graph'[t] = graph[t]
        /\ UNCHANGED <<clock, storeVars, ask, pc, held, cached, answer>>
        /\ \A r \in Requests : ~Holds(r, f)
    BY <1>3 DEF Remove, Undisturbed, TypeInv, TypeOK
  <2>2. \A r \in Requests :
          /\ seen[r] \subseteq seen'[r]
          /\ ask[r].subject = f /\ UnderWay(r) => NoDependencies \in seen'[r]
    BY <1>3 DEF Remove, UnderWay
  <2>3. StoresFresh'
    BY <2>1 DEF FreshInv, StoresFresh, EntryFresh, Newer, storeVars
  <2>4. FileFresh'
    BY <2>1 DEF FreshInv, FileFresh
  <2>5. ASSUME NEW r \in Requests PROVE RequestFresh(r)'
    BY <2>1, <2>2
       DEF Holds, FreshInv, RequestFresh, UnderWay, EntryFresh, Newer
  <2> QED
    BY <2>3, <2>4, <2>5 DEF FreshInv
<1>4. CASE Tick
  <2>1. clock' = clock + 1 /\ clock \in Nat
        /\ UNCHANGED <<graphVars, storeVars, ask, pc, held, cached, answer, seen>>
    BY <1>4 DEF Tick, TypeInv, TypeOK
  <2>2. \A a \in Asks :
          /\ smts[SmtKey(a)] # None => smts[SmtKey(a)].moment \in Nat
          /\ results[ResultKey(a)] # None => results[ResultKey(a)].moment \in Nat
    BY DEF TypeInv, TypeOK, SmtKeys, ResultKeys, Entry
  <2>3. StoresFresh'
    BY <2>1, <2>2 DEF FreshInv, StoresFresh, EntryFresh, Newer, graphVars, storeVars
  <2>4. FileFresh'
    BY <2>1 DEF FreshInv, FileFresh, graphVars, TypeInv, TypeOK
  <2>5. ASSUME NEW r \in Requests PROVE RequestFresh(r)'
    <3>1. cached[r] # None => cached[r].moment \in Nat
      BY DEF TypeInv, TypeOK, Entry
    <3> QED
      BY <2>1, <3>1
         DEF FreshInv, RequestFresh, UnderWay, EntryFresh, Newer, graphVars
  <2> QED
    BY <2>3, <2>4, <2>5 DEF FreshInv
<1> QED
  BY <1>1, <1>2, <1>3, <1>4

FreshTypeInv == TypeInv /\ FreshInv

LEMMA NextFresh == ~Overlap /\ FreshTypeInv /\ [Next]_vars => FreshTypeInv'
<1>1. FreshTypeInv /\ UNCHANGED vars => FreshInv'
  BY DEF FreshTypeInv, FreshInv, StoresFresh, FileFresh, RequestFresh, UnderWay,
         EntryFresh, Newer, vars, graphVars, storeVars
<1> QED
  BY <1>1, NextType, SolveFresh, ReportFresh, WriterFresh
     DEF Next, FreshTypeInv

(* When no update stamps or deletes a requirement file under a request that *)
(* read its graph and is still to store what it made of it, no analysis of  *)
(* the file, computed or taken from a cache, is older than the file's last  *)
(* stamp at the time the request came in.  It is the strict comparison of   *)
(* moments that this rests on: an entry of the same instant may be older.   *)
THEOREM NeverOutdated == ~Overlap => (Spec => []FreshAnswer)
<1>1. ASSUME ~Overlap PROVE Spec => []FreshAnswer
  <2>1. Init => FreshTypeInv
    BY InitType, InitFresh DEF FreshTypeInv
  <2>2. FreshTypeInv /\ [Next]_vars => FreshTypeInv'
    BY <1>1, NextFresh
  <2>3. FreshTypeInv => FreshAnswer
    BY DEF FreshTypeInv, FreshInv, RequestFresh, FreshAnswer
  <2> QED
    BY <2>1, <2>2, <2>3, PTL DEF Spec
<1> QED
  BY <1>1

-----------------------------------------------------------------------------
(* A result answers the depth and the node type that its key names.         *)

Fits(entry, a) ==
  entry # None => entry.view.depth = a.view.depth /\ entry.view.node = a.view.node

AsAskedInv ==
  /\ \A a \in Asks : Fits(results[ResultKey(a)], a)
  /\ \A r \in Requests : pc[r] = "moment" => Fits(cached[r], ask[r])
  /\ ResultsAsAsked

LEMMA AnswerFits ==
  ASSUME TypeInv, AsAskedInv, NEW r \in Requests,
         NEW g \in Graphs, NEW v \in Views,
         Respond(r, g, v), NEW here, Goto(r, here, "done"), UNCHANGED ask,
         ask[r].kind # "smt" =>
           v.depth = ask[r].view.depth /\ v.node = ask[r].view.node,
         \A a \in Asks : Fits(results'[ResultKey(a)], a)
  PROVE  AsAskedInv'
<1>1. /\ pc'[r] = "done" /\ answer'[r] = [graph |-> g, view |-> v]
      /\ \A q \in Requests \ {r} : pc'[q] = pc[q] /\ cached'[q] = cached[q]
                                   /\ answer'[q] = answer[q]
  BY DEF Respond, Goto, TypeInv, TypeOK
<1> QED
  BY <1>1 DEF AsAskedInv, ResultsAsAsked, Fits

LEMMA StepFits ==
  ASSUME TypeInv, AsAskedInv, NEW r \in Requests, Solve(r) \/ Report(r)
  PROVE  AsAskedInv'
<1> USE AskFacts DEF Labels, graphVars, storeVars
<1> USE DEF AsAskedInv
<1>1. CASE ReadGraph(r) \/ FileMissing(r) \/ Transform(r) \/ NoPackageResult(r)
           \/ ReadSubgraph(r)
  <2>1. /\ UNCHANGED <<results, ask, cached, answer>>
        /\ \A q \in Requests : pc'[q] \in {"moment", "done"} => pc'[q] = pc[q]
    BY <1>1 DEF ReadGraph, FileMissing, Transform, NoPackageResult,
                ReadSubgraph, Goto, TypeInv, TypeOK
  <2> QED
    BY <2>1 DEF ResultsAsAsked, Fits
<1>2. CASE UseModel(r)
  <2> DEFINE entry == smts[SmtKey(ask[r])]
  <2>1. entry \in Entry
    BY <1>2 DEF UseModel, Newer, TypeInv, TypeOK
  <2>2. /\ entry.graph \in Graphs /\ entry.view \in Views /\ ask[r].kind = "smt"
        /\ Respond(r, entry.graph, entry.view) /\ Goto(r, "lookup", "done")
        /\ UNCHANGED <<ask, results>>
    BY <1>2, <2>1 DEF UseModel, Entry
  <2> HIDE DEF entry
  <2> QED
    BY <2>2, AnswerFits
<1>3. CASE StoreModel(r)
  <2>1. /\ held[r].graph \in Graphs /\ ask[r].kind = "smt"
        /\ Respond(r, held[r].graph, ask[r].view) /\ Goto(r, "store", "done")
        /\ UNCHANGED <<ask, results>>
    BY <1>3 DEF StoreModel, TypeInv, TypeOK
  <2> QED
    BY <2>1, AnswerFits
<1>4. CASE LookupResult(r)
  <2>1. /\ UNCHANGED <<results, ask, answer>>
        /\ cached'[r] = results[ResultKey(ask[r])] /\ pc'[r] = "moment"
        /\ \A q \in Requests \ {r} : pc'[q] = pc[q] /\ cached'[q] = cached[q]
    BY <1>4 DEF LookupResult, Goto, TypeInv, TypeOK
  <2> QED
    BY <2>1 DEF ResultsAsAsked, Fits
<1>5. CASE UseResult(r)
  <2>1. cached[r] \in Entry /\ pc[r] = "moment"
    BY <1>5 DEF UseResult, Newer, Goto, TypeInv, TypeOK
  <2>2. /\ cached[r].graph \in Graphs /\ cached[r].view \in Views
        /\ Respond(r, cached[r].graph, cached[r].view)
        /\ Goto(r, "moment", "done") /\ UNCHANGED <<ask, results>>
        /\ Fits(cached[r], ask[r]) /\ cached[r] # None
    BY <1>5, <2>1 DEF UseResult, Newer, Entry
  <2> QED
    BY <2>2, AnswerFits DEF Fits
<1>6. CASE IgnoreResult(r)
  <2>1. /\ UNCHANGED <<results, ask, answer>> /\ pc'[r] = "expand"
        /\ \A q \in Requests \ {r} : pc'[q] = pc[q] /\ cached'[q] = cached[q]
    BY <1>6 DEF IgnoreResult, Goto, TypeInv, TypeOK
  <2> QED
    BY <2>1 DEF ResultsAsAsked, Fits
<1>7. CASE UsePackageResult(r)
  <2> DEFINE entry == results[ResultKey(ask[r])]
  <2>1. entry \in Entry /\ Fits(entry, ask[r]) /\ entry # None
    BY <1>7, ResultEntry DEF UsePackageResult, TypeInv, TypeOK, Result
  <2>2. /\ entry.graph \in Graphs /\ entry.view \in Views
        /\ Respond(r, entry.graph, entry.view) /\ Goto(r, "idle", "done")
        /\ UNCHANGED <<ask, results>>
    BY <1>7, <2>1 DEF UsePackageResult, Entry
  <2> HIDE DEF entry
  <2> QED
    BY <2>1, <2>2, AnswerFits DEF Fits
<1>8. CASE AnswerEmpty(r)
  <2>1. /\ Respond(r, NoDependencies, ask[r].view) /\ Goto(r, "expand", "done")
        /\ UNCHANGED <<ask, results>>
    BY <1>8 DEF AnswerEmpty
  <2> QED
    BY <2>1, GraphsAssumption, AnswerFits
<1>9. CASE StoreResult(r)
  <2>1. /\ held[r].graph \in Graphs
        /\ Respond(r, held[r].graph, ask[r].view) /\ Goto(r, "store", "done")
        /\ UNCHANGED ask
        /\ results' = [results EXCEPT ![ResultKey(ask[r])] = Text(r)]
        /\ Text(r).view = ask[r].view
    BY <1>9 DEF StoreResult, Text, TypeInv, TypeOK
  <2>2. ASSUME NEW a \in Asks PROVE Fits(results'[ResultKey(a)], a)
    <3>1. CASE ResultKey(a) = ResultKey(ask[r])
      BY <2>1, <3>1 DEF ResultKey, ResultKeys, Fits, TypeInv, TypeOK
    <3>2. CASE ResultKey(a) # ResultKey(ask[r])
      BY <2>1, <3>2 DEF ResultKeys, TypeInv, TypeOK
    <3> QED
      BY <3>1, <3>2
  <2> QED
    BY <2>1, <2>2, AnswerFits
<1> QED
  BY <1>1, <1>2, <1>3, <1>4, <1>5, <1>6, <1>7, <1>8, <1>9 DEF Solve, Report

LEMMA NextFits == TypeInv /\ AsAskedInv /\ [Next]_vars => AsAskedInv'
<1>1. ASSUME TypeInv, AsAskedInv, UNCHANGED <<results, ask, pc, cached, answer>>
      PROVE  AsAskedInv'
  BY <1>1 DEF AsAskedInv, ResultsAsAsked, Fits
<1>2. ASSUME UNCHANGED vars \/ Tick
             \/ (\E s \in Subjects, g \in Graphs : Change(s, g))
             \/ (\E f \in ReqFiles : Stamp(f) \/ Remove(f))
      PROVE  UNCHANGED <<results, ask, pc, cached, answer>>
  BY <1>2 DEF vars, storeVars, Tick, Change, Stamp, Remove
<1> QED
  BY <1>1, <1>2, StepFits DEF Next

(* A supply chain answer, taken from the result cache or computed, is of the *)
(* depth and the node type that the request asked: the cache key names all   *)
(* that the stored result depends on besides its subject.                    *)
THEOREM AnsweredAsAsked == Spec => []ResultsAsAsked
<1>1. Init => AsAskedInv
  BY DEF Init, AsAskedInv, ResultsAsAsked, Fits, ResultKeys
<1>2. AsAskedInv => ResultsAsAsked
  BY DEF AsAskedInv
<1> QED
  BY <1>1, <1>2, InitType, NextType, NextFits, PTL DEF Spec
=============================================================================
