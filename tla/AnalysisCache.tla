---------------------------- MODULE AnalysisCache -----------------------------
(***************************************************************************)
(* The two caches in front of the dependency graph: SMT models             *)
(* (app/controllers/smt_operation_controller.py over smt_service.py) and   *)
(* supply chain results (app/controllers/ssc_operation_controller.py over  *)
(* operation_service.py).  A request is a process; a step is the code      *)
(* between two awaits on Neo4j or MongoDB.                                 *)
(*                                                                         *)
(* The seven SMT endpoints share one protocol: read the graph below the    *)
(* requirement file, look for a stored model, use it when it is newer than *)
(* the file's moment, else transform the graph and store the text.  What   *)
(* the solver then does with the model changes nothing and is left out.    *)
(***************************************************************************)
EXTENDS Integers, FiniteSets

CONSTANTS
  Requests,
  Subjects,        \* requirement files, packages and versions
  ReqFiles,        \* those that are requirement files
  Graphs,          \* what may lie below a subject
  NoDependencies,  \* the empty one of them
  Views,           \* [depth, node, aggregator] that may be asked for
  Asks,            \* what a request may ask: [kind, subject, view]
  MaxClock,        \* bound on time
  Overlap,         \* may an update stamp or delete a file while a request
                   \* holds a graph of that file it is still to store?
  None

Kinds == {"smt", "file_info", "package_info"}

ASSUME SubjectsAssumption == ReqFiles \subseteq Subjects
ASSUME GraphsAssumption == NoDependencies \in Graphs
ASSUME AsksAssumption ==
  /\ Asks \subseteq [kind : Kinds, subject : Subjects, view : Views]
  /\ \A a \in Asks : a.subject \in ReqFiles <=> a.kind # "package_info"
ASSUME ClockAssumption == MaxClock \in Nat /\ Overlap \in BOOLEAN
ASSUME NoneAssumption ==
  None \notin Nat /\ None \notin [graph : Graphs, view : Views, moment : Nat]

VARIABLES
  clock,
  graph,    \* Neo4j: what lies below each subject
  moment,   \* Neo4j: the moment of each requirement file, None when deleted
  smts,     \* MongoDB: the stored models, by smt_id
  results,  \* MongoDB: the stored results, by operation_result_id
  ask,      \* what each request asks
  pc, held, cached, answer,  \* where it stands, what it read and answers
  recent,   \* history: what was below a subject since it was last stamped
  seen      \* history: the answers that are not outdated for a request

graphVars == <<graph, moment, recent>>
storeVars == <<smts, results>>
vars == <<clock, graphVars, storeVars, ask, pc, held, cached, answer, seen>>

Entry == [graph : Graphs, view : Views, moment : Nat]

\* smt_id is "{requirement_file_id}:{max_depth}".
SmtKey(a) == <<a.subject, a.view.depth>>

\* Mutant: keyed as the models are.
ResultKey_NoNodeType(a) == <<a.subject, a.view.depth, "any">>

\* operation_result_id has the node type, the subject and the depth.
ResultKey(a) == <<a.subject, a.view.depth, a.view.node>>

SmtKeys == {SmtKey(a) : a \in Asks}
ResultKeys == {ResultKey(a) : a \in Asks}

Labels == {"idle", "lookup", "moment", "expand", "store", "done", "error"}

TypeOK ==
  /\ clock \in Nat
  /\ graph \in [Subjects -> Graphs]
  /\ moment \in [ReqFiles -> Nat \cup {None}]
  /\ smts \in [SmtKeys -> Entry \cup {None}]
  /\ results \in [ResultKeys ->
       [graph : Graphs \ {NoDependencies}, view : Views, moment : Nat]
         \cup {None}]
  /\ ask \in [Requests -> Asks]
  /\ pc \in [Requests -> Labels]
  /\ held \in [Requests -> [graph : Graphs, moment : Nat \cup {None}]]
  /\ cached \in [Requests -> Entry \cup {None}]
  /\ answer \in [Requests -> [graph : Graphs, view : Views]]
  /\ recent \in [Subjects -> SUBSET Graphs]
  /\ seen \in [Requests -> SUBSET Graphs]

NothingHeld == [graph |-> NoDependencies, moment |-> None]

Init ==
  /\ clock = 0
  /\ graph \in [Subjects -> Graphs]
  /\ moment = [f \in ReqFiles |-> 0]
  /\ smts = [k \in SmtKeys |-> None]
  /\ results = [k \in ResultKeys |-> None]
  /\ ask \in [Requests -> Asks]
  /\ pc = [r \in Requests |-> "idle"]
  /\ held = [r \in Requests |-> NothingHeld]
  /\ cached = [r \in Requests |-> None]
  /\ answer = [r \in Requests |-> [graph |-> NoDependencies, view |-> ask[r].view]]
  /\ recent = [s \in Subjects |-> {graph[s]}]
  /\ seen = [r \in Requests |-> {}]

Goto(r, here, there) == pc[r] = here /\ pc' = [pc EXCEPT ![r] = there]

\* The request begins: what was true since the last stamp is not outdated.
Arrive(r, kind) ==
  /\ ask[r].kind = kind
  /\ seen' = [seen EXCEPT ![r] = recent[ask[r].subject]]

\* The handler returns: its answer stays, its locals do not.
Respond(r, g, view) ==
  /\ answer' = [answer EXCEPT ![r] = [graph |-> g, view |-> view]]
  /\ held' = [held EXCEPT ![r] = NothingHeld]
  /\ cached' = [cached EXCEPT ![r] = None]

\* Mutant: an entry of the same instant counts as newer.
Newer_NotStrict(entry, m) == entry # None /\ m # None /\ entry.moment >= m

Newer(entry, m) == entry # None /\ m # None /\ entry.moment > m

-----------------------------------------------------------------------------
(* SMT operations.                                                         *)

\* read_data_for_smt_transform: the graph and the file's moment in one query.
ReadGraph(r) ==
  LET f == ask[r].subject IN
  /\ Arrive(r, "smt") /\ moment[f] # None
  /\ Goto(r, "idle", "lookup")
  /\ held' = [held EXCEPT ![r] = [graph |-> graph[f], moment |-> moment[f]]]
  /\ UNCHANGED <<clock, graphVars, storeVars, ask, cached, answer>>

\* For a deleted file the record is {} and graph_data["name"] raises.
FileMissing(r) ==
  /\ Arrive(r, "smt") /\ moment[ask[r].subject] = None
  /\ Goto(r, "idle", "error")
  /\ UNCHANGED <<clock, graphVars, storeVars, ask, held, cached, answer>>

\* read_smt finds a model newer than the moment read before: convert.
UseModel(r) ==
  LET entry == smts[SmtKey(ask[r])] IN
  /\ ask[r].kind = "smt" /\ Newer(entry, held[r].moment)
  /\ Goto(r, "lookup", "done")
  /\ Respond(r, entry.graph, entry.view)
  /\ UNCHANGED <<clock, graphVars, storeVars, ask, seen>>

\* It does not: transform what was read.
Transform(r) ==
  /\ ask[r].kind = "smt" /\ ~Newer(smts[SmtKey(ask[r])], held[r].moment)
  /\ Goto(r, "lookup", "store")
  /\ UNCHANGED <<clock, graphVars, storeVars, ask, held, cached, answer, seen>>

Text(r) == [graph |-> held[r].graph, view |-> ask[r].view, moment |-> clock]

\* replace_smt: the text is stored with the moment of the store.
StoreModel(r) ==
  /\ ask[r].kind = "smt"
  /\ Goto(r, "store", "done")
  /\ smts' = [smts EXCEPT ![SmtKey(ask[r])] = Text(r)]
  /\ Respond(r, held[r].graph, ask[r].view)
  /\ UNCHANGED <<clock, graphVars, results, ask, seen>>

-----------------------------------------------------------------------------
(* Supply chain operations.                                                *)

\* requirement_file_info reads the stored result, then the file's moment.
LookupResult(r) ==
  /\ Arrive(r, "file_info")
  /\ Goto(r, "idle", "moment")
  /\ cached' = [cached EXCEPT ![r] = results[ResultKey(ask[r])]]
  /\ UNCHANGED <<clock, graphVars, storeVars, ask, held, answer>>

UseResult(r) ==
  /\ Newer(cached[r], moment[ask[r].subject])
  /\ Goto(r, "moment", "done")
  /\ Respond(r, cached[r].graph, cached[r].view)
  /\ UNCHANGED <<clock, graphVars, storeVars, ask, seen>>

IgnoreResult(r) ==
  /\ ~Newer(cached[r], moment[ask[r].subject])
  /\ Goto(r, "moment", "expand")
  /\ cached' = [cached EXCEPT ![r] = None]
  /\ UNCHANGED <<clock, graphVars, storeVars, ask, held, answer, seen>>

\* package_ssc_info and version_ssc_info use a stored result of any age.
UsePackageResult(r) ==
  LET entry == results[ResultKey(ask[r])] IN
  /\ Arrive(r, "package_info") /\ entry # None
  /\ Goto(r, "idle", "done")
  /\ Respond(r, entry.graph, entry.view)
  /\ UNCHANGED <<clock, graphVars, storeVars, ask>>

NoPackageResult(r) ==
  /\ Arrive(r, "package_info") /\ results[ResultKey(ask[r])] = None
  /\ Goto(r, "idle", "expand")
  /\ UNCHANGED <<clock, graphVars, storeVars, ask, held, cached, answer>>

\* Mutant: an empty result is stored like any other.
ReadSubgraph_EmptyKept(r) ==
  LET s == ask[r].subject IN
  /\ Goto(r, "expand", "store")
  /\ held' = [held EXCEPT ![r].graph = graph[s]]
  /\ UNCHANGED <<clock, graphVars, storeVars, ask, cached, answer, seen>>

\* The expansion query finds direct dependencies.
ReadSubgraph(r) ==
  LET s == ask[r].subject IN
  /\ graph[s] # NoDependencies
  /\ Goto(r, "expand", "store")
  /\ held' = [held EXCEPT ![r].graph = graph[s]]
  /\ UNCHANGED <<clock, graphVars, storeVars, ask, cached, answer, seen>>

\* It finds none: NO_DEPENDENCIES, and nothing is stored.
AnswerEmpty(r) ==
  /\ graph[ask[r].subject] = NoDependencies
  /\ Goto(r, "expand", "done")
  /\ Respond(r, NoDependencies, ask[r].view)
  /\ UNCHANGED <<clock, graphVars, storeVars, ask, seen>>

\* replace_operation_result
StoreResult(r) ==
  /\ ask[r].kind # "smt"
  /\ Goto(r, "store", "done")
  /\ results' = [results EXCEPT ![ResultKey(ask[r])] = Text(r)]
  /\ Respond(r, held[r].graph, ask[r].view)
  /\ UNCHANGED <<clock, graphVars, smts, ask, seen>>

-----------------------------------------------------------------------------
(* The writers: updates of a requirement file and the extractor.           *)

\* A request that read the graph of f and has not stored or dropped it.
Holds(r, f) == ask[r].subject = f /\ pc[r] \in {"lookup", "store"}

Undisturbed(f) == Overlap \/ \A r \in Requests : ~Holds(r, f)

\* Any query that changes what lies below a subject.
Change(s, g) ==
  /\ g # graph[s] /\ (s \in ReqFiles => moment[s] # None)
  /\ graph' = [graph EXCEPT ![s] = g]
  /\ recent' = [recent EXCEPT ![s] = @ \cup {g}]
  /\ seen' = [r \in Requests |->
       IF ask[r].subject = s /\ pc[r] \notin {"idle", "done", "error"}
       THEN seen[r] \cup {g} ELSE seen[r]]
  /\ UNCHANGED <<clock, moment, storeVars, ask, pc, held, cached, answer>>

\* update_requirement_file_moment, at the end of an update.
Stamp(f) ==
  /\ moment[f] # None /\ Undisturbed(f)
  /\ moment' = [moment EXCEPT ![f] = clock]
  /\ recent' = [recent EXCEPT ![f] = {graph[f]}]
  /\ UNCHANGED <<clock, graph, storeVars, ask, pc, held, cached, answer, seen>>

\* delete_requirement_file
Remove(f) ==
  /\ moment[f] # None /\ Undisturbed(f)
  /\ moment' = [moment EXCEPT ![f] = None]
  /\ graph' = [graph EXCEPT ![f] = NoDependencies]
  /\ recent' = [recent EXCEPT ![f] = @ \cup {NoDependencies}]
  /\ seen' = [r \in Requests |->
       IF ask[r].subject = f /\ pc[r] \notin {"idle", "done", "error"}
       THEN seen[r] \cup {NoDependencies} ELSE seen[r]]
  /\ UNCHANGED <<clock, storeVars, ask, pc, held, cached, answer>>

Tick ==
  /\ clock < MaxClock
  /\ clock' = clock + 1
  /\ UNCHANGED <<graphVars, storeVars, ask, pc, held, cached, answer, seen>>

-----------------------------------------------------------------------------
Solve(r) ==
  ReadGraph(r) \/ FileMissing(r) \/ UseModel(r) \/ Transform(r) \/ StoreModel(r)

Report(r) ==
  \/ LookupResult(r) \/ UseResult(r) \/ IgnoreResult(r)
  \/ UsePackageResult(r) \/ NoPackageResult(r)
  \/ ReadSubgraph(r) \/ AnswerEmpty(r) \/ StoreResult(r)

Next ==
  \/ \E r \in Requests : Solve(r) \/ Report(r)
  \/ \E s \in Subjects, g \in Graphs : Change(s, g)
  \/ \E f \in ReqFiles : Stamp(f) \/ Remove(f)
  \/ Tick

Spec == Init /\ [][Next]_vars

-----------------------------------------------------------------------------
(* Properties.                                                             *)

\* An analysis of a requirement file is never older than the file's last
\* stamp at the time the request came in, from the cache or not; provided that
\* no update stamps the file under a request that is about to store (Overlap).
FreshAnswer ==
  \A r \in Requests : ask[r].subject \in ReqFiles /\ pc[r] = "done" =>
    answer[r].graph \in seen[r]

\* A supply chain answer is of the depth and the node type that were asked.
ResultsAsAsked ==
  \A r \in Requests : ask[r].kind # "smt" /\ pc[r] = "done" =>
    /\ answer[r].view.depth = ask[r].view.depth
    /\ answer[r].view.node = ask[r].view.node

\* An SMT operation works on a model with the impacts of the aggregator that
\* was asked ("aggregator: The field name in version data to use for impact
\* aggregation").
ModelsAsAsked ==
  \A r \in Requests : ask[r].kind = "smt" /\ pc[r] = "done" =>
    answer[r].view.aggregator = ask[r].view.aggregator
=============================================================================
