# Secure Chain Depex: a verification project

Depex is a FastAPI service that analyses the dependencies of software
repositories. It downloads the requirement files of a GitHub repository, keeps
what they require in a Neo4j graph, hands unknown packages to an extractor over
a Redis stream, and answers supply chain and SMT questions about the graph with
results cached in MongoDB. This directory holds TLA+ specifications of its
concurrent core, the TLC configurations that check them and TLAPS proofs of the
properties that matter most. Paths below are relative to `src/`.

## Inventory

The service is one process with one event loop. Requests and background tasks
interleave at awaits; they share the databases, the stream, GitHub and the local
disk. Nothing holds a lock: the flag `is_complete` of a repository node is the
only thing that keeps two analyses of one repository apart.

| Component | State | Operations | What makes it correct |
|---|---|---|---|
| Repository initialization: `app/controllers/graph_controller.py`, `app/domain/repository_initializer.py` | locals of each background task | init endpoint (202/409), create, incremental update (three-way merge), own | the flag is a lock and is released; the graph ends up as the analysis; no dependency is lost |
| Repository analyzer: `app/domain/repo_analyzer/repo_analyzer.py` | directory `repositories/{owner}/{name}` shared by all tasks | download tree and files, find, parse, remove | the result describes HEAD |
| Graph services: `app/services/{repository,requirement_file,package,version}_service.py` | Neo4j nodes and relationships | one query per method, each its own transaction | each query changes what its name says; reports show least depths and are complete within the depth asked |
| Package stream: `app/utils/redis_queue.py` and the external Dagster extractor | Redis stream, consumer group, dead letters | add, ack, dead letter | a message is processed or dead lettered, whoever crashes |
| GitHub service, HTTP session: `app/apis/github_service.py`, `app/http_session.py` | one client session | date of the last commit, with unbounded retry | |
| SMT operations: `app/controllers/smt_operation_controller.py`, `app/services/smt_service.py` | MongoDB collection of model texts | seven endpoints, one cache protocol | a stored model is used only for what it was built for and while it is current |
| Supply chain operations: `app/controllers/ssc_operation_controller.py`, `app/services/operation_service.py` | MongoDB collection of results | file, package and version reports | the same for results |
| SMT model and operations: `app/domain/smt/` | none (pure, Z3) | transform, convert, minimise, maximise, filter, complete, validate | the constraints describe the resolutions of the graph; a configuration sent by the client is honoured |
| Version filter and mappers: `app/utils/` | none | filter versions, map managers to node types, encode | |
| Requirement file analyzers: `app/domain/repo_analyzer/requirement_files/` | none | dispatch by name, parse fifteen formats | names and constraints are those of the file |
| Authentication: `app/utils/*_bearer.py`, `app/models/api_key.py` | API keys in MongoDB | JWT cookie or API key | |
| Databases and singletons: `app/database.py`, `app/dependencies.py`, `app/main.py` | drivers, clients, cached services | start, lazily create, close | no service outlives its driver |
| HTTP surface: exception handlers, rate limits, logging, settings | none | | |

Interactions. `init_repository` (handler) reads GitHub and Neo4j, decides, and
schedules the task. The task downloads over HTTP into the shared directory,
parses without an await, and issues one Neo4j query after another, with
`exists_package` deciding for each package between a relationship and a stream
message. The extractor consumes messages and writes package nodes and
relationships to the same graph at any time. The analyses read that graph and
compare the *moment* of a requirement file with the moment of a cache entry, so
what an update stamps, and when, decides what they answer.

What is hard: tasks that race through the window between the handler's read and
the first write; a task that dies half way; a shared download directory;
moments taken from the clock at another point than the data they stand for; the
merge loop that pops entries of dictionaries it still compares with; the
extractor between a check and the act it guards; consumers of the stream that
crash between two round trips; declarations that one format reads and another
passes over; a breadth first traversal whose order nobody fixes. `PROJECT.json` lists these
hazards at their lines with the properties that cover them, and those no
property covers yet with the reason.

## Modules

| Module | What it is |
|---|---|
| `DependencyGraph` | the repositories, files, packages and relationships of Neo4j, and one operator per Cypher query that writes |
| `RepositoryInit` | EXTENDS it: the endpoint, the download, the background task, GitHub, the stream and the extractor |
| `RepositoryCatalog` | the abstract specification: at most one record per repository, and what lies below it |
| `RepositoryProperties` | what the life cycle promises, the refinement mapping to the catalog, and the parts of the inductive invariant |
| `MCRepositoryInit` | small instances for TLC |
| `RepositoryInitProofs`, `RepositoryCatalogProofs`, `RepositoryAnalysisProofs` | type correctness and the lock; the refinement; what a completed analysis leaves in the graph |
| `AnalysisCache`, `MCAnalysisCache`, `AnalysisCacheProofs` | the SMT model cache and the result cache against updates |
| `PackageQueue`, `MCPackageQueue`, `PackageQueueProofs` | the Redis stream, its consumer group and dead letters, with restarts and crashing consumers |
| `PyPiConstraints` | Python specifiers and markers: what they mean and what the code makes of them |
| `RequirementFiles`, `MCRequirementFiles`, `RequirementFilesProofs` | EXTENDS it: the analysis of a downloaded tree by the fifteen analyzers, twice, with a push between |
| `GraphReads`, `MCGraphReads`, `GraphReadsProofs` | the reports, the data for SMT and the expansions, as traversals of the graph |
| `SMTModel`, `MCSMTModel`, `SMTModelProofs` | the constraints made of a dependency graph, the seven solver operations with their lookups, and what a configuration of the graph is |

How they fit together. `RepositoryInit` abstracts two of its neighbours that
have modules of their own: a file's packages are its content (`RequirementFiles`
says which packages those are), and a message is in the stream or consumed
(`PackageQueue`). `AnalysisCache` takes the subgraph below a subject as a value
(`GraphReads` says how it is read), and `SMTModel` starts from the data for SMT.

### RepositoryInit

A request is a process `t`; `pc[t]` is the await it stands at and `task[t]` the
locals it carries, under the names of the code where the code names them. A step
is the code between two awaits, so a Neo4j query (one transaction) is a step,
and so is the whole of "glob, parse every file, rmtree", which contains no await
that suspends.

* `Request`, `AcceptNew`, `AcceptKnown`, `RefuseBusy`: the handler. The record
  it read travels with the task, as in the code.
* `StartDownload` (rmtree, makedirs), `ListTree`, `FetchFile`/`SkipFile`,
  `OpenTarget`, `DirectoryGone`, `WriteTarget`, `Analyze`: the download. Opening
  truncates and writing fills in a thread, as two awaits; a file opened in a
  directory that was removed is written but no longer linked.
* `CreateRepository` or `MarkIncomplete`, `ListFiles`, `DropFile`, `UpdateFile`,
  `ChangeConstraint`, `RemovePackage`, `CreateRequirementFile`, `CheckPackage`,
  `AddMessage`, `RelatePackages`, `StampFile`, `UpdateMoment`, `SetComplete`,
  `OwnRepository`: the task, one action per query. The order of dictionary
  iteration is left open. The create path and the update path share the actions
  for new files, as they share `process_requirement_file`.
* `Fail`: a query or download raises, or the server stops. A background task has
  no handler for it, so nothing else happens.
* `Commit`, `Extract`: GitHub and the extractor.

Abstractions. Node ids are named by the task that creates them. Time is the
number of pushes so far: repository moments are only compared with commit dates.
The moment of a requirement file is only compared by the caches, so here it is
reduced to `dirty`: the files whose relationships changed since it was set. A
version constraint is a model value. The parsers are abstracted to the content
of the file (an empty file has no packages). Keys of SBOM files carry their
manager and never equal a package name of the graph, which the merge depends
on. A manager without a node type is not modelled; the queries of
`relate_packages` for the node types of one file are one step.

Switches name the assumptions on the environment. `Racing`: requests for one
repository may meet in the window between the handler's read and the task's
first write. `HttpErrors`: GitHub may answer a download with an error.
`CommitAnytime`: a push may land while a request is served.

### RepositoryCatalog

The catalog has for each repository a record (moment, complete), its holders and
what lies below it. `Register`, `Reopen`, `Rewrite`, `Restamp`, `Release`,
`Deliver` and `Grant` are its steps, and their guards are the promise: a record
appears only where there is none, is reopened only when a commit is newer than
its moment, and what lies below is rewritten only while the record is
incomplete. `RepositoryProperties` maps the state: `RecordOf` is the record of
the one node of a repository, `HoldersOf` the users related to it, `BelowOf` the
relationships of its files. All local state of the tasks, the directory and the
stream maps to nothing, so a download, a parse or a read is a stutter.
`ImplementsCatalog` is `Spec` of the catalog under that mapping, a PROPERTY of
the run `RepositoryKnownPackages` and the theorem `SerialCatalog`.

### AnalysisCache

A request reads the graph and the file's moment (`ReadGraph`) or the stored
result and then the moment (`LookupResult`), uses the entry if it is strictly
newer, or reads or transforms the graph and stores (`StoreModel`,
`StoreResult`). The seven SMT endpoints have the same protocol and differ in the
solver operation, which changes no state; `map` names the lines of one endpoint
for each step of the protocol. Package and version reports use any stored
result (`UsePackageResult`). The subgraph below a subject is a model value;
`Change`, `Stamp` and `Remove` are the queries of an update and of the
extractor. A view is the depth, the node type and the aggregator of a request.
`recent` and `seen` are history variables: the graphs a file has had since its
last stamp, and those a request under way may answer without being outdated.

### SMTModel

`Init` picks a graph as `read_data_for_smt_transform` returns it;
`TransformDirectPackage` and `TransformIndirectPackage` take one requirement
each, the direct ones in any order and then the indirect ones by descending
`parent_serial_number`, ties in any order, as `apoc.coll.sortMaps` leaves them.
`model` has the fields of the class: what was recorded in `childs`, `parents`,
`ctcs`, `impacts` and `filtered_versions`. The text that `transform` concatenates
is not built; `Solutions(model)` is the set of assignments it allows, clause by
clause: `Versionings` for the clauses over version variables, with
`GroupVersions` and `InGroups` for the intervals the text uses, and `ImpactsOf`
for those over impacts. Variables no clause mentions are fixed to `Absent`, as
they do not occur in a solver model either. `directs` holds the names of the direct
packages between bars, as variables are written in the text, and is asked for
names without them (`Quoted`, `smt_model.py:126` and `:271`; the tests expect the
bars, `tests/unit/domain/smt/test_smt_model.py:101`), so that a direct package
gets an entry in `parents` like any other.

`Receive` starts an operation; for `valid_config` and `complete_config` it looks
the releases of the client's configuration up first
(`ReadSerialNumbersByReleases`), and `Sanitized` looks the releases of an answer
up (`ReadReleasesBySerialNumbers`). The first goes by the name of a package, the
second and the variables by its purl, where it has one: `Identified` is the set
of packages that do. `Enumerate`, `Enough`, `TakeBest`, `GiveUp` and
`Validate` are its rounds: what a check of the solver finds (any best solution
that is not blocked), and what the code concludes from a check that finds
nothing or times out. A timeout is possible at every check. The code calls
`check()` again to see whether a negative answer was a timeout; `Flaky` says
whether such a repeated call may answer differently. `Sanitized` is what the
client gets of a solver model.

`Resolution` is the reference, defined from the graph alone: every requirement
of the file and of an installed version is met by an installed version that fits
it, and nothing else is installed. Two properties compare the constraints with
it in both directions and state where they part: `SolutionsResolve` and
`NoResolutionLost`. The exceptions are the code's, not the model's: a package
that some other version requires and that is installed next to one of that
package that does not (`SharedUnevenly`), also when the file itself requires it,
and a requirement read before the package it belongs to (`~Settled`).

Abstractions. The names, purls and releases are tagged model values: all the
lookups need is which of them are equal. Null serial numbers and packages that
require themselves are left out. A constraint is the set of versions it admits or is
unparsable, in which case, as when there is none, every version passes. Real
variables range over a few integers.

### PackageQueue

A step is one round trip to Redis. `EnterCall`, `CreateGroup` and `AddMessage`
are `add_package_message` with the flag `_stream_initialized` of each process;
`Unreachable` is an exception of the client before or after Redis has acted, and
`Restart` a server that loses its flag and its calls. `GiveUp`, `Bury` and `Ack`
are `dead_letter` and `ack`. The class offers these to the extractor and nothing
in `src/` calls them, so the consumers are external: they read new messages,
process them or give up, crash anywhere, and take over what another one left
pending, after its crash or because it was slow.

### RequirementFiles and PyPiConstraints

`Init` picks a downloaded tree; `ListFiles`, `SkipFile`, `Analyze`,
`AnalyzeSbom` and `Return` are `RepositoryAnalyzer.analyze`, and `Push` changes
one declaration before a second analysis. A file is a sequence of declarations,
each written in some *form*; the tables `CargoLock` to `PyProject` say what each
analyzer reads of each form: the version as it is written, a pinned version,
`any`, nothing, nothing from there on (a `setup.py` list that a bracket ends),
or an exception (a Cargo table; a key repeated in a TOML table, `RepeatedKey`).
Each declaration stands on a line of its own, but the first and the last of a
`setup.py` list may share the line of a bracket (`Layouts`), and the analyzer drops
these lines (`setup_py_analyzer.py:19`, `OnBracketLine`). `DetectSbomFormat` and `GetAnalyzer` choose the
analyzer, `NormalizeFilename` is what the code makes of a path (a directory
`main` or `master` below the root disappears from it, and the file is not found
any more), and `Last` the assignment that lets a later declaration replace an
earlier one.

`PackageName` has the rules for names. The SBOM formats keep the namespace of a
purl for three types. A Python package may be spelled with capitals or with
underscores: the Python formats put the name in lower case and keep underscores,
while a purl of type `pypi` is normalised by `PackageURL.from_string`, which is
external and also turns them into hyphens. The names of the other ecosystems are
taken as they are (`NamesAssumption`).

`PyPiConstraints` has the conversion of specifiers (`Convert`, with `Bump` for
the digit arithmetic on the text) and the reading of markers (`IsCompatible`),
and next to them what PEP 440 and PEP 508 say they mean (`Admits`, `Holds`).
Markers compare `python_version` only. The properties compare the two and name
the specifiers and markers for which they part. `!=1.2.*` becomes the empty
range, a wildcard whose last number ends in 9 after other digits gets the wrong
end, and one specifier that cannot be converted drops all. A requirement that
applies may be skipped for a marker with `or`, for the exclusion of a Python 2
(`!= '2.7'`), for the series of a major version (`== '3.*'` is read as 3.0), and for
`<` with a third number (`< '3.14.5'` is read as `< 3.14`); `Misread` lists these
four, and `MarkerRead` proves that there are no others.

### GraphReads

A request carries the depth the client sent. `MaxLevel` is what the schemas make
of it before `ValidMaxDepth` looks at it; `Receive` refuses it or starts the
traversal. `Extend` and `NextPath` are the breadth first traversal of
`apoc.path` with `NODE_GLOBAL`: the relationships of the node at the end of the
current path in any order, each to a node no path has visited. `QueryFails` is
the end of a query by time, memory or another error. `Answer` builds the report
(`Rows` are the packages, `Report` parts them by depth) or the data for SMT, and
the endpoint filters the versions. `ExpandReqFile`, `ExpandPackage`,
`ExpandVersion` and `VersionNotFound` are the three expansion endpoints.

Every read is one transaction, so `requires` does not change. Properties of
nodes, paging and JSON are left out. What the code does and a reader may not
expect is stated by the properties as it is: depth 0 of a file or a version is
level -1 and means no limit (`Beyond`); of several requirements of a version
the expansion shows one, and a version without any is answered as not found;
which of several constraints at the least depth a report shows depends on the
order of the relationships.

## Runs

Checked with two TLC workers; each passing run takes from a few seconds to a few
minutes. `CHECK_DEADLOCK FALSE` everywhere: requests, pushes and failures are
bounded, and when they are used up the system really has nothing to do.

| Run | Question |
|---|---|
| `RepositorySerial` | Without races: types; one node per repository; nobody writes below a complete one; an incomplete one has a task working on it or dead; no dependency is lost to the extractor's timing. Three requests, two files (one an SBOM), two packages, a push at any time, one failure. |
| `RepositoryQuiet` | With a reliable GitHub and pushes between requests: a repository that will not be updated is at HEAD, and only files absent from HEAD are deleted. Three requests, three trees, two pushes, one failure. |
| `RepositoryKnownPackages` | All packages known, HTTP errors, an SBOM file, an unknown user: the merge leaves exactly the relationships of the analysis, every file it rewrites is restamped, and every step is a step of the catalog. Three requests, so that two updates follow the creation. |
| `RepositoryRacingLive` | Two racing requests, no failure: a 409 is true; under fairness an accepted request ends, a repository marked incomplete becomes complete again. |
| `AnalysisCache` | Three requests of each kind against changes, stamps and deletions: answers are fresh, reports are as asked. |
| `PackageQueue` | Two requests racing for the group, one failing round trip or restart, two consumers that crash and redeliver: nothing is lost, only a redelivery repeats, a call fails only if it was cut, and every message added is settled. |
| `RequirementFiles` | Every format with every pair of declarations, the layouts of a `setup.py` list, three spellings of a name, two files of different formats, hidden and swallowed directories, a set of specifiers and markers, one push: which entries are empty, that an edit is local, that a package has one name, and that constraints and markers keep their meaning, up to the exceptions above. |
| `GraphReads` | 256 graphs of four packages with cycles, several ways to one package, a second node type and a package without versions; every request with depths -2 to 3; every order of the relationships. |
| `SMTModel` | 648 graphs over three packages with two or three versions, each order of requirements, every operation: solutions are resolutions and resolutions are solutions, up to the exceptions; impacts are determined; answers are the best, in order, distinct, and all of them when fewer than asked; a configuration is honoured for the packages without a purl. |

The bounds: two requests are enough for each two-party race, three let an update
follow an update or a third request observe what two left. Two files give one
that stays and one that comes or goes; two packages the same within a file; two
constraints a change. Two clock ticks give before, at and after a stamp. Three
packages give a chain, a package required directly and indirectly, and one
shared by two parents; three versions give a run of serial numbers and a run
with a gap; up to three answers give a second and third round. Two deliveries
of a message give one crash and one that goes through. Two declarations give
every interaction of one with the next, and specifiers around 1.9, 1.10 and
1.19 every case of the digit arithmetic. In the graphs of `GraphReads` the
longest way to a package has three packages, so depth 2 cuts some off and depth
3 none; a package of another type is required by the file and by a version.

Three runs show disagreements between the code and what it says of itself
(`findings` in `PROJECT.json` quotes the lines):

* `RepositoryDuplicateNode`: racing requests create two records of a repository.
* `AnalysisCacheAggregator`: the model cache ignores the aggregator.
* `SMTConfigIgnored`: with packages that have a purl, a configuration the file
  excludes is reported valid, because it is looked up by name and constrains no
  variable.

Other behaviour that the properties except, and that shows when the exception is
taken away:

* One exception between the two writes of `is_complete` leaves a repository that
  answers 409 for ever; `IncompleteHasWorker` names the dead task as the cause.
* With `HttpErrors` a file whose download failed is deleted from the graph;
  `OnlyAbsentFilesDeleted` is checked without.
* With `CommitAnytime` a commit pushed during an update is skipped, because the
  moment is the time of the stamp; `CaughtUp` is checked without.
* A package that others may require is forced out by each of them that is at a
  version that does not, also when the file itself requires it; a graph that has
  resolutions may then be called invalid (`SharedUnevenly` in `NoResolutionLost`).
  If the file requires a and b, and a 1 requires b but a 2 does not, then a 2 with
  b is lost.
* What shares a line with a bracket of a `setup.py` list is not read, and an edit
  next to it makes it appear (`OnBracketLine` in `SkippedOnlyIfFalse`, `Moved` in
  `EditIsLocal`).
* `typing_extensions` has one node when a `requirements.txt` names it and another
  when an SBOM does (`UnderscoreKept` in `OneNamePerPackage`).
* Four kinds of markers skip requirements that apply (`Misread`).
* With `Overlap`, an old model is stored after a stamp and counts as newer than
  the file; `FreshAnswer` is checked and proved without.
* With `Flaky`, `valid_graph` repeats a check that succeeded, the repeated one
  times out, and the graph is reported invalid; `NothingWithheld` is checked
  without.

Fairness. `FairSpec` of `RepositoryInit` has weak fairness for the steps of a
background task, because the event loop runs whatever is ready and every client
call returns or raises. There is none for clients, pushes, failures or the
extractor, which is another service. `FairSpec` of `PackageQueue` has it for the
calls a server holds and for a consumer with a message; that consumers read what
is new and reclaim what is pending (strong fairness of `Deliver` and of
`Redeliver` for an orphaned message) is an assumption about the extractor,
without which nothing could be promised of a message.

## Proofs

TLAPS proves, for every value of the constants:

* `RepositoryInitProofs!TypeCorrect`: `Spec => []TypeOK`. `TypeOK` is not
  inductive alone: that a message states constraints depends on the package
  being queued having some (`LocalsCoherent`).
* `RepositoryInitProofs!IncompleteMeansWorked`: `Spec => []IncompleteHasWorker`,
  with no assumption on the environment, and `RefusalTrue`: `MaxFaults = 0 =>
  (Spec => RefusalMeansProcessing)`. Both are about `Workers`: the flag is cleared
  only on the way into the labels `Writing`, and left only through `SetComplete`
  or `Fail`; without failures the task is still there when a 409 is sent.
* `RepositoryInitProofs!SerialOneNode` and `SerialComplete`: `~Racing => (Spec =>
  []...)`. The inductive invariant `LockInv` says why the handler's read is still
  true when the task acts on it: the window is exclusive (`WindowExclusive`), an
  accepted request found no writer (`AcceptedAlone`), its record decides rightly
  (`RecordCurrent`), and a writer keeps the flag FALSE (`WritersLock`), which
  makes others be refused. There is one lemma for a step that leaves the graph
  alone (`FrameLock`) and one case per action that writes.
* `RepositoryCatalogProofs!SerialCatalog`: `~Racing => (Spec =>
  ImplementsCatalog)`. On top of `LockInv` it needs that files and the tasks
  that write them belong to one repository (`FilesBelong`, `TasksBelong`) and
  that a task's idea of the moments is right until its first write
  (`MomentsKnown`). Each query then changes the catalog at one repository, by
  the step the task's label stands for, or not at all.
* `RepositoryAnalysisProofs` is about what an analysis leaves behind. It first
  says of each action, field by field, what it does (the lemmas named `...Does`),
  what the locals of one task say by themselves (`Jobs`), and that a step below
  one node leaves the others alone (`Alone`, `StepAlone`). On these stand four
  invariants, each on top of the one before, but for `QuietInv`:
  * `QuietInv`, for `QuietCaughtUp` and `QuietDeletions` under `Quiet`
    (`~Racing`, no HTTP errors, no push during a request): the directory of a
    task in its download holds HEAD as far as it has fetched, and what it found
    is HEAD until it is done (`Downloading`).
  * `MergeInv`, for `SerialNothingLost` under `~Racing`: each package that the
    analysis found in a file is in the graph, in a message, or still in one of
    the dictionaries of the merge (`HandPackage`); a file is in the graph,
    still to be looked at, or in hand (`ShelfFile`). Failures at any point and an
    extractor that runs at any time are included.
  * `ExactInv`, for `SerialExact` under `~Racing` and `InitialPackages =
    Packages`: a relationship of the file in hand is either still in
    `existing_packages` or the one that was found, and no two of a file lead to
    one package (`Functional`). That the graph knows every package is needed: a
    message may be consumed after an update has dropped the dependency it is
    for, which is listed as a hazard. That the relationships are as many as the
    dependencies needs `IsFiniteSet(Packages)`.
  * `DirtyInv`, for `SerialRestamped` under the same assumptions: in a complete
    repository a file is behind its relationships only if it has some, because
    `delete_requirement_file` does not match a file that has none; so the next
    update finds it and deletes or stamps it.
* `AnalysisCacheProofs!TypeCorrect`, with `Coherent` as strengthening.
* `NeverOutdated`: `~Overlap => (Spec => []FreshAnswer)`. The invariant
  `FreshInv` says that a stored entry newer than the file's moment holds a graph
  that the file has had since that moment (`EntryFresh`), and that a request
  under way has seen all of those. A stamp preserves it because no entry is
  newer than now, which is where the strict comparison matters.
* `AnsweredAsAsked`: `Spec => []ResultsAsAsked`.
* `PackageQueueProofs!TypeCorrect`, `NeverLost`, `NeverBusy` and
  `NeverRepeated`, for any number of servers, requests and consumers. For the
  last one the outcomes of a message and the consumers that still hold it
  without one are together at most its deliveries, which is a count over the
  set of consumers.
* `RequirementFilesProofs!TypeCorrect`, `StoredNotNarrower` and
  `StoredNotWider`: the stored constraint means what the requirement says, for
  releases of any length. The core is that a release begins with given numbers
  exactly when it is between them and their successor (`SeriesOfNumbers`), where
  the least position at which two releases differ decides. `EmptyEntries`,
  `SkippedFalse` and `MarkerRead` are about empty entries and markers, `LocalEdits`
  about the second analysis after a push, and `OneName` about the names of
  packages, both up to the exceptions listed above; `MarkerRead` is for markers of
  any length, with wildcards and any number of parts in a version. They follow from `FilesInv`: every entry is what `ParseFile` makes of
  the present tree, and what the first analysis left is what it makes of the
  tree before the push. The names tell packages apart because a document of a kind
  is read by the analyzer of that kind (`KindsAssumption`), packages of
  ecosystems without namespaces have none, and only Python packages have several
  spellings (`NamesAssumption`).
* `GraphReadsProofs!TypeCorrect` and `ReportsLeast`: whatever the graph and the
  order in which relationships are followed, a report lists each package once,
  at its least depth, and all within the depth asked. The invariant `Trail` is
  that of breadth first search: each path extends an earlier one, no two end at
  one node, they come by length and differ by one step at most from the one
  being extended, and what an extended path leads to is visited no further away
  than one step more. The rest is arithmetic of levels and depths: packages are
  at odd lengths, or even ones from a package (`Alternates`), so halving loses
  nothing (`Halves`).
* `GraphReadsProofs!DataDoCoverDepth`: the data for SMT are what lies within the
  depth. The reference is a recursive function; that it exists is shown with a
  least element argument on `Nat`, and that it is complete after as many steps
  as there are packages by counting (`PackagesAssumption` makes them finite).
  `BrowsingExact` is about the expansions.
* `SMTModelProofs`: all eight properties of `SMTModel`, for any graph, request and
  number of answers. `SMTInv` is `TransformInv` (what the fields of the model are
  after some of the requirements have been read: `DirectsInv`, `ChildsInv`,
  `ParentsInv`, `SettledInv` and `ImpactsInv`), `PhaseInv` and `FoundInv` (what was
  found is in the domain, in order and without repetition). `GroupsMean` says
  that the intervals the text uses admit exactly the serial numbers they were
  built from. `SolutionsDoResolve` reads a solution as a resolution;
  `ResolutionsKept` constructs the assignment of a resolution and shows that it
  meets each clause; that a clause of `parents` is met, for direct packages as for
  others, is where `SharedUnevenly` is needed. `NothingIsWithheld` assumes `~Flaky`.

The library's induction theorems take an operator and cannot be used, so
induction over numbers is by sets (`AllNaturals`: a set that has 0 and the
successor of each of its numbers has them all), and the recursive functions
and folds the models use are shown to exist before they are unfolded.

Assumptions on the constants are the named `ASSUME`s of the modules; TLC
evaluates them in every run.

Only model-checked: liveness (`AcceptedIsServed`, `EventuallyComplete`,
`EventuallySettled`), because fairness and ENABLED are out of the prover's reach,
and the three runs that end in a violation. Every invariant and every action
property of the passing runs has a theorem; the assumptions named above
(`~Racing`, `Quiet`, `InitialPackages = Packages`, `MaxFaults = 0`, `~Overlap`,
`~Flaky`) are those under which the runs check it, and the runs and hazards
that go without them show what fails then.

## Not modelled

* Authentication: a stateless check in front of every endpoint; start up,
  shutdown and the lazily created services; the unbounded retry loop of the
  GitHub service, which keeps a request open and changes nothing.
* The two status endpoints and the list of a user's repositories, which return
  stored properties.
* How the parser libraries split a text and how univers reads a constraint; the
  metadata of `go.mod`, which nothing reads; requirements with an empty name;
  components of an SBOM without a version in their purl.
* Pre-, post- and local releases in Python specifiers.
* A file's moment, relationships and cache entries together: `AnalysisCache` has
  the updates of one file as its environment, not as the steps of
  `RepositoryInit`.
* Routing, logging and rate limits have no state that the properties are about.

## Plan

What is left, the most important first:

1. `FileAnalysis`: composition of a file's moment, its relationships and the
   caches (a new file is stamped before it is filled).
2. An abstract specification of the stream (each message settled at most as often
   as it is delivered) and of the caches (an answer is one the graph could have
   given), with the modules shown to implement them.
3. `Lifecycle`: database manager, service container, HTTP session, retry loop.
4. `Access`: the dual bearer.
