--------------------------- MODULE RequirementFiles ---------------------------
(***************************************************************************)
(* The analysis of a downloaded repository (repo_analyzer.py and           *)
(* requirement_files/): the choice of an analyzer for each file, what each *)
(* of the fifteen formats reads of a declaration, the entries they leave   *)
(* in requirement_files, and the packages queue_packages makes of them.    *)
(* A file is a sequence of declarations; of a declaration its package, the *)
(* form it is written in and, for Python, its specifiers and marker matter.*)
(* Each stands on a line of its own but for the ends of a setup.py list.   *)
(* The download itself is in RepositoryInit.                               *)
(***************************************************************************)
EXTENDS PyPiConstraints, FiniteSets

CONSTANTS
  PackageNames,  \* what packages are called: a namespace, a name, a spelling
  Trees,         \* the repositories considered: [file names -> documents]
  Edits,         \* the declarations a push may write
  Versions,      \* the releases constraints are compared on
  None

Declarations ==
  [form : STRING, package : PackageNames, clauses : SUBSET Clauses,
   marker : Markers]

\* Which declarations of a list stand on the line of one of its brackets: none,
\* the first, the last, or all of them, on one line with both.
Layouts == {"lines", "first", "last", "one"}

Documents ==
  [broken : BOOLEAN, kind : STRING, layout : Layouts, decls : Seq(Declarations)]

ASSUME VersionsAssumption == Versions \subseteq Releases
ASSUME EditsAssumption == Edits \subseteq Declarations
\* No file has the name that another gets when a directory main is taken out.
ASSUME TreesAssumption ==
  \A t \in Trees : \A name \in DOMAIN t :
    name.dir # "glued" /\ t[name] \in Documents

VARIABLES
  tree,               \* the downloaded files
  todo,               \* the names get_req_files_names found, still to be read
  requirement_files,  \* the entries made so far
  previous,           \* the analysis before the push, and its tree
  phase

vars == <<tree, todo, requirement_files, previous, phase>>

-----------------------------------------------------------------------------
(* What each format reads: the text of a declaration as it is ("written"),  *)
(* as one exact version ("pinned"), "any", null, the specifiers of a Python *)
(* requirement ("parsed"), nothing ("ignored"), nothing from there on       *)
(* ("ends"); or the parser raises.                                         *)

CargoLock == [version |-> "pinned"]

CargoToml == [version |-> "pinned", range |-> "written", table |-> "raises"]

Gemfile == [version |-> "pinned", range |-> "written", bare |-> "ignored",
            doubleQuoted |-> "ignored"]

GemfileLock == [version |-> "pinned", range |-> "written", bare |-> "ignored"]

PackageJson == [range |-> "written", dev |-> "ignored"]

PackageLock == [version |-> "pinned", range |-> "written", bare |-> "null",
                packagesSection |-> "ignored"]

PackagesConfig == [version |-> "pinned", range |-> "written", bare |-> "ignored"]

PomXml == [version |-> "pinned", range |-> "written", bare |-> "any",
           property |-> "pinned", undefined |-> "any", unnamed |-> "ignored"]

\* Lines are read without the block they stand in; those that begin with the
\* letters of "go" or "module" are skipped, whatever they say.
GoMod == [single |-> "written", block |-> "written", goPath |-> "ignored",
          excludeLine |-> "ignored", excludeBlock |-> "written"]

\* A requirement with a marker for an extra is skipped in the four Python
\* formats, which all end in parse_pypi_constraints.
\* An option line and an empty line are packages as well.
RequirementsTxt == [requirement |-> "parsed", extra |-> "ignored",
                    commented |-> "ignored", option |-> "any", empty |-> "any"]

\* The bracket of a requirement with extras is taken for the end of the list, and
\* the line it stands in is dropped.
SetupPy == [requirement |-> "parsed", extra |-> "ignored",
            commented |-> "ignored", secondList |-> "ignored",
            withExtras |-> "ends"]

SetupCfg == [requirement |-> "parsed", extra |-> "ignored"]

PyProject == [requirement |-> "parsed", extra |-> "ignored",
              poetry |-> "ignored"]

\* PurlTypeToManager.
Purls ==
  [pypi |-> "PyPI", npm |-> "NPM", maven |-> "Maven", nuget |-> "NuGet",
   cargo |-> "Cargo", gem |-> "RubyGems", golang |-> "Go"]

\* An SBOM component is written by its purl: its type, or what is wrong with it.
\* Purls without a version ("any") are left out.
Component(form) == IF form \in DOMAIN Purls THEN "pinned" ELSE "ignored"

SbomForms == DOMAIN Purls \cup {"noPurl", "badPurl", "otherType"}

Sboms == {"cyclonedx", "spdx"}

Readings(f) ==
  CASE f = "Cargo.lock" -> CargoLock
    [] f = "Cargo.toml" -> CargoToml
    [] f = "Gemfile" -> Gemfile
    [] f = "Gemfile.lock" -> GemfileLock
    [] f = "package.json" -> PackageJson
    [] f = "package-lock.json" -> PackageLock
    [] f = "packages.config" -> PackagesConfig
    [] f = "pom.xml" -> PomXml
    [] f = "go.mod" -> GoMod
    [] f = "requirements.txt" -> RequirementsTxt
    [] f = "setup.py" -> SetupPy
    [] f = "setup.cfg" -> SetupCfg
    [] f = "pyproject.toml" -> PyProject
    [] f \in Sboms -> [form \in SbomForms |-> Component(form)]

\* The manager an analyzer gives to its packages.
Manager(f, d) ==
  CASE f \in {"Cargo.lock", "Cargo.toml"} -> "Cargo"
    [] f \in {"Gemfile", "Gemfile.lock"} -> "RubyGems"
    [] f \in {"package.json", "package-lock.json"} -> "NPM"
    [] f = "packages.config" -> "NuGet"
    [] f = "pom.xml" -> "Maven"
    [] f = "go.mod" -> "Go"
    [] f \in Sboms -> Purls[d.form]
    [] OTHER -> "PyPI"

-----------------------------------------------------------------------------
(* AnalyzerRegistry: keys, words and extension of a file's base name.       *)

Keys == {"Cargo.lock", "Cargo.toml", "Gemfile", "Gemfile.lock", "go.mod",
         "package.json", "package-lock.json", "packages.config", "pom.xml",
         "pyproject.toml", "requirements.txt", "setup.cfg", "setup.py"}

\* detect_sbom_format opens the file under the name it was listed with.
DetectSbomFormat(base, doc) ==
  IF base.ext \in {"json", "xml"} /\ ~doc.broken /\ doc.kind \in Sboms
  THEN doc.kind
  ELSE None

GetAnalyzer(name, doc) ==
  LET base == name.base
      has(word) == word \in base.words
  IN IF base.key \in Keys THEN base.key
     ELSE IF has("requirements") /\ base.ext = "txt" THEN "requirements.txt"
     ELSE IF has("gemfile") /\ base.ext \notin {"lock", "txt"} THEN "Gemfile"
     ELSE IF has("package") /\ ~has("lock") /\ base.ext = "json"
          THEN "package.json"
     ELSE IF has("package-lock") /\ base.ext = "json" THEN "package-lock.json"
     ELSE IF has("bom") THEN DetectSbomFormat(base, doc)
     ELSE None

\* Mutant: every directory is taken for one called main.
NormalizeFilename_Any(name) ==
  IF name.dir # "root" THEN [dir |-> "glued", base |-> name.base] ELSE name

\* normalize_filename takes a directory main or master out of a path, with the
\* slashes around it: "lib/main/go.mod" becomes "libgo.mod", where no file is.
NormalizeFilename(name) ==
  IF name.dir = "inner" THEN [dir |-> "glued", base |-> name.base] ELSE name

ASSUME NoneAssumption == None \notin Keys \cup Sboms

\* A document that is not in the format its name promises is a broken one.
ASSUME KindsAssumption ==
  \A t \in Trees : \A name \in DOMAIN t :
    /\ t[name].broken \/ GetAnalyzer(name, t[name]) \in {t[name].kind, None}
    /\ \A i \in DOMAIN t[name].decls :
         t[name].decls[i].form \in DOMAIN Readings(t[name].kind)

\* How a Python package is written: in lower case with hyphens, with capital
\* letters, or with underscores.  All three name the same package of PyPI.
Spellings == {"plain", "capital", "underscore"}

PyPIForms == DOMAIN RequirementsTxt \cup DOMAIN SetupPy \cup DOMAIN PyProject \cup {"pypi"}

\* The purls of PyPI, NuGet and RubyGems have no namespace.  The names of the
\* other ecosystems are taken as they are.
Plain(d) ==
  /\ d.form \in {"pypi", "nuget", "gem"} => d.package.namespace = None
  /\ d.form \notin PyPIForms => d.package.spelling = "plain"

ASSUME NamesAssumption ==
  /\ \A p \in PackageNames :
       /\ p = [namespace |-> p.namespace, name |-> p.name, spelling |-> p.spelling]
       /\ p.spelling \in Spellings
  /\ \A d \in Edits : Plain(d)
  /\ \A t \in Trees : \A name \in DOMAIN t :
       \A i \in DOMAIN t[name].decls : Plain(t[name].decls[i])

-----------------------------------------------------------------------------
(* Parsing.                                                                *)

\* A table of TOML in which two declarations have the same key does not load.
RepeatedKey(f, doc) ==
  \E i, j \in DOMAIN doc.decls :
    /\ i # j /\ doc.decls[i].package = doc.decls[j].package
    /\ \/ f = "Cargo.toml"
       \/ f = "pyproject.toml" /\ doc.decls[i].form = "poetry" /\ doc.decls[j].form = "poetry"

\* Mutant: a declaration that cannot be read is stored as it is.
Raises_Never(f, doc) == doc.broken \/ RepeatedKey(f, doc)

Raises(f, doc) ==
  \/ doc.broken \/ RepeatedKey(f, doc)
  \/ \E i \in DOMAIN doc.decls : Readings(f)[doc.decls[i].form] = "raises"

\* Has the list of requirements ended before declaration i?
Cut(f, doc, i) == \E j \in 1..i : Readings(f)[doc.decls[j].form] = "ends"

\* Is declaration i of a setup.py list on the line of a bracket?  The lines of
\* both are dropped, with all they say.
OnBracketLine(f, doc, i) ==
  LET alone(js) == \A j \in js : doc.decls[j].form = "secondList"
  IN /\ f = "setup.py"
     /\ \/ doc.layout = "one"
        \/ doc.layout = "first" /\ alone(1..(i - 1))
        \/ doc.layout = "last" /\ alone((i + 1)..Len(doc.decls))

\* Mutant: nothing is read after a declaration that is ignored.
Kept_Break(f, doc) ==
  {i \in DOMAIN doc.decls :
     \A j \in 1..i : /\ Readings(f)[doc.decls[j].form] # "ignored"
                     /\ IsCompatible(doc.decls[j].marker) /\ ~Cut(f, doc, j)}

Kept(f, doc) ==
  {i \in DOMAIN doc.decls : /\ Readings(f)[doc.decls[i].form] # "ignored"
                            /\ IsCompatible(doc.decls[i].marker)
                            /\ ~Cut(f, doc, i) /\ ~OnBracketLine(f, doc, i)}

\* Mutant: names are not put in lower case.
PackageName_Cased(f, d) ==
  [namespace |-> IF f \in Sboms /\ d.form \notin {"maven", "npm", "cargo"}
                 THEN None ELSE d.package.namespace,
   name |-> d.package.name,
   spelling |-> IF f \in Sboms THEN "plain" ELSE d.package.spelling]

\* extract_dependencies keeps the namespace of a purl for three types.  A purl of
\* PyPI is normalised when it is parsed, underscores included; the analyzers of
\* the Python formats only change the case.
PackageName(f, d) ==
  [namespace |-> IF f \in Sboms /\ d.form \notin {"maven", "npm", "cargo"}
                 THEN None ELSE d.package.namespace,
   name |-> d.package.name,
   spelling |-> IF f \in Sboms \/ d.package.spelling = "capital"
                THEN "plain" ELSE d.package.spelling]

\* The package queue_packages looks for, from the manager of the entry or, in
\* an SBOM, the prefix of the key.
Key(f, d) == [manager |-> Manager(f, d), package |-> PackageName(f, d)]

Constraint(f, d) ==
  LET how == Readings(f)[d.form]
  IN [how |-> how,
      clauses |-> IF how = "parsed" THEN ParseConstraints(d.clauses) ELSE {}]

KeyAt(f, doc, i) == Key(f, doc.decls[i])

\* A later declaration of a package replaces an earlier one.
Last(f, doc, k) ==
  CHOOSE i \in Kept(f, doc) :
    /\ KeyAt(f, doc, i) = k
    /\ \A j \in Kept(f, doc) : KeyAt(f, doc, j) = k => j <= i

Packages(f, doc) ==
  [k \in {KeyAt(f, doc, i) : i \in Kept(f, doc)} |->
     Constraint(f, doc.decls[Last(f, doc, k)])]

Nothing == [k \in {} |-> None]

\* What is left of parse_file and of the exceptions it is called under; go.mod
\* is only read at the root.
ParseFile(f, name) ==
  IF \/ name \notin DOMAIN tree \/ Raises(f, tree[name])
     \/ f = "go.mod" /\ name.dir # "root"
  THEN Nothing
  ELSE Packages(f, tree[name])

With(files, name, packages) ==
  [n \in DOMAIN files \cup {name} |-> IF n = name THEN packages ELSE files[n]]

-----------------------------------------------------------------------------
Init ==
  /\ tree \in Trees
  /\ todo = {} /\ requirement_files = Nothing /\ previous = None
  /\ phase = "downloaded"

\* get_req_files_names: glob does not enter hidden directories.
ListFiles ==
  /\ phase = "downloaded" /\ phase' = "reading"
  /\ todo' = {name \in DOMAIN tree : name.dir # "hidden"}
  /\ requirement_files' = Nothing
  /\ UNCHANGED <<tree, previous>>

Take(name) ==
  /\ phase = "reading" /\ name \in todo /\ todo' = todo \ {name}
  /\ UNCHANGED <<tree, previous, phase>>

SkipFile(name) ==
  /\ Take(name) /\ GetAnalyzer(name, tree[name]) = None
  /\ UNCHANGED requirement_files

\* RequirementFileAnalyzer.analyze: the entry is there before the file is read.
Analyze(name) ==
  LET f == GetAnalyzer(name, tree[name])
      normalized == NormalizeFilename(name)
  IN /\ Take(name) /\ f \in Keys
     /\ requirement_files' =
          With(requirement_files, normalized, ParseFile(f, normalized))

\* The analyze of the two SBOM analyzers: without packages there is no entry.
AnalyzeSbom(name) ==
  LET f == GetAnalyzer(name, tree[name])
      normalized == NormalizeFilename(name)
      packages == ParseFile(f, normalized)
  IN /\ Take(name) /\ f \in Sboms
     /\ requirement_files' = IF packages = Nothing THEN requirement_files
                             ELSE With(requirement_files, normalized, packages)

Return ==
  /\ phase = "reading" /\ todo = {} /\ phase' = "done"
  /\ UNCHANGED <<tree, todo, requirement_files, previous>>

Written(doc, i, d) ==
  [broken |-> doc.broken, kind |-> doc.kind, layout |-> doc.layout,
   decls |-> IF i > Len(doc.decls) THEN Append(doc.decls, d)
             ELSE [doc.decls EXCEPT ![i] = d]]

\* A push that writes one declaration of one file, and a second analysis.
Push(name, i, d) ==
  /\ phase = "done" /\ previous = None
  /\ phase' = "downloaded"
  /\ previous' = [tree |-> tree, files |-> requirement_files]
  /\ i \in 1..(Len(tree[name].decls) + 1)
  /\ d.form \in DOMAIN Readings(tree[name].kind)
  /\ tree' = [tree EXCEPT ![name] = Written(@, i, d)]
  /\ requirement_files' = Nothing
  /\ UNCHANGED todo

Next ==
  \/ ListFiles
  \/ \E name \in todo : SkipFile(name) \/ Analyze(name) \/ AnalyzeSbom(name)
  \/ Return
  \/ \E name \in DOMAIN tree, i \in 1..3, d \in Edits : Push(name, i, d)

Spec == Init /\ [][Next]_vars

-----------------------------------------------------------------------------
(* What the analysis guarantees.                                           *)

Format(name) == GetAnalyzer(name, tree[name])

\* The files that were read under their own name.
Read == DOMAIN requirement_files \cap DOMAIN tree

TypeOK ==
  /\ phase \in {"downloaded", "reading", "done"}
  /\ todo \subseteq DOMAIN tree /\ (todo # {} => phase = "reading")
  /\ \A name \in DOMAIN requirement_files :
       \A k \in DOMAIN requirement_files[name] :
         /\ k.manager \in {Purls[t] : t \in DOMAIN Purls}
         /\ requirement_files[name][k] \in
              [how : {"pinned", "written", "any", "null", "parsed"},
               clauses : SUBSET Clauses]
  /\ previous # None => phase # "reading" \/ todo \subseteq DOMAIN previous.tree

\* An entry without packages, for which the update deletes every relationship
\* of the file, is made only for a file that could not be parsed as a whole, a
\* go.mod below the root, a file below a directory main or master, or one in
\* which no declaration is read; never for an SBOM.
EmptyExplained ==
  \A name \in DOMAIN requirement_files : requirement_files[name] = Nothing =>
    \/ \E n \in DOMAIN tree : n.dir = "inner" /\ name = NormalizeFilename(n)
    \/ /\ name \in DOMAIN tree /\ Format(name) \in Keys
       /\ \/ Raises(Format(name), tree[name])
          \/ Format(name) = "go.mod" /\ name.dir # "root"
          \/ Kept(Format(name), tree[name]) = {}

Found(files, name) ==
  IF name \in DOMAIN files THEN files[name] ELSE Nothing

\* The declarations of s that t does not have at the same place.
Changed(s, t) == {s[i] : i \in {j \in DOMAIN s : j \notin DOMAIN t \/ s[j] # t[j]}}

\* What the push replaced and what it wrote in a file.
Edited(name) ==
  Changed(previous.tree[name].decls, tree[name].decls)
    \cup Changed(tree[name].decls, previous.tree[name].decls)

\* Does the push move a declaration of package k that it does not change to or
\* from the line of a bracket?
Moved(f, name, k) ==
  \E i \in DOMAIN previous.tree[name].decls \cap DOMAIN tree[name].decls :
    /\ Key(f, tree[name].decls[i]) = k
    /\ OnBracketLine(f, previous.tree[name], i) # OnBracketLine(f, tree[name], i)

\* A push that writes one declaration changes nothing about the packages of the
\* others: what the second analysis finds differs from the first only in the
\* packages of the declaration written and the one it replaced, unless the file
\* fails to parse before or after, one of the two ends the list of a setup.py, or
\* what was next to a bracket of that list no longer is, or the reverse.
EditIsLocal ==
  phase = "done" /\ previous # None =>
    \A name \in DOMAIN tree :
      LET f == Format(name)
          before == Found(previous.files, name)
          now == Found(requirement_files, name)
          same(k) == /\ k \in DOMAIN before <=> k \in DOMAIN now
                     /\ k \in DOMAIN now => now[k] = before[k]
      IN f # None /\ ~Raises(f, tree[name]) /\ ~Raises(f, previous.tree[name]) =>
           \A k \in DOMAIN before \cup DOMAIN now :
             \/ same(k)
             \/ \E d \in Edited(name) : k = Key(f, d) \/ Readings(f)[d.form] = "ends"
             \/ Moved(f, name, k)

SamePackage(p, q) == p.namespace = q.namespace /\ p.name = q.name

\* A name whose underscores are stored: one of a Python format, not of a purl.
UnderscoreKept(f, d) == f \notin Sboms /\ d.package.spelling = "underscore"

\* Two files name the same package of an ecosystem exactly when they are given
\* the same node for it, except that an SBOM names a Go module by the last part
\* of its path, and that a Python format keeps the underscores of a name, which no
\* SBOM does.
OneNamePerPackage ==
  \A m, n \in Read :
    \A i \in Kept(Format(m), tree[m]), j \in Kept(Format(n), tree[n]) :
      LET d == tree[m].decls[i]
          e == tree[n].decls[j]
      IN /\ Manager(Format(m), d) = Manager(Format(n), e)
         /\ "golang" \notin {d.form, e.form}
         /\ UnderscoreKept(Format(m), d) <=> UnderscoreKept(Format(n), e)
         => (SamePackage(d.package, e.package) <=> Key(Format(m), d) = Key(Format(n), e))

\* The declaration whose constraint was stored for package k.
Source(name, k) ==
  tree[name].decls[Last(Format(name), tree[name], k)]

\* The packages of a file whose constraint comes from Python specifiers.
Parsed(name) ==
  {k \in DOMAIN requirement_files[name] : requirement_files[name][k].how = "parsed"}

\* The stored constraint admits every release the requirement admits, unless it
\* excludes a whole series (!=1.2.*), for which nothing is left.
NeverNarrower ==
  \A name \in Read : \A k \in Parsed(name) :
    LET clauses == Source(name, k).clauses
    IN (\A c \in clauses : ~Emptied(c)) =>
         \A v \in Versions :
           (\A c \in clauses : Admits(c, v)) =>
             AllAdmit(requirement_files[name][k].clauses, v)

\* It admits no other, unless all was given up for a specifier that cannot be
\* converted, the series of a wildcard ends in 19, 29, ..., or the text of the
\* version mattered (===).
NeverWider ==
  \A name \in Read : \A k \in Parsed(name) :
    LET clauses == Source(name, k).clauses
    IN (\A c \in clauses : ~GivesUp(c) /\ c.op # "===" /\ ~WrongBump(c)) =>
         \A v \in Versions :
           AllAdmit(requirement_files[name][k].clauses, v) =>
             \A c \in clauses : Admits(c, v)

\* A Python requirement is left out for its marker only where the marker does
\* not hold for the lowest Python supported, unless the marker is of a kind that
\* is misread, the list of a setup.py was cut before it, or it stands on the line
\* of a bracket of that list.
SkippedOnlyIfFalse ==
  \A name \in Read : \A i \in DOMAIN tree[name].decls :
    LET f == Format(name)
        d == tree[name].decls[i]
    IN /\ d.form = "requirement" /\ ~Raises(f, tree[name])
       /\ Key(f, d) \notin DOMAIN requirement_files[name]
       => \/ ~Holds(d.marker) \/ Misread(d.marker)
          \/ Cut(f, tree[name], i) \/ OnBracketLine(f, tree[name], i)
=============================================================================
