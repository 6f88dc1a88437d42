-------------------------- MODULE MCRequirementFiles --------------------------
(* Every format with documents of up to two declarations, and pairs of files *)
(* of one repository.                                                       *)
EXTENDS RequirementFiles

File(key, kind) ==
  [name |-> [dir |-> "root", base |-> [key |-> key, words |-> {}, ext |-> "x"]],
   kind |-> kind]

Variant(words, ext, kind) ==
  [name |-> [dir |-> "root", base |-> [key |-> "", words |-> words, ext |-> ext]],
   kind |-> kind]

Below(dir, file) == [file EXCEPT !.name.dir = dir]

Exact == {File(k, k) : k \in Keys}

Variants ==
  {Variant({"requirements"}, "txt", "requirements.txt"),
   Variant({"gemfile"}, "bak", "Gemfile"),
   Variant({"package"}, "json", "package.json"),
   Variant({"package", "lock", "package-lock"}, "json", "package-lock.json"),
   Variant({"bom"}, "json", "cyclonedx"), Variant({"bom"}, "xml", "spdx")}

Elsewhere ==
  {Below(dir, f) : dir \in {"sub", "inner", "hidden"},
                   f \in {File("go.mod", "go.mod"), File("pom.xml", "pom.xml"),
                          Variant({"bom"}, "json", "cyclonedx")}}

\* Go, NPM and Maven packages have a namespace.
Package(kind, form, n) ==
  [namespace |-> IF kind \in {"go.mod", "package.json", "package-lock.json",
                              "pom.xml"}
                    \/ form \in {"npm", "maven", "golang"}
                 THEN "n" ELSE None,
   name |-> CASE form = "option" -> "-r" [] form = "empty" -> "" [] OTHER -> n,
   spelling |-> "plain"]

MCPackageNames ==
  [namespace : {"n", None}, name : {"a", "b", "-r", ""}, spelling : Spellings]

Decl(kind, form, n) ==
  [form |-> form, package |-> Package(kind, form, n), clauses |-> {},
   marker |-> Always]

Decls(kind, names) ==
  {Decl(kind, form, n) : form \in DOMAIN Readings(kind), n \in names}

Star(op, r) == [op |-> op, release |-> r, star |-> TRUE]

Specifiers ==
  {Clause(op, r) : op \in Operators, r \in {<<1>>, <<1, 2>>, <<1, 9, 1>>}}
    \cup {Star(op, r) : op \in {"==", "!="}, r \in {<<>>, <<1>>, <<1, 9>>, <<1, 19>>}}

Tests ==
  {Clause(op, r) : op \in Operators \ {"~="}, r \in {<<2>>, <<3>>}}
    \cup {Clause(op, r) : op \in Operators,
            r \in {<<2, 7>>, <<3, 0>>, <<3, 14>>, <<3, 14, 5>>, <<3, 15>>, <<4, 0>>}}
    \cup {Star(op, r) : op \in {"==", "!="}, r \in {<<2>>, <<3>>, <<3, 9>>, <<3, 14>>}}

SomeTests ==
  {Clause("<", <<3, 10>>), Clause(">=", <<3, 8>>), Clause("!=", <<3, 9>>),
   Clause(">", <<2, 7>>)}

PythonDecl(clauses, marker) ==
  [Decl("requirements.txt", "requirement", "a")
     EXCEPT !.clauses = clauses, !.marker = marker]

PythonDecls ==
  {PythonDecl({c, d}, Always) :
     c \in Specifiers, d \in {Clause(">=", <<1>>), Clause("!=", <<1, 9>>)}}
    \cup {PythonDecl({c}, Always) : c \in Specifiers}
    \cup {PythonDecl({}, [tests |-> <<t>>, or |-> FALSE]) : t \in Tests}
    \cup {PythonDecl({}, [tests |-> <<t, u>>, or |-> o]) :
            t \in Tests, u \in SomeTests, o \in BOOLEAN}

Laid(layout, kind, decls) ==
  [broken |-> FALSE, kind |-> kind, layout |-> layout, decls |-> decls]

Doc(kind, decls) == Laid("lines", kind, decls)

Spelled(d, spelling) == [d EXCEPT !.package.spelling = spelling]

\* Python packages in a text format and in an SBOM.
InText ==
  {Spelled(Decl("setup.cfg", "requirement", n), spelling) :
     n \in {"a", "b"}, spelling \in Spellings}

InSbom ==
  {Spelled(Decl("spdx", "pypi", n), spelling) :
     n \in {"a", "b"}, spelling \in Spellings}

One(file, doc) == [n \in {file.name} |-> doc]

Both(f, d, g, e) ==
  [n \in {f.name, g.name} |->
     IF n = f.name THEN Doc(f.kind, <<d>>) ELSE Doc(g.kind, <<e>>)]

MCTrees ==
  UNION {{One(f, Doc(f.kind, <<d, e>>)) :
                   d \in Decls(f.kind, {"a"}), e \in Decls(f.kind, {"a", "b"})} :
                f \in Exact \cup Variants}
    \cup UNION {{One(f, Doc(f.kind, <<d>>)) : d \in Decls(f.kind, {"a"})} :
                f \in Elsewhere}
    \cup {One(f, [Doc(f.kind, <<>>) EXCEPT !.broken = TRUE]) :
            f \in Exact \cup Variants \cup Elsewhere}
    \cup {One(File("setup.py", "setup.py"), Laid(layout, "setup.py", <<d, e>>)) :
            layout \in Layouts, d \in Decls("setup.py", {"a"}),
            e \in Decls("setup.py", {"a", "b"})}
    \cup {Both(File("setup.cfg", "setup.cfg"), d, g, e) :
            d \in InText, g \in {Variant({"bom"}, "xml", "spdx")}, e \in InSbom}
    \cup {Both(File("setup.cfg", "setup.cfg"), d, File("pyproject.toml", "pyproject.toml"), e) :
            d \in InText, e \in InText}
    \cup {One(File("requirements.txt", "requirements.txt"),
              Doc("requirements.txt", <<d>>)) : d \in PythonDecls}
    \cup UNION {{Both(f, d, g, e) :
                   d \in Decls(f.kind, {"a"}), e \in Decls(g.kind, {"a", "b"})} :
                f \in {File(k, k) : k \in {"go.mod", "package.json", "pom.xml", "setup.cfg"}},
                g \in {v \in Variants : v.kind \in Sboms}}

MCEdits ==
  UNION {Decls(f.kind, {"b"}) : f \in Exact \cup Variants}
    \cup Decls("Gemfile", {"a"}) \cup Decls("setup.py", {"a"})

MCVersions ==
  {<<1>>, <<1, 0>>, <<1, 2>>, <<1, 2, 5>>, <<1, 3>>, <<1, 9>>, <<1, 9, 1>>,
   <<1, 9, 5>>, <<1, 10>>, <<1, 19>>, <<1, 19, 2>>, <<1, 20>>, <<1, 110>>, <<2>>,
   <<2, 1>>}
=============================================================================
