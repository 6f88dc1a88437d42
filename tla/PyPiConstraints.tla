--------------------------- MODULE PyPiConstraints ----------------------------
(***************************************************************************)
(* How the version specifiers of a Python requirement become the stored    *)
(* constraint (requirement_files/pypi_utils.py), and which environment     *)
(* markers skip the requirement (base_analyzer.py).  A release is the      *)
(* sequence of its numbers; of a specifier only its operator, its release  *)
(* and a trailing .* are kept, and pre-, post- and local releases are left *)
(* out.                                                                    *)
(***************************************************************************)
EXTENDS Integers, Sequences

CONSTANT MinMinor  \* MIN_PYTHON_VERSION_MINOR; the major version is 3

ASSUME MinMinorAssumption == MinMinor \in Nat

Operators == {"==", "===", "!=", "<", "<=", ">", ">=", "~="}

Releases == Seq(Nat)

Clauses == [op : Operators, release : Releases, star : BOOLEAN]

Clause(op, r) == [op |-> op, release |-> r, star |-> FALSE]

-----------------------------------------------------------------------------
(* What a specifier means: PEP 440.                                        *)

Part(r, i) == IF i \in DOMAIN r THEN r[i] ELSE 0

Before(a, b) ==
  \E i \in DOMAIN a \cup DOMAIN b :
    Part(a, i) < Part(b, i) /\ \A j \in 1..(i - 1) : Part(a, j) = Part(b, j)

Same(a, b) == \A i \in DOMAIN a \cup DOMAIN b : Part(a, i) = Part(b, i)

\* Does version v begin with release r?
Within(v, r) == \A i \in DOMAIN r : Part(v, i) = r[i]

Upto(r) == SubSeq(r, 1, Len(r) - 1)

Admits(c, v) ==
  CASE c.op = "=="  -> IF c.star THEN Within(v, c.release) ELSE Same(v, c.release)
    [] c.op = "===" -> v = c.release
    [] c.op = "!="  -> ~(IF c.star THEN Within(v, c.release) ELSE Same(v, c.release))
    [] c.op = "<"   -> Before(v, c.release)
    [] c.op = "<="  -> ~Before(c.release, v)
    [] c.op = ">"   -> Before(c.release, v)
    [] c.op = ">="  -> ~Before(v, c.release)
    [] c.op = "~="  -> ~Before(v, c.release) /\ Within(v, Upto(c.release))

AllAdmit(cs, v) == \A c \in cs : Admits(c, v)

-----------------------------------------------------------------------------
(* clean_pypi_constraints.                                                 *)

WithLast(r, n) == [r EXCEPT ![Len(r)] = n]

\* Mutant: the upper end of a wildcard is the release itself.
Bump_Missing(n) == n

\* The last digit of the text is replaced by its successor: 9 becomes 10, and
\* 19 becomes 110.
Bump(n) == IF n % 10 = 9 THEN (n \div 10) * 100 + 10 ELSE n + 1

\* A specifier without a digit, or ~= with a single number: the requirement is
\* stored without any constraint.
GivesUp(c) == c.release = <<>> \/ (c.op = "~=" /\ Len(c.release) = 1)

\* Mutant: the lower end of ~= is dropped.
Convert_Open(c) ==
  LET r == c.release
      end == WithLast(r, Bump(r[Len(r)]))
  IN CASE c.star /\ c.op \in {"==", "==="} ->
            {Clause(">=", r), Clause("<", end)}
       [] c.star /\ c.op = "!=" -> {Clause("<", r), Clause(">=", end)}
       [] c.op = "~=" -> {Clause("<", WithLast(Upto(r), r[Len(r) - 1] + 1))}
       [] OTHER -> {c}

Convert(c) ==
  LET r == c.release
      end == WithLast(r, Bump(r[Len(r)]))
  IN CASE c.star /\ c.op \in {"==", "==="} ->
            {Clause(">=", r), Clause("<", end)}
       [] ~c.star /\ c.op \in {"==", "==="} -> {Clause("==", r)}
       [] c.star /\ c.op = "!=" -> {Clause("<", r), Clause(">=", end)}
       [] c.op = "~=" ->
            {Clause(">=", r), Clause("<", WithLast(Upto(r), r[Len(r) - 1] + 1))}
       [] OTHER -> {c}

\* parse_pypi_constraints of the specifiers of one requirement; no clauses stand
\* for the constraint "any".
ParseConstraints(cs) ==
  IF \E c \in cs : GivesUp(c) THEN {} ELSE UNION {Convert(c) : c \in cs}

\* The specifier the conversion turns into an empty range.
Emptied(c) == c.op = "!=" /\ c.star

\* A wildcard whose last number has several digits and ends in 9.
WrongBump(c) ==
  c.star /\ c.release # <<>>
  /\ c.release[Len(c.release)] > 9 /\ c.release[Len(c.release)] % 10 = 9

-----------------------------------------------------------------------------
(* Environment markers: comparisons of python_version, joined by "and" or   *)
(* "or".  A comparison is a specifier for the numbers of the Python version. *)

Comparisons ==
  {c \in Clauses : c.release # <<>> /\ (c.op = "~=" => Len(c.release) > 1)}

Markers == [tests : Seq(Comparisons), or : BOOLEAN]

Always == [tests |-> <<>>, or |-> FALSE]

\* The groups of the pattern that are used: a third number or a trailing .* is
\* passed over, and a missing second number is 0.
Major(t) == t.release[1]
Minor(t) == Part(t.release, 2)

\* "~=" is matched as "=", and with "===" has no branch of its own.
Decides(t) ==
  \/ Major(t) < 3 /\ t.op \notin {">", ">="}
  \/ Major(t) = 3 /\ t.op \in {"==", "<", "<=", ">", ">="}

\* Mutant: > is compared the wrong way round.
Passes_Swapped(t) ==
  /\ Major(t) = 3
  /\ CASE t.op = "=="  -> Minor(t) >= MinMinor
       [] t.op = ">"  -> Minor(t) > MinMinor
       [] t.op = "<"  -> Minor(t) > MinMinor
       [] OTHER -> TRUE

Passes(t) ==
  /\ Major(t) = 3
  /\ CASE t.op = "=="  -> Minor(t) >= MinMinor
       [] t.op = ">"  -> Minor(t) < MinMinor
       [] t.op = "<"  -> Minor(t) > MinMinor
       [] OTHER -> TRUE

\* is_compatible_python_version: the first comparison that decides does, and
\* whether "and" or "or" joins it to the others is not looked at.
IsCompatible(m) ==
  LET d == {i \in DOMAIN m.tests : Decides(m.tests[i])}
  IN \A i \in d : (\A j \in d : i <= j) => Passes(m.tests[i])

\* What a comparison means for the lowest Python that is supported: PEP 508,
\* which has python_version without the number of the patch.
Satisfied(t) == Admits(t, <<3, MinMinor>>)

Holds(m) ==
  IF m.or /\ m.tests # <<>>
  THEN \E i \in DOMAIN m.tests : Satisfied(m.tests[i])
  ELSE \A i \in DOMAIN m.tests : Satisfied(m.tests[i])

\* The comparisons that the code may take for false though they hold: the
\* exclusion of a Python 2, the series of a major version (== "3.*", read as
\* 3.0), and < with a third number (< "3.14.5", read as < 3.14).
MisreadTest(t) ==
  \/ t.op = "!=" /\ Major(t) < 3
  \/ t.op = "==" /\ t.star /\ Len(t.release) = 1
  \/ t.op = "<" /\ Len(t.release) > 2

\* The markers that may be misread: those, and any disjunction.
Misread(m) == m.or \/ \E i \in DOMAIN m.tests : MisreadTest(m.tests[i])
=============================================================================
