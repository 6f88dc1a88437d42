--------------------------- MODULE MCAnalysisCache ----------------------------
(* Small instances of AnalysisCache. *)
EXTENDS AnalysisCache, TLC

CONSTANTS rf, pkg, q1, q2, q3, q4, g0, g1, g2

View(depth, node, aggregator) ==
  [depth |-> depth, node |-> node, aggregator |-> aggregator]
Pip == View(2, "PyPIPackage", "mean")
PipWeighted == View(2, "PyPIPackage", "weighted_mean")
Npm == View(2, "NPMPackage", "mean")
SomeViews == {Pip, PipWeighted, Npm}

Ask(kind, subject, view) == [kind |-> kind, subject |-> subject, view |-> view]
SomeAsks == {Ask("smt", rf, Pip), Ask("file_info", rf, Pip),
             Ask("file_info", rf, Npm), Ask("package_info", pkg, Pip)}
Models == {Ask("smt", rf, Pip), Ask("smt", rf, PipWeighted)}

Symmetry == Permutations(Requests)
=============================================================================
