CONSTANTS
  rf = rf  pkg = pkg  q1 = q1  q2 = q2  q3 = q3  q4 = q4
  g0 = g0  g1 = g1  g2 = g2
  None = None
  Requests = {q1, q2, q3}
  Subjects = {rf, pkg}
  ReqFiles = {rf}
  Graphs = {g0, g1}
  NoDependencies = g0
  Views <- SomeViews
  Asks <- Models
  MaxClock = 1
  Overlap = FALSE
SPECIFICATION Spec
SYMMETRY Symmetry
INVARIANTS
  ModelsAsAsked
CHECK_DEADLOCK FALSE
