CONSTANTS
  a = a  b = b  c = c
  None = None
  Packages = {a, b, c}
  Identified = {c}
  MaxSerial = 2
  Reals = {0, 1, 2}
  Graphs <- SomeGraphs
  Configs <- SomeConfigs
  Limits = {1, 3}
  Targets = {1, 3}
  Flaky = FALSE
SPECIFICATION Spec
INVARIANTS
  TypeOK
  SolutionsResolve
  NoResolutionLost
  ImpactDetermined
  BestFirst
  AnswersDiffer
  NothingWithheld
  ConfigHonoured
CHECK_DEADLOCK FALSE
