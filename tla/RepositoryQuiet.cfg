CONSTANTS
  r1 = r1  r2 = r2  ann = ann  bob = bob  t1 = t1  t2 = t2  t3 = t3
  f1 = f1  f2 = f2  p1 = p1  p2 = p2  c1 = c1  c2 = c2
  None = None
  Repos = {r1}
  Users = {ann, bob}
  KnownUsers = {ann}
  Tasks = {t1, t2, t3}
  Files = {f1, f2}
  Packages = {p1, p2}
  Constraints = {c1, c2}
  InitialPackages = {p1}
  RepoOf <- OneRepo
  UserOf <- OneUser
  RootFiles = {f1}
  SbomFiles = {}
  Trees <- ThreeTrees
  MaxCommits = 2
  MaxFaults = 1
  Racing = FALSE
  HttpErrors = FALSE
  CommitAnytime = FALSE
SPECIFICATION Spec
INVARIANTS
  CaughtUp
PROPERTIES
  OnlyAbsentFilesDeleted
CHECK_DEADLOCK FALSE
