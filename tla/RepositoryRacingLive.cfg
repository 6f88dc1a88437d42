CONSTANTS
  r1 = r1  r2 = r2  ann = ann  bob = bob  t1 = t1  t2 = t2  t3 = t3
  f1 = f1  f2 = f2  p1 = p1  p2 = p2  c1 = c1  c2 = c2
  None = None
  Repos = {r1}
  Users = {ann, bob}
  KnownUsers = {ann}
  Tasks = {t1, t2}
  Files = {f1}
  Packages = {p1, p2}
  Constraints = {c1, c2}
  InitialPackages = {}
  RepoOf <- OneRepo
  UserOf <- OneUser
  RootFiles = {f1}
  SbomFiles = {}
  Trees <- TwoTrees
  MaxCommits = 1
  MaxFaults = 0
  Racing = TRUE
  HttpErrors = FALSE
  CommitAnytime = TRUE
SPECIFICATION FairSpec
PROPERTIES
  RefusalMeansProcessing
  AcceptedIsServed
  EventuallyComplete
CHECK_DEADLOCK FALSE
