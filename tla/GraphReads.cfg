CONSTANTS
  file = file
  a = a  b = b  c = c  d = d
  a0 = a0  a1 = a1  b0 = b0  c0 = c0
  npm = npm  pypi = pypi
  None = None
  File = file
  Packages = {a, b, c, d}
  Versions = {a0, a1, b0, c0}
  NodeTypes = {npm, pypi}
  TypeOf <- SomeTypes
  OwnerOf <- SomeOwners
  Graphs <- SomeGraphs
  Depths <- SomeDepths
SPECIFICATION Spec
INVARIANTS
  TypeOK
  LeastDepths
  DataCoverDepth
  ExpansionsExact
CHECK_DEADLOCK FALSE
