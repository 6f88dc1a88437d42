CONSTANTS
  None = None
  MinMinor = 14
  PackageNames <- MCPackageNames
  Trees <- MCTrees
  Edits <- MCEdits
  Versions <- MCVersions
SPECIFICATION Spec
INVARIANTS
  TypeOK
  EmptyExplained
  EditIsLocal
  OneNamePerPackage
  NeverNarrower
  NeverWider
  SkippedOnlyIfFalse
CHECK_DEADLOCK FALSE
