SPECIFICATION Spec
CONSTANTS
  Url = {"base.git", "lib.git"}
  Dir = {"app", "loop"}
  NoCommit = NoCommit
  NameOrder <- MCNameOrder
  Commit = {"b1", "b2", "l0", "l1", "l2", "l3", "l9"}
  Content <- MCContent
  Fixed <- MCFixed
  Moving = "main"
  History <- MCHistory
  Manifests <- MCManifests
  Additions <- MCAdditions
  Torn = Torn
  NoLock = NoLock
  MaxFaults = 1
INVARIANTS TypeOK CheckoutsComplete OneCommitPerRef RequirementsServed VersionsAskedFor NoCycle LockReproduces ReproducibleIsOffline
PROPERTIES FailureChangesNothing
