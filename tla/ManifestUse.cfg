SPECIFICATION MCSpec
CONSTANTS
  NServices = 3
  MaxDeps = 2
  Strangers = {9}
  Uuids = {1, 2}
  MaxRollbacks = 2
INVARIANTS RollbackIsSound ClosureIsExact BindingsCoverTheClosure
PROPERTIES KeepsPromise UseEnds
