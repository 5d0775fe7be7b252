SPECIFICATION Spec
CONSTANTS
  Launches = {l1, l2}
  Terminates = {t1}
  Attempts = 2
  MaxNow = 2
  MaxLate = 1
SYMMETRY LaunchSymmetry
INVARIANTS TypeOK LaunchedIsComplete FailureLeavesNoSecret TerminateLeavesNothing
PROPERTIES ImplementsProvider
CHECK_DEADLOCK FALSE
