SPECIFICATION Spec
CONSTANTS
  Launches = {l1, l2}
  Terminates = {t1}
  Attempts = 2
  MaxNow = 2
  MaxLate = 1
SYMMETRY LaunchSymmetry
INVARIANTS RetriesResolve
CHECK_DEADLOCK FALSE
