SPECIFICATION Spec
CONSTANTS
  a = a
  b = b
  c1 = c1
  c2 = c2
  p1 = p1
  Sandboxes = {a, b}
  Instances = {1, 2}
  MaxInstances = 1
  MaxInstanceAge = 1
  Creates = {c1, c2}
  Rpcs = {p1}
  SharedNames = {{a, b}}
  SandboxOf <- TwoSandboxOf
  VMName <- TwoVMName
  Ops = {"get", "delete"}
  VMEvents <- Boots
  Leftovers <- UndatedLeftovers
  MaxLate = 1
  MaxReserve = 2
  MaxNow = 3
  Watching = FALSE
  MaxRestarts = 1
SYMMETRY CreateSymmetry
VIEW WhatIsRead
INVARIANTS NoUntrackedVM EveryRecordAges
PROPERTIES ImplementsLeaseRegistry
CHECK_DEADLOCK FALSE
