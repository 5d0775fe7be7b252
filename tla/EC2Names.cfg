SPECIFICATION Spec
CONSTANTS
  a = a
  b = b
  c1 = c1
  c2 = c2
  p1 = p1
  t1 = t1
  t2 = t2
  Sandboxes = {a, b}
  Instances = {1, 2}
  MaxInstances = 1
  MaxInstanceAge = 1
  Creates = {c1, c2}
  Rpcs = {p1}
  SharedNames = {{a, b}}
  Tokens = {t1}
  Ops = {"get", "stop", "delete"}
  ListsLag = FALSE
  MaxReserve = 2
  MaxRequest = 3
  MaxNow = 4
  MaxRestarts = 1
  Watching = FALSE
  SandboxOf <- TwoSandboxOf
  Leftovers <- RunningLeftovers
  InstanceEvents <- Boots
SYMMETRY CreateSymmetry
CHECK_DEADLOCK FALSE
PROPERTIES StartsReconciled
