SPECIFICATION Spec
CONSTANTS
  a = a
  b = b
  c1 = c1
  c2 = c2
  p1 = p1
  Sandboxes = {a}
  Instances = {1}
  MaxInstances = 1
  MaxInstanceAge = 1
  Creates = {c1, c2}
  Rpcs = {p1}
  SharedNames = {}
  SandboxOf <- OneSandboxOf
  VMName <- OneVMName
  Ops = {"delete"}
  VMEvents <- Deletions
  Leftovers = {}
  MaxLate = 0
  MaxReserve = 2
  MaxNow = 3
  Watching = TRUE
  MaxRestarts = 0
SYMMETRY CreateSymmetry
INVARIANT TombstoneWins
