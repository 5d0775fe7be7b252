SPECIFICATION FairSpec
CONSTANTS
  a = a
  b = b
  c1 = c1
  c2 = c2
  p1 = p1
  Sandboxes = {a}
  Instances = {1, 2}
  MaxInstances = 1
  MaxInstanceAge = 1
  Creates = {c1}
  Rpcs = {p1}
  SharedNames = {}
  SandboxOf <- DuplicateSandboxOf
  VMName <- OneVMName
  Ops = {"delete"}
  VMEvents <- Failures
  Leftovers <- OldLeftovers
  MaxLate = 0
  MaxReserve = 1
  MaxNow = 4
  Watching = TRUE
  MaxRestarts = 0
INVARIANT TypeOK
PROPERTIES ExpiredIsReleased LeftoversAreFound DuplicatesAreRemoved
