SPECIFICATION FairSpec
CONSTANTS
  a = a
  b = b
  c1 = c1
  c2 = c2
  p1 = p1
  t1 = t1
  t2 = t2
  Sandboxes = {a}
  Instances = {1, 2}
  MaxInstances = 1
  MaxInstanceAge = 1
  Creates = {c1}
  Rpcs = {p1}
  SharedNames = {}
  Tokens = {t1}
  Ops = {"delete"}
  InstanceEvents = {}
  ListsLag = TRUE
  MaxReserve = 1
  MaxRequest = 2
  MaxNow = 3
  MaxRestarts = 0
  Watching = TRUE
  SandboxOf <- OneSandboxOf
  Leftovers <- AnyLeftovers
PROPERTIES ExpiredIsReleased LeftoversAreFound DuplicatesAreRemoved
