SPECIFICATION FairSpec
CONSTANTS
  Sandboxes = {a, b}
  Writers = {x1, x2}
  Watchers = {w1, w2}
  BufferSize = 2
  MaxChanges = 3
INVARIANTS TypeOK NoPanic NothingSilentlyDropped ViewConverges
PROPERTY SlowClientReconnects
CHECK_DEADLOCK FALSE
