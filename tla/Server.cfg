\* Three calls for two slots, and a watch stream; the process starts twice.
CONSTANTS
  Calls = {c1, c2, c3}
  Streams = {w1}
  MaxConcurrentRPCs = 2
  MaxStarts = 2
  DiskBits = 16
SPECIFICATION FairSpec
CHECK_DEADLOCK FALSE
INVARIANTS
  TypeOK
  SlotsMatchHandlers
  NoHandlerOutlivesRun
  CleanOnlyWhenAsked
  PlaintextOnlyWhenAsked
  SizedToFit
PROPERTIES
  RejectedOnlyWhenFull
  ForeignFileKept
  AlwaysStops
