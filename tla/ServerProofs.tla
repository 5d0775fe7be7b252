---------------------------- MODULE ServerProofs -----------------------------
(***************************************************************************)
(* Proofs about the server: the semaphore and the way Run ends, for every  *)
(* number of calls, streams and slots.                                     *)
(***************************************************************************)
EXTENDS Server, FiniteSetTheorems, TLAPS

\* What the counting and the ends of Run need of the types.
Counted ==
    /\ sem \in 0..MaxConcurrentRPCs
    /\ call \in [Handlers -> {"idle", "running", "rejected"}]
    /\ ctx \in {"live", "canceled", "signal"}
    /\ runErr \in {"nil", "error", "canceled", "signal"}

\* Nothing runs before Run listens, nor once GracefulStop is done or Run has
\* returned.
Quiescent == (pc \in {"config", "exited", "initialize", "listen", "remove", "bind", "returned"}
              \/ graceful = "done") => Running = {}

\* From its select on Run carries nil or Canceled only if it was told to stop.
ErrorIsEarned ==
    (pc \in {"drain", "forced", "returned"} /\ runErr \in {"nil", "canceled"}) => ctx # "live"

ServerInv == Counted /\ SlotsMatchHandlers /\ Quiescent /\ ErrorIsEarned

\* The unary handlers, which the semaphore counts.
Unary == Running \cap Calls

\* Only finitely many handlers run.
LEMMA UnaryIsFinite == IsFiniteSet(Unary)
<1>1. Unary \in SUBSET Calls
  BY DEF Unary
<1> QED
  BY <1>1, HandlersAreDistinct, FS_Subset

\* An admitted call adds one to the handlers that are counted.
LEMMA AdmittedIsCounted ==
  ASSUME NEW c \in Calls, Counted, call[c] # "running", call' = [call EXCEPT ![c] = "running"]
  PROVE  Cardinality(Unary') = Cardinality(Unary) + 1
<1>1. Unary' = Unary \cup {c} /\ c \notin Unary
  BY DEF Unary, Running, Handlers, Counted
<1> QED
  BY <1>1, UnaryIsFinite, FS_AddElement

\* A unary handler that returns takes one away.
LEMMA ReturnedIsUncounted ==
  ASSUME NEW c \in Calls, Counted, call[c] = "running", call' = [call EXCEPT ![c] = "idle"]
  PROVE  Cardinality(Unary') = Cardinality(Unary) - 1
<1>1. Unary' = Unary \ {c} /\ c \in Unary
  BY DEF Unary, Running, Handlers, Counted
<1> QED
  BY <1>1, UnaryIsFinite, FS_RemoveElement

\* A handler that does not run and is not made to run changes no count.
LEMMA OthersAreNotCounted ==
  ASSUME NEW h \in Handlers, NEW state \in {"idle", "running", "rejected"}, Counted,
         call' = [call EXCEPT ![h] = state],
         h \in Streams \/ (call[h] # "running" /\ state # "running")
  PROVE  Unary' = Unary
BY HandlersAreDistinct DEF Unary, Running, Handlers, Counted

LEMMA InitServerInv == Init => ServerInv
<1> SUFFICES ASSUME Init PROVE ServerInv
  OBVIOUS
<1>1. Running = {} /\ sem = 0
  BY DEF Init, Running
<1>2. Counted
  <2>1. ctx = "live" /\ runErr = "nil" /\ sem = 0 /\ call = [h \in Handlers |-> "idle"]
    BY DEF Init
  <2> QED
    BY <2>1, LimitIsPositive DEF Counted
<1>3. SlotsMatchHandlers
  BY <1>1, FS_EmptySet DEF SlotsMatchHandlers
<1> QED
  BY <1>1, <1>2, <1>3 DEF Init, ServerInv, Quiescent, ErrorIsEarned

\* A step that leaves the handlers and the semaphore alone keeps the count.
LEMMA CountIsKept ==
  ASSUME SlotsMatchHandlers, UNCHANGED <<sem, call>>
  PROVE  SlotsMatchHandlers' /\ Running' = Running
BY DEF SlotsMatchHandlers, Running

LEMMA NextServerInv == ServerInv /\ [Next]_vars => ServerInv'
<1> SUFFICES ASSUME ServerInv, [Next]_vars PROVE ServerInv'
  OBVIOUS
<1> USE DEF ServerInv
<1>1. CASE LoadConfig
  <2>1. SlotsMatchHandlers' /\ Running' = Running
    BY <1>1, CountIsKept DEF LoadConfig, process
  <2> QED
    BY <1>1, <2>1 DEF LoadConfig, process, Counted, Quiescent, ErrorIsEarned
<1>2. CASE Initialize
  <2>1. SlotsMatchHandlers' /\ Running' = Running
    BY <1>2, CountIsKept DEF Initialize
  <2> QED
    BY <1>2, <2>1 DEF Initialize, Counted, Quiescent, ErrorIsEarned
<1>3. CASE Inspect \/ Remove \/ ListenFails
  <2>1. /\ pc \in {"listen", "remove", "bind"} /\ pc' \in {"remove", "bind", "returned"}
        /\ UNCHANGED <<ctx, graceful, sem, call>>
        /\ runErr' = IF pc' = "returned" THEN "error" ELSE runErr
    BY <1>3 DEF Inspect, Remove, ListenFails, ListenStep
  <2>2. SlotsMatchHandlers' /\ Running' = Running
    BY <2>1, CountIsKept
  <2> QED
    BY <2>1, <2>2 DEF Counted, Quiescent, ErrorIsEarned
<1>4. CASE Listen
  <2>1. SlotsMatchHandlers' /\ Running' = Running
    BY <1>4, CountIsKept DEF Listen, ListenStep
  <2> QED
    BY <1>4, <2>1 DEF Listen, ListenStep, Counted, Quiescent, ErrorIsEarned
<1>22. CASE Replace
  <2>1. SlotsMatchHandlers' /\ Running' = Running
    BY <1>22, CountIsKept DEF Replace, process
  <2> QED
    BY <1>22, <2>1 DEF Replace, process, Counted, Quiescent, ErrorIsEarned
<1>5. ASSUME NEW err \in {"nil", "error", "canceled", "signal"}, Drain(err),
             err \in {"nil", "canceled"} => ctx # "live"
      PROVE  ServerInv'
  <2>1. SlotsMatchHandlers' /\ Running' = Running
    BY <1>5, CountIsKept DEF Drain
  <2> QED
    BY <1>5, <2>1 DEF Drain, Counted, Quiescent, ErrorIsEarned
<1>6. CASE ContextDone
  BY <1>6, <1>5 DEF ContextDone, Counted
<1>7. CASE ServeReturned
  BY <1>7, <1>5 DEF ServeReturned
<1>8. CASE WatcherReturned
  BY <1>8, <1>5 DEF WatcherReturned, WatchError
<1>9. CASE ForceStop
  <2>1. SlotsMatchHandlers' /\ Running' = Running
    BY <1>9, CountIsKept DEF ForceStop
  <2> QED
    BY <1>9, <2>1 DEF ForceStop, Counted, Quiescent, ErrorIsEarned
<1>10. CASE Return
  <2>1. SlotsMatchHandlers' /\ Running' = Running
    BY <1>10, CountIsKept DEF Return
  <2> QED
    BY <1>10, <2>1 DEF Return, StopIsDone, Counted, Quiescent, ErrorIsEarned
<1>11. CASE ServeEnds
  <2>1. SlotsMatchHandlers' /\ Running' = Running
    BY <1>11, CountIsKept DEF ServeEnds
  <2> QED
    BY <1>11, <2>1 DEF ServeEnds, Counted, Quiescent, ErrorIsEarned
<1>12. CASE WatcherEnds
  <2>1. SlotsMatchHandlers' /\ Running' = Running
    BY <1>12, CountIsKept DEF WatcherEnds
  <2> QED
    BY <1>12, <2>1 DEF WatcherEnds, Counted, Quiescent, ErrorIsEarned
<1>13. CASE GracefulStop
  <2>1. SlotsMatchHandlers' /\ Running' = Running
    BY <1>13, CountIsKept DEF GracefulStop
  <2> QED
    BY <1>13, <2>1 DEF GracefulStop, Counted, Quiescent, ErrorIsEarned
<1>14. CASE Signal
  <2>1. SlotsMatchHandlers' /\ Running' = Running
    BY <1>14, CountIsKept DEF Signal, process
  <2> QED
    BY <1>14, <2>1 DEF Signal, process, Counted, Quiescent, ErrorIsEarned
<1>15. CASE Die
  <2>1. SlotsMatchHandlers' /\ Running' = Running
    BY <1>15, CountIsKept DEF Die, process
  <2> QED
    BY <1>15, <2>1 DEF Die, process, Counted, Quiescent, ErrorIsEarned
<1>16. CASE Restart
  <2>1. Running' = {} /\ sem' = 0
    BY <1>16 DEF Restart, Running
  <2>2. SlotsMatchHandlers'
    BY <2>1, FS_EmptySet DEF SlotsMatchHandlers
  <2>3. Counted'
    BY <1>16, LimitIsPositive DEF Restart, Counted
  <2> QED
    BY <1>16, <2>1, <2>2, <2>3 DEF Restart, Quiescent, ErrorIsEarned
<1>17. ASSUME NEW c \in Calls, Admit(c) PROVE ServerInv'
  <2>1. sem' = sem + 1 /\ sem < MaxConcurrentRPCs
    BY <1>17 DEF Admit, HasSlot
  <2>2. Counted'
    BY <1>17, <2>1, LimitIsPositive DEF Admit, Answer, Aside, Counted, Handlers
  <2>3. Cardinality(Unary') = Cardinality(Unary) + 1
    BY <1>17, AdmittedIsCounted DEF Admit, Answer
  <2>4. SlotsMatchHandlers'
    BY <2>1, <2>3 DEF SlotsMatchHandlers, Unary
  <2> QED
    BY <1>17, <2>2, <2>4 DEF Admit, Accepting, Aside, Quiescent, ErrorIsEarned
<1>18. ASSUME NEW c \in Calls, Reject(c) PROVE ServerInv'
  <2>1. Unary' = Unary
    BY <1>18, OthersAreNotCounted DEF Reject, Answer, Handlers
  <2>2. SlotsMatchHandlers'
    BY <1>18, <2>1 DEF Reject, SlotsMatchHandlers, Unary
  <2>3. Counted'
    BY <1>18 DEF Reject, Answer, Aside, Counted, Handlers
  <2> QED
    BY <1>18, <2>2, <2>3 DEF Reject, Accepting, Aside, Quiescent, ErrorIsEarned
<1>19. ASSUME NEW s \in Streams, OpenStream(s) PROVE ServerInv'
  <2>1. Unary' = Unary
    BY <1>19, OthersAreNotCounted DEF OpenStream, Answer, Handlers
  <2>2. SlotsMatchHandlers'
    BY <1>19, <2>1 DEF OpenStream, SlotsMatchHandlers, Unary
  <2>3. Counted'
    BY <1>19 DEF OpenStream, Answer, Aside, Counted, Handlers
  <2> QED
    BY <1>19, <2>2, <2>3 DEF OpenStream, Accepting, Aside, Quiescent, ErrorIsEarned
<1>20. ASSUME NEW h \in Handlers, HandlerReturns(h) PROVE ServerInv'
  <2>1. Running' \subseteq Running
    BY <1>20 DEF HandlerReturns, Answer, Running, Counted
  <2>2. CASE h \in Calls
    <3>1. Cardinality(Unary') = Cardinality(Unary) - 1
      BY <1>20, <2>2, ReturnedIsUncounted DEF HandlerReturns, Answer
    <3>2. sem' = sem - 1
      BY <1>20, <2>2 DEF HandlerReturns, Released
    <3>3. SlotsMatchHandlers'
      BY <3>1, <3>2 DEF SlotsMatchHandlers, Unary
    <3>4. Cardinality(Unary') \in Nat
      <4>1. IsFiniteSet(Unary')
        <5>1. Unary' \in SUBSET Unary
          BY <2>1 DEF Unary
        <5> QED
          BY <5>1, UnaryIsFinite, FS_Subset
      <4> QED
        BY <4>1, FS_CardinalityType
    <3>5. Counted'
      BY <1>20, <3>2, <3>3, <3>4, LimitIsPositive
         DEF HandlerReturns, Answer, Aside, Counted, SlotsMatchHandlers, Unary
    <3> QED
      BY <1>20, <2>1, <3>3, <3>5 DEF HandlerReturns, Aside, Quiescent, ErrorIsEarned
  <2>3. CASE h \notin Calls
    <3>1. Unary' = Unary
      BY <1>20, <2>3, OthersAreNotCounted DEF HandlerReturns, Answer, Handlers
    <3>2. sem' = sem
      BY <1>20, <2>3 DEF HandlerReturns, Released
    <3>3. SlotsMatchHandlers'
      BY <3>1, <3>2 DEF SlotsMatchHandlers, Unary
    <3>4. Counted'
      BY <1>20, <3>2 DEF HandlerReturns, Answer, Aside, Counted
    <3> QED
      BY <1>20, <2>1, <3>3, <3>4 DEF HandlerReturns, Aside, Quiescent, ErrorIsEarned
  <2> QED
    BY <2>2, <2>3
<1>21. CASE UNCHANGED vars
  <2>1. SlotsMatchHandlers' /\ Running' = Running
    BY <1>21, CountIsKept DEF vars
  <2> QED
    BY <1>21, <2>1 DEF vars, Counted, Quiescent, ErrorIsEarned
<1> QED
  BY <1>1, <1>2, <1>3, <1>4, <1>6, <1>7, <1>8, <1>9, <1>10, <1>11, <1>12, <1>13, <1>14, <1>15, <1>16,
     <1>17, <1>18, <1>19, <1>20, <1>21, <1>22 DEF Next, Run

LEMMA SpecServerInv == Spec => []ServerInv
BY InitServerInv, NextServerInv, PTL DEF Spec

\* The semaphore holds one token for every unary handler that runs, on every
\* path out of unaryLimit, for any number of calls, streams and slots.
THEOREM SlotsAlwaysMatch == Spec => []SlotsMatchHandlers
<1>1. ServerInv => SlotsMatchHandlers
  BY DEF ServerInv
<1> QED
  BY <1>1, SpecServerInv, PTL

\* No call is refused while a slot is free: a step that refuses one finds
\* MaxConcurrentRPCs other handlers running.
THEOREM RejectsOnlyWhenFull == Spec => RejectedOnlyWhenFull
<1> DEFINE Full == \A c \in Calls : (call[c] # "rejected" /\ call'[c] = "rejected")
                                    => Cardinality((Running \cap Calls) \ {c}) = MaxConcurrentRPCs
<1>1. ServerInv /\ [Next]_vars => [Full]_vars
  <2> SUFFICES ASSUME ServerInv, Next, NEW c \in Calls, call[c] # "rejected", call'[c] = "rejected"
               PROVE  Cardinality((Running \cap Calls) \ {c}) = MaxConcurrentRPCs
    BY DEF vars
  <2> USE DEF ServerInv
  <2>1. ASSUME UNCHANGED call PROVE FALSE
    BY <2>1
  <2>2. CASE Restart
    BY <2>2 DEF Restart, Handlers
  <2>3. ASSUME NEW h \in Handlers, NEW state \in {"idle", "running"}, Answer(h, state) PROVE FALSE
    BY <2>3 DEF Answer, Counted, Handlers
  <2>4. ASSUME NEW d \in Calls, Reject(d) PROVE Cardinality((Running \cap Calls) \ {c}) = MaxConcurrentRPCs
    <3>1. c = d /\ call[c] = "idle" /\ ~HasSlot
      BY <2>4 DEF Reject, Answer, Counted, Handlers
    <3>2. (Running \cap Calls) \ {c} = Running \cap Calls
      BY <3>1 DEF Running
    <3> QED
      BY <3>1, <3>2, LimitIsPositive DEF HasSlot, Counted, SlotsMatchHandlers
  <2>5. ASSUME NEW d \in Calls, Admit(d) PROVE FALSE
    BY <2>5, <2>3 DEF Admit, Handlers
  <2>6. ASSUME NEW s \in Streams, OpenStream(s) PROVE FALSE
    BY <2>6, <2>3 DEF OpenStream, Handlers
  <2>7. ASSUME NEW h \in Handlers, HandlerReturns(h) PROVE FALSE
    BY <2>7, <2>3 DEF HandlerReturns
  <2>8. Run \/ LoadConfig \/ ServeEnds \/ WatcherEnds \/ GracefulStop \/ Signal \/ Die \/ Replace
        => UNCHANGED call
    BY DEF Run, LoadConfig, Initialize, Inspect, Remove, ListenFails, Listen, ListenStep, Replace, ContextDone, ServeReturned, WatcherReturned, Drain,
           ForceStop, Return, ServeEnds, WatcherEnds, GracefulStop, Signal, Die, process
  <2> QED
    BY <2>1, <2>2, <2>4, <2>5, <2>6, <2>7, <2>8 DEF Next
<1> QED
  BY <1>1, SpecServerInv, PTL DEF Spec, RejectedOnlyWhenFull

\* When Run has returned no handler is left: main cuts no launch in two.
THEOREM HandlersEndFirst == Spec => []NoHandlerOutlivesRun
<1>1. ServerInv => NoHandlerOutlivesRun
  BY DEF ServerInv, Quiescent, NoHandlerOutlivesRun
<1> QED
  BY <1>1, SpecServerInv, PTL

\* Run returns nil only after a signal or the end of its caller's context.
THEOREM CleanExitWasAsked == Spec => []CleanOnlyWhenAsked
<1>1. ServerInv => CleanOnlyWhenAsked
  BY DEF ServerInv, ErrorIsEarned, CleanOnlyWhenAsked
<1> QED
  BY <1>1, SpecServerInv, PTL

\* Before it listens the process has no goroutines; a start that has found a
\* file is over; until it has a configuration nobody has looked at the path.
PathInv ==
    /\ pc \in {"config", "initialize", "listen", "remove", "bind"} => serve = "none"
    /\ pc \in {"config", "initialize", "listen"} => found = "absent"
    /\ found = "file" => pc = "returned" /\ serve = "none"
    /\ pc = "config" => path = "absent"

LEMMA InspectKeepsPath ==
  ASSUME PathInv, Inspect
  PROVE  PathInv' /\ path' = path
BY DEF PathInv, Inspect, ListenStep, Removable

LEMMA NextPathInv == PathInv /\ [Next]_vars => PathInv'
<1> SUFFICES ASSUME PathInv, [Next]_vars PROVE PathInv'
  OBVIOUS
<1>1. CASE LoadConfig \/ Restart
  BY <1>1 DEF LoadConfig, Restart, process, PathInv
<1>2. CASE Initialize
  BY <1>2 DEF Initialize, PathInv
<1>3. CASE Inspect
  BY <1>3, InspectKeepsPath
<1>4. CASE Remove \/ ListenFails \/ Listen
  BY <1>4 DEF Remove, ListenFails, Listen, ListenStep, PathInv
<1>5. CASE ContextDone \/ ServeReturned \/ WatcherReturned \/ ForceStop \/ Return
  BY <1>5 DEF ContextDone, ServeReturned, WatcherReturned, Drain, ForceStop, Return, PathInv
<1>6. CASE ServeEnds \/ WatcherEnds \/ GracefulStop
  BY <1>6 DEF ServeEnds, WatcherEnds, GracefulStop, InRun, PathInv
<1>7. CASE Signal \/ Die \/ Replace
  BY <1>7 DEF Signal, Die, Replace, process, InRun, PathInv
<1>8. ASSUME NEW h \in Handlers, Admit(h) \/ Reject(h) \/ OpenStream(h) \/ HandlerReturns(h)
      PROVE  PathInv'
  BY <1>8 DEF Admit, Reject, OpenStream, HandlerReturns, Aside, PathInv
<1>9. CASE UNCHANGED vars
  BY <1>9 DEF vars, PathInv
<1> QED
  BY <1>1, <1>2, <1>3, <1>4, <1>5, <1>6, <1>7, <1>8, <1>9 DEF Next, Run, Handlers

\* ForeignFileKept: a start that finds something other than a socket at its
\* path does not unlink it, neither in listen nor when Run or Serve ends.
THEOREM ForeignFileIsKept == Spec => ForeignFileKept
<1> DEFINE Kept == path = "file" /\ path' # "file" => found # "file"
<1>1. Init => PathInv
  BY DEF Init, PathInv
<1>2. PathInv /\ [Next]_vars => [Kept]_vars
  <2> SUFFICES ASSUME PathInv, Next, found = "file", path = "file" PROVE path' = "file"
    OBVIOUS
  <2>1. pc = "returned" /\ serve = "none"
    BY DEF PathInv
  <2>2. Run \/ LoadConfig \/ ServeEnds \/ WatcherEnds \/ GracefulStop \/ Signal \/ Die \/ Replace => FALSE
    BY <2>1 DEF Run, LoadConfig, Initialize, Inspect, Remove, ListenFails, Listen, ContextDone, ServeReturned,
                WatcherReturned, Drain, ForceStop, Return, ServeEnds, WatcherEnds, GracefulStop, Signal, Die,
                Replace, InRun
  <2>3. Restart => path' = path
    BY DEF Restart
  <2>4. ASSUME NEW h \in Handlers, Admit(h) \/ Reject(h) \/ OpenStream(h) \/ HandlerReturns(h)
        PROVE  path' = path
    BY <2>4 DEF Admit, Reject, OpenStream, HandlerReturns, Aside
  <2> QED
    BY <2>2, <2>3, <2>4 DEF Next, Handlers
<1> QED
  BY <1>1, <1>2, NextPathInv, PTL DEF Spec, ForeignFileKept

-----------------------------------------------------------------------------
(* Types.                                                                   *)

Addresses == {"", "loopback", "routable", "malformed"}
BindAddressIsText(l) ==
    /\ DOMAIN l.flag = Settings /\ DOMAIN l.env = Settings
    /\ l.flag["bind-address"] \in Addresses \cup {Unset} /\ l.env["bind-address"] \in Addresses

LEMMA BaseIsText == ASSUME NEW b \in BOOLEAN PROVE BindAddressIsText(Base(b))
BY DEF BindAddressIsText, Base, Settings, Addresses

\* Giving a setting a text of its own keeps the bind address a text.
LEMMA GiveIsText ==
  ASSUME NEW l, BindAddressIsText(l), NEW d \in Drivers, NEW s \in Settings, NEW x \in Given(d, s)
  PROVE  BindAddressIsText(Give(l, s, x))
<1>1. CASE s = "bind-address"
  <2>1. Texts(d, s) = {"loopback", "routable", "malformed"}
    BY <1>1 DEF Texts
  <2>2. x[1] \in Addresses \cup {Unset} /\ x[2] \in Addresses
    BY <1>1, <2>1 DEF Given, Addresses, Typed
  <2> QED
    BY <1>1, <2>2 DEF BindAddressIsText, Give
<1>2. CASE s # "bind-address"
  BY <1>2 DEF BindAddressIsText, Give, Settings
<1> QED
  BY <1>1, <1>2

LEMMA SingleLinesAreText ==
  ASSUME NEW d \in Drivers, NEW s \in Settings, NEW l \in SingleLines(d, s)
  PROVE  BindAddressIsText(l)
<1>1. PICK insecure \in BOOLEAN, x \in Given(d, s) : l = Give(Base(insecure), s, x)
  BY DEF SingleLines
<1> QED
  BY <1>1, BaseIsText, GiveIsText

LEMMA TransportLinesAreText ==
  ASSUME NEW d \in Drivers, NEW l \in TransportLines(d)
  PROVE  BindAddressIsText(l)
<1>1. PICK t \in Given(d, "gateway-endpoint") \X Given(d, "gateway-cert") \X Given(d, "insecure") :
         l = Transport(Base(TRUE), t)
  BY DEF TransportLines
<1> DEFINE a == Give(Base(TRUE), "gateway-endpoint", t[1])
           b == Give(a, "gateway-cert", t[2])
<1>2. BindAddressIsText(a)
  BY BaseIsText, GiveIsText DEF Settings
<1>3. BindAddressIsText(b)
  BY <1>2, GiveIsText DEF Settings
<1>4. BindAddressIsText(Give(b, "insecure", t[3]))
  BY <1>3, GiveIsText DEF Settings
<1> QED
  BY <1>1, <1>4 DEF Transport

LEMMA LinesAreText == ASSUME NEW d \in Drivers, NEW l \in Lines(d) PROVE BindAddressIsText(l)
BY SingleLinesAreText, TransportLinesAreText DEF Lines

\* The bind address of a configuration that loads is a text or empty.
LEMMA LoadedAddress ==
  ASSUME NEW d \in Drivers, NEW l \in Lines(d), Load(d, l) # Rejected
  PROVE  Load(d, l)["bind-address"] \in Addresses
<1>1. Load(d, l) = Effective(d, l)
  BY DEF Load, KubeVirtLoad, EC2Load, Drivers
<1>2. Default(d)["bind-address"] = ""
  BY DEF Default, Settings
<1>3. Effective(d, l)["bind-address"] \in Addresses
  BY <1>2, LinesAreText DEF Effective, BindAddressIsText, FromEnvironment, Settings, Unset, Addresses
<1> QED
  BY <1>1, <1>3

Places == {"absent", "file", "stale", "other", "own"}

\* TypeOK but for sem, call, ctx and runErr, which Counted types, and stopped.
TypesOfRun ==
    /\ pc \in {"config", "exited", "returned", "dead"} \cup InRun
    /\ driver \in Drivers /\ (pc = "config" => line \in Lines(driver))
    /\ address \in Addresses
    /\ path \in Places /\ found \in Places
    /\ serve \in {"none", "running", "ended", "failed"} /\ watcher \in {"none", "running", "ended", "failed"}
    /\ graceful \in {"none", "closing", "draining", "done"}
    /\ starts \in 1..MaxStarts
TypeInv == TypesOfRun /\ stopped \in BOOLEAN

LEMMA InitTypes == Init => TypeInv
<1> SUFFICES ASSUME Init PROVE TypeInv
  OBVIOUS
<1>1. driver \in Drivers /\ line \in Lines(driver)
  BY DEF Init
<1>2. pc = "config" /\ address = "" /\ path = "absent" /\ starts = 1 /\ serve = "none" /\ watcher = "none"
      /\ graceful = "none"
  BY DEF Init
<1>3. stopped \in BOOLEAN
  BY DEF Init
<1>4. TypesOfRun
  <2>1. starts \in 1..MaxStarts
    <3>1. starts = 1
      BY <1>2
    <3>2. MaxStarts \in Nat /\ MaxStarts >= 1
      BY LimitIsPositive
    <3> QED
      BY <3>1, <3>2
  <2>2. address \in Addresses /\ path \in Places /\ found \in Places
    <3>1. path = "absent" /\ found = "absent"
      BY DEF Init
    <3> QED
      BY <1>2, <3>1 DEF Addresses, Places
  <2> QED
    BY <1>1, <1>2, <2>1, <2>2 DEF TypesOfRun
<1> QED
  BY <1>3, <1>4 DEF TypeInv

LEMMA NextTypes == TypeInv /\ [Next]_vars => TypeInv'
<1> SUFFICES ASSUME TypeInv, [Next]_vars PROVE TypeInv'
  OBVIOUS
<1>0. TypesOfRun /\ stopped \in BOOLEAN
  BY DEF TypeInv
<1> USE <1>0 DEF TypesOfRun, InRun, Places
<1>1. CASE LoadConfig
  <2>1. address' \in Addresses
    BY <1>1, LoadedAddress DEF LoadConfig, Addresses
  <2>2. TypesOfRun'
    BY <1>1, <2>1 DEF LoadConfig, process
  <2> QED
    BY <1>1, <2>2 DEF LoadConfig, process, TypeInv
<1>2. ASSUME NEW h \in Handlers, Admit(h) \/ Reject(h) \/ OpenStream(h) \/ HandlerReturns(h)
      PROVE  TypesOfRun' /\ UNCHANGED stopped
  BY <1>2 DEF Admit, Reject, OpenStream, HandlerReturns, Aside, given
<1>3. CASE Initialize
  BY <1>3 DEF Initialize, given, TypeInv
<1>4. CASE Inspect
  BY <1>4 DEF Inspect, ListenStep, given, TypeInv
<1>17. CASE Remove \/ ListenFails
  BY <1>17 DEF Remove, ListenFails, ListenStep, given, TypeInv
<1>5. CASE Listen
  BY <1>5 DEF Listen, ListenStep, given, TypeInv
<1>18. CASE Replace
  BY <1>18 DEF Replace, process, given, TypeInv
<1>6. CASE ContextDone \/ ServeReturned \/ WatcherReturned
  BY <1>6 DEF ContextDone, ServeReturned, WatcherReturned, Drain, given, TypeInv
<1>7. CASE ForceStop
  <2>1. TypesOfRun'
    BY <1>7 DEF ForceStop, given
  <2> QED
    BY <1>7, <2>1 DEF ForceStop, TypeInv
<1>8. CASE Return
  BY <1>8 DEF Return, given, Unlinked, TypeInv
<1>9. CASE ServeEnds
  BY <1>9 DEF ServeEnds, given, Unlinked, TypeInv
<1>10. CASE WatcherEnds
  BY <1>10 DEF WatcherEnds, given, TypeInv
<1>11. CASE GracefulStop
  BY <1>11 DEF GracefulStop, given, TypeInv
<1>12. CASE Signal
  BY <1>12 DEF Signal, process, given, TypeInv
<1>13. CASE Die
  BY <1>13 DEF Die, process, given, TypeInv
<1>14. CASE Restart
  <2>1. TypesOfRun'
    BY <1>14, LimitIsPositive DEF Restart
  <2>2. stopped' \in BOOLEAN
    BY <1>14 DEF Restart
  <2> QED
    BY <2>1, <2>2 DEF TypeInv
<1>15. CASE UNCHANGED vars
  BY <1>15 DEF vars, TypeInv
<1>16. CASE \E h \in Handlers : Admit(h) \/ Reject(h) \/ OpenStream(h) \/ HandlerReturns(h)
  BY <1>16, <1>2 DEF TypeInv
<1> QED
  BY <1>1, <1>3, <1>4, <1>5, <1>6, <1>7, <1>8, <1>9, <1>10, <1>11, <1>12, <1>13, <1>14, <1>15, <1>16,
     <1>17, <1>18 DEF Next, Run, Handlers

\* Every variable of the server keeps its type; the semaphore never holds more
\* tokens than MaxConcurrentRPCs, nor fewer than none.
THEOREM ServerTypeOK == Spec => []TypeOK
<1>1. TypeInv /\ ServerInv => TypeOK
  BY DEF TypeInv, TypesOfRun, ServerInv, Counted, TypeOK, Addresses, Places
<1> QED
  BY <1>1, InitTypes, NextTypes, SpecServerInv, PTL DEF Spec

-----------------------------------------------------------------------------
(* The configuration.                                                       *)

\* What loads is what the flags and the variables say, validated.
LEMMA LoadedIsEffective ==
  ASSUME NEW d \in Drivers, NEW l, Load(d, l) # Rejected
  PROVE  /\ Load(d, l) = Effective(d, l)
         /\ ValidateTransport(Effective(d, l))
BY DEF Load, KubeVirtLoad, EC2Load, Drivers, LoadTransportConfig

\* Plaintext is asked for, or the certificate matches, whatever the line.
LEMMA LoadedIsProtected ==
  ASSUME NEW d \in Drivers, NEW l, Load(d, l) # Rejected
  PROVE  InsecureAsked(l) \/ Protected(Load(d, l))
<1> DEFINE e == Effective(d, l)
<1>1. Load(d, l) = e /\ ValidateTransport(e)
  BY LoadedIsEffective
<1>2. CASE e["insecure"] # "true"
  BY <1>1, <1>2 DEF ValidateTransport, Protected
<1>3. CASE e["insecure"] = "true"
  <2>1. "insecure" \in Settings /\ Default(d)["insecure"] = "false"
    BY DEF Settings, Default
  <2>2. e["insecure"] = IF l.flag["insecure"] # Unset THEN l.flag["insecure"]
                        ELSE IF FromEnvironment(l, "insecure") THEN l.env["insecure"] ELSE "false"
    BY <2>1 DEF Effective
  <2> QED
    BY <1>3, <2>2 DEF InsecureAsked, FromEnvironment
<1> QED
  BY <1>2, <1>3

LEMMA SpecTypeInv == Spec => []TypeInv
BY InitTypes, NextTypes, PTL DEF Spec

\* A driver that starts without --insecure or its variable speaks https with a
\* certificate its CA vouches for, whatever else its line says.
THEOREM PlaintextIsAskedFor == Spec => []PlaintextOnlyWhenAsked
<1>1. TypeInv => PlaintextOnlyWhenAsked
  BY LoadedIsProtected DEF TypeInv, TypesOfRun, PlaintextOnlyWhenAsked, LoadsTo
<1> QED
  BY <1>1, SpecTypeInv, PTL
===============================================================================
