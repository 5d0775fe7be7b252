------------------------------- MODULE Server --------------------------------
(***************************************************************************)
(* The process around a driver: main of both commands, then server.Run of  *)
(* pkg/server with its goroutines (gRPC's Serve, the watcher, the graceful *)
(* stop), the unary calls under the semaphore and the watch streams beside *)
(* it, and the path of the Unix socket, which the process does not own.    *)
(* Startup says how a configuration is loaded, Sizing how a request is     *)
(* sized; what else a handler does is the subject of the driver modules.   *)
(***************************************************************************)
EXTENDS Startup, Sizing

CONSTANTS Calls,              \* unary calls
          Streams,            \* watch streams
          MaxConcurrentRPCs,
          MaxStarts           \* bound of the starts of the process

ASSUME HandlersAreDistinct == Calls \cap Streams = {} /\ IsFiniteSet(Calls)
ASSUME LimitIsPositive == MaxConcurrentRPCs \in Nat \ {0} /\ MaxStarts \in Nat \ {0}

VARIABLES pc,        \* where main, then Run, is
          driver,    \* the command
          line,      \* what the operator gave it
          address,   \* "": the Unix socket, else the bind address
          path,      \* what is at the path of the socket: "own", the socket of this
                     \* process; "stale", one nobody listens on; "other", another's
          found,     \* what Lstat saw there
          ctx,       \* runCtx: live, or the cause it ended with
          runErr,    \* the error Run is going to return
          serve,     \* Serve, and what it left in serveErr
          watcher,   \* StartWatcher, and what it left in watchErr
          graceful,  \* GracefulStop
          stopped,   \* Stop has closed the transports, which cancels the handlers
          sem,       \* tokens in the semaphore
          call,      \* the calls and the streams
          starts

process == <<found, runErr, serve, watcher, graceful, stopped, sem, call>>
vars == <<pc, driver, line, address, path, found, ctx, runErr, serve, watcher, graceful, stopped, sem, call, starts>>
given == <<driver, line, address, starts>>

Handlers == Calls \cup Streams
Running == {h \in Handlers : call[h] = "running"}
InRun == {"initialize", "listen", "remove", "bind", "select", "drain", "forced"}

Init ==
    /\ \E d \in Drivers : driver = d /\ line \in Lines(d)
    /\ pc = "config" /\ address = "" /\ path = "absent" /\ found = "absent" /\ starts = 1
    /\ ctx = "live" /\ runErr = "nil" /\ serve = "none" /\ watcher = "none" /\ graceful = "none"
    /\ stopped = FALSE /\ sem = 0 /\ call = [h \in Handlers |-> "idle"]

-----------------------------------------------------------------------------
(* main, and Run up to its select.                                          *)

\* A configuration that does not load, or a provider that cannot be built
\* from it, ends the command.  The line is not looked at again.
LoadConfig ==
    /\ pc = "config"
    /\ \/ pc' = "exited" /\ UNCHANGED <<address, path>>
       \/ /\ Load(driver, line) # Rejected
          /\ pc' = "initialize" /\ address' = Load(driver, line)["bind-address"]
          /\ path' \in {"absent", "stale", "other", "file"}
    /\ line' = Base(FALSE)
    /\ UNCHANGED <<driver, ctx, starts>> /\ UNCHANGED process

\* Two minutes at most.
Initialize ==
    /\ pc = "initialize"
    /\ \/ pc' = "listen" /\ UNCHANGED runErr
       \/ pc' = "returned" /\ runErr' = "error"
    /\ UNCHANGED <<path, found, ctx, serve, watcher, graceful, stopped, sem, call>> /\ UNCHANGED given

\* A step of listen: what it leaves at the path, and where it goes on.
ListenStep(next, what) ==
    /\ pc' = next /\ path' = what
    /\ runErr' = IF next = "returned" THEN "error" ELSE runErr
    /\ UNCHANGED <<ctx, graceful, stopped, sem, call>> /\ UNCHANGED given

Removable_Any(p) == TRUE
\* Any socket may be removed to make room, also one that is listened on.
Removable(p) == p \in {"stale", "other", "own"}

\* The bind address, else Lstat of the path.
Inspect ==
    /\ pc = "listen"
    /\ \/ address = "loopback" /\ ListenStep("bind", path) /\ UNCHANGED found
       \/ address = "" /\ found' = path /\ ListenStep(IF path = "absent" THEN "bind"
                                                      ELSE IF Removable(path) THEN "remove" ELSE "returned", path)
       \/ ListenStep("returned", path) /\ UNCHANGED found
    /\ UNCHANGED <<serve, watcher>>

Remove ==
    /\ pc = "remove"
    /\ \/ path # "absent" /\ ListenStep("bind", "absent")
       \/ ListenStep("returned", path)
    /\ UNCHANGED <<found, serve, watcher>>

\* Bind, chmod of the Unix socket, and the start of the goroutines.
Listen ==
    /\ pc = "bind" /\ (address = "" => path = "absent")
    /\ ListenStep("select", IF address = "" THEN "own" ELSE path)
    /\ serve' = "running" /\ watcher' = "running" /\ UNCHANGED found

\* A bind that fails leaves the path, a chmod that fails does not.
ListenFails ==
    /\ pc = "bind"
    /\ \/ ListenStep("returned", path)
       \/ address = "" /\ path = "absent" /\ ListenStep("returned", "absent")
    /\ UNCHANGED <<found, serve, watcher>>

-----------------------------------------------------------------------------
(* The end of Run.                                                          *)

\* The select has an outcome: the workers are cancelled (WorkersCancelled)
\* and GracefulStop is started.
Drain(err) ==
    /\ pc = "select" /\ pc' = "drain" /\ runErr' = err /\ graceful' = "closing"
    /\ UNCHANGED <<path, found, ctx, serve, watcher, stopped, sem, call>> /\ UNCHANGED given

WorkersCancelled == ctx # "live" \/ graceful # "none"

\* With the context still live, that the watcher is gone is an error even if
\* it returned none.
WatchError_AsReturned == IF watcher = "failed" THEN "error" ELSE "nil"
WatchError == IF ctx = "live" THEN "error" ELSE "nil"

\* Serve has returned nil only after GracefulStop, which starts later.
ContextDone == ctx # "live" /\ Drain(ctx)
ServeReturned == serve # "running" /\ Drain("error")
WatcherReturned == watcher # "running" /\ Drain(WatchError)

\* The time for the graceful stop is over.
ForceStop_Waits ==
    /\ pc = "drain" /\ graceful # "done"
    /\ pc' = "forced" /\ UNCHANGED stopped
    /\ UNCHANGED <<path, found, ctx, runErr, serve, watcher, graceful, sem, call>> /\ UNCHANGED given
ForceStop ==
    /\ pc = "drain" /\ graceful # "done"
    /\ pc' = "forced" /\ stopped' = TRUE
    /\ UNCHANGED <<path, found, ctx, runErr, serve, watcher, graceful, sem, call>> /\ UNCHANGED given

StopIsDone_OrForced == graceful = "done" \/ stopped
StopIsDone == graceful = "done"

\* The path is unlinked by name, whatever is there now.
Unlinked(p) == IF address = "" THEN "absent" ELSE p

Return ==
    /\ pc \in {"drain", "forced"} /\ StopIsDone
    /\ pc' = "returned" /\ path' = Unlinked(path)
    /\ runErr' = IF runErr = "canceled" THEN "nil" ELSE runErr
    /\ UNCHANGED <<found, ctx, serve, watcher, graceful, stopped, sem, call>> /\ UNCHANGED given

-----------------------------------------------------------------------------
(* The other goroutines.                                                    *)

\* Serve returns by itself when Accept fails, else when GracefulStop has
\* closed the listener; closing a Unix listener unlinks its path.  Return is
\* followed by the cleanup, which does so again.
ServeEnds ==
    /\ pc \in InRun /\ serve = "running"
    /\ serve' = IF graceful = "none" THEN "failed" ELSE "ended"
    /\ path' = Unlinked(path)
    /\ UNCHANGED <<pc, found, ctx, runErr, watcher, graceful, stopped, sem, call>> /\ UNCHANGED given

\* StartWatcher returns nil when it is cancelled; it may panic, or return,
\* at any time.
WatcherEnds ==
    /\ pc \in InRun /\ watcher = "running" /\ watcher' \in {"ended", "failed"}
    /\ UNCHANGED <<pc, path, found, ctx, runErr, serve, graceful, stopped, sem, call>> /\ UNCHANGED given

GracefulStop ==
    /\ pc \in InRun
    /\ \/ graceful = "closing" /\ serve # "running" /\ graceful' = "draining"
       \/ graceful = "draining" /\ Running = {} /\ graceful' = "done"
    /\ UNCHANGED <<pc, path, found, ctx, runErr, serve, watcher, stopped, sem, call>> /\ UNCHANGED given

\* Connections are kept; one that is told to go away may still open streams
\* until it has answered.
Accepting == pc \in {"select", "drain", "forced"} /\ graceful # "done" /\ ~stopped

HasSlot_OneLess == sem < MaxConcurrentRPCs - 1
HasSlot == sem < MaxConcurrentRPCs

Answer(h, state) == call' = [call EXCEPT ![h] = state]
Aside == UNCHANGED <<pc, path, found, ctx, runErr, serve, watcher, graceful, stopped>> /\ UNCHANGED given

\* unaryLimit.
Admit(c) ==
    /\ Accepting /\ call[c] # "running" /\ HasSlot
    /\ Answer(c, "running") /\ sem' = sem + 1 /\ Aside
Reject(c) ==
    /\ Accepting /\ call[c] = "idle" /\ ~HasSlot
    /\ Answer(c, "rejected") /\ UNCHANGED sem /\ Aside
\* Streams pass streamWarning only.
OpenStream(s) ==
    /\ Accepting /\ call[s] = "idle"
    /\ Answer(s, "running") /\ UNCHANGED sem /\ Aside

Released_Never(h) == sem
Released_Always(h) == sem - 1
Released(h) == IF h \in Calls THEN sem - 1 ELSE sem

\* A watch ends with its client or its transport, or when it falls behind.
HandlerReturns(h) ==
    /\ pc \in InRun /\ call[h] = "running"
    /\ Answer(h, "idle") /\ sem' = Released(h) /\ Aside

-----------------------------------------------------------------------------
(* The environment.                                                         *)

\* A signal or the end of the context of the caller.  The cause a signal
\* leaves is a matter of the Go release: Canceled or an error of its own.
Signal ==
    /\ pc \in InRun /\ ctx = "live" /\ ctx' \in {"canceled", "signal"}
    /\ UNCHANGED <<pc, path>> /\ UNCHANGED process /\ UNCHANGED given

\* The process is killed, or a handler panics: gRPC does not recover it.
Die ==
    /\ pc \in InRun /\ pc' = "dead"
    /\ path' = IF path = "own" THEN "stale" ELSE path
    /\ UNCHANGED ctx /\ UNCHANGED process /\ UNCHANGED given

\* The supervisor of the process starts it again, with the same line.
Restart ==
    /\ pc \in {"dead", "returned"} /\ starts < MaxStarts
    /\ pc' = "initialize" /\ starts' = starts + 1
    /\ ctx' = "live" /\ found' = "absent" /\ runErr' = "nil" /\ serve' = "none" /\ watcher' = "none" /\ graceful' = "none"
    /\ stopped' = FALSE /\ sem' = 0 /\ call' = [h \in Handlers |-> "idle"]
    /\ UNCHANGED <<driver, line, address, path>>

\* Somebody else puts a file or a socket at the path, at any time.
Replace ==
    /\ pc \in InRun /\ path # "file"
    /\ path' \in {"file", "other"}
    /\ UNCHANGED <<pc, ctx>> /\ UNCHANGED process /\ UNCHANGED given

Run == Initialize \/ Inspect \/ Remove \/ ListenFails \/ Listen \/ ContextDone \/ ServeReturned \/ WatcherReturned \/ ForceStop \/ Return

Next ==
    \/ LoadConfig \/ Run \/ ServeEnds \/ WatcherEnds \/ GracefulStop \/ Signal \/ Die \/ Restart \/ Replace
    \/ \E c \in Calls : Admit(c) \/ Reject(c)
    \/ \E s \in Streams : OpenStream(s)
    \/ \E h \in Handlers : HandlerReturns(h)

\* Run and its timers go on, Serve and GracefulStop do once they may; a
\* handler returns for certain only after Stop has cancelled it.
Fairness ==
    /\ WF_vars(Run) /\ WF_vars(GracefulStop) /\ WF_vars(graceful # "none" /\ ServeEnds)
    /\ \A h \in Handlers : WF_vars(stopped /\ HandlerReturns(h))

Spec == Init /\ [][Next]_vars
FairSpec == Spec /\ Fairness

-----------------------------------------------------------------------------
(* Properties.                                                              *)

\* Every variable has a value the code can give it; a token too many or one
\* too few in the semaphore is outside its range.
TypeOK ==
    /\ pc \in {"config", "exited", "returned", "dead"} \cup InRun
    /\ driver \in Drivers
    /\ address \in {"", "loopback", "routable", "malformed"}
    /\ path \in {"absent", "file", "stale", "other", "own"} /\ found \in {"absent", "file", "stale", "other", "own"}
    /\ ctx \in {"live", "canceled", "signal"} /\ runErr \in {"nil", "error", "canceled", "signal"}
    /\ serve \in {"none", "running", "ended", "failed"} /\ watcher \in {"none", "running", "ended", "failed"}
    /\ graceful \in {"none", "closing", "draining", "done"} /\ stopped \in BOOLEAN
    /\ sem \in 0..MaxConcurrentRPCs
    /\ call \in [Handlers -> {"idle", "running", "rejected"}]
    /\ starts \in 1..MaxStarts

\* The semaphore holds one token for every unary handler that runs, on every
\* path out of unaryLimit: no token is lost, none is given back twice, and a
\* stream takes none.
SlotsMatchHandlers == sem = Cardinality(Running \cap Calls)

\* A call is refused with ResourceExhausted only while MaxConcurrentRPCs
\* other handlers run.
RejectedOnlyWhenFull ==
    [][\A c \in Calls : (call[c] # "rejected" /\ call'[c] = "rejected")
                            => Cardinality((Running \cap Calls) \ {c}) = MaxConcurrentRPCs]_vars

\* Run returns only when no handler is left, forced stop or not: main exits
\* then, and would cut a launch in two.
NoHandlerOutlivesRun == pc = "returned" => Running = {}

\* Run returns nil only if it was told to stop: a watcher or a listener that
\* goes away by itself makes the process exit with an error, so that its
\* supervisor starts it again.
CleanOnlyWhenAsked == (pc = "returned" /\ runErr = "nil") => ctx # "live"

\* A start that finds something other than a socket at its path leaves it
\* there, however it ends: only a start that found a socket or nothing unlinks
\* the path, then or when it ends, and does not look again.
ForeignFileKept == [][path = "file" /\ path' # "file" => found # "file"]_vars

\* A signal, the end of the watcher or of Serve always ends Run, open watch
\* streams and calls in flight included.
AlwaysStops ==
    (pc \in InRun /\ (ctx # "live" \/ serve = "failed" \/ watcher \in {"ended", "failed"}))
        ~> pc \notin InRun

LoadsTo(c) == pc = "config" /\ c # Rejected

\* The supervisor talks plaintext to the gateway only when --insecure or its
\* variable says so; otherwise the driver starts only with a client
\* certificate that its CA vouches for.
PlaintextOnlyWhenAsked ==
    LET c == Load(driver, line)
    IN  LoadsTo(c) => InsecureAsked(line) \/ Protected(c)

\* A driver that serves launches the smallest type of its catalog that holds
\* what was asked for, however that was written, and refuses only what no type
\* holds.
SizedToFit == pc = "select" => ChosenHoldsRequest /\ SmallestFootprint /\ SpellingIsIrrelevant
===============================================================================
