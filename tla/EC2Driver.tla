------------------------------ MODULE EC2Driver ------------------------------
(***************************************************************************)
(* The EC2 driver: the RPC handlers of drivers/ec2/driver.go and the       *)
(* reconciler of drivers/ec2/watcher.go, all running at once over one      *)
(* registry and one AWS account.                                           *)
(*                                                                         *)
(* A step is one critical section of the registry or one AWS call, as in   *)
(* KubeVirtDriver.  Unlike that driver this one updates and deletes by     *)
(* sandbox ID alone: no section compares leases or instances.              *)
(***************************************************************************)
EXTENDS Safeguards

CONSTANTS Creates,       \* concurrent CreateSandbox calls
          Rpcs,          \* concurrent Get/Stop/DeleteSandbox calls
          SharedNames,   \* sets of sandboxes that carry the same name
          SandboxOf,     \* the sandbox an instance is tagged with
          Tokens,        \* the client tokens, hashes of the sandbox tokens
          Ops,           \* the calls clients make besides CreateSandbox
          InstanceEvents,\* the state changes nobody asked for, <<from, to>>
          Leftovers,     \* what may exist in AWS when the driver starts
          ListsLag,      \* DescribeInstances may miss a new instance for a while
          MaxReserve,    \* bound: no reservation once this lease is out
          MaxRequest,    \* bound: no other request once this lease is out
          MaxNow,        \* bound of the clock
          MaxRestarts,   \* bound of crashes
          Watching       \* bound: FALSE keeps to what happens between two polls

ASSUME CallsAreFinite == IsFiniteSet(Creates) /\ IsFiniteSet(Rpcs)
ASSUME NamesAreShared == SharedNames \subseteq SUBSET Sandboxes
ASSUME InstancesAreTagged == SandboxOf \in [Instances -> Sandboxes]
ASSUME TokensExist == Tokens # {}
ASSUME OpsAreKnown == Ops \subseteq {"get", "stop", "delete"}
ASSUME BoundsAreNumbers == /\ MaxReserve \in Nat /\ MaxRequest \in Nat /\ MaxNow \in Nat /\ MaxRestarts \in Nat
                           /\ Watching \in BOOLEAN /\ ListsLag \in BOOLEAN

VARIABLES records,    \* Registry.records
          nextLease,  \* Registry.nextLease
          published,  \* the last event broadcast about a sandbox
          instances,  \* the EC2 instances of this gateway
          now,        \* the clock
          create,     \* the CreateSandbox calls in progress
          rpc,        \* the Get/Stop/DeleteSandbox calls in progress
          poll,       \* the reconciliation in progress
          serving,    \* the gRPC server accepts calls
          restarts,   \* crashes so far
          absentRun   \* history: complete polls in a row that did not list a sandbox

registry == <<records, nextLease>>
vars == <<records, nextLease, published, instances, now, create, rpc, poll, serving, restarts,
          absentRun>>

missingPollThreshold == 3

\* The clock starts late enough for "now minus the maximum age" to be a time.
Start == MaxInstanceAge + 2

\* An instance ID is never used again: it is unborn, lives, is listed as
\* terminated for about an hour, and is gone.
ListedStates == {"pending", "running", "stopping", "stopped", "shutting-down", "terminated"}
InstanceStates == ListedStates \cup {"unborn", "gone"}
Instance == [state : InstanceStates, createdAt : Nat, token : Tokens, visible : BOOLEAN]
Unborn == [state |-> "unborn", createdAt |-> ZeroTime, token |-> CHOOSE t \in Tokens : TRUE,
           visible |-> FALSE]

ASSUME EnvironmentIsKnown ==
    /\ InstanceEvents \subseteq ListedStates \X ListedStates
    /\ Leftovers \subseteq Instance

States == ListedStates \cup {"launching"}

-----------------------------------------------------------------------------
(* AWS, as the driver uses it.                                              *)

Exists(v) == instances[v].state \in ListedStates

\* TerminateInstances takes all its IDs or, when one is unknown, none.  No
\* ID at all is no call.
Terminated(V) == [v \in Instances |->
                    IF v \in V /\ instances[v].state # "terminated"
                      THEN [instances[v] EXCEPT !.state = "shutting-down"] ELSE instances[v]]
TerminateAccepted(V) == (\A v \in V : Exists(v)) /\ instances' = Terminated(V)

\* The request failed, or it was accepted and the answer was lost.
TerminateFails(V) == UNCHANGED instances \/ TerminateAccepted(V)

StopAccepted(v) ==
    /\ instances[v].state \in {"running", "stopping", "stopped"}
    /\ instances' = IF instances[v].state = "running"
                      THEN [instances EXCEPT ![v].state = "stopping"] ELSE instances

\* DescribeInstances, normalized; an instance without a usable launch time
\* or tag has ZeroTime.
Listed == [v \in Instances |-> IF Exists(v) /\ instances[v].visible THEN instances[v] ELSE Unborn]

-----------------------------------------------------------------------------
(* Threads.                                                                 *)

AnySandbox == CHOOSE s \in Sandboxes : TRUE
IdleCreate == [pc |-> "idle", sandbox |-> AnySandbox, token |-> Unborn.token, lease |-> 0,
               instance |-> NoInstance, state |-> "", createdAt |-> ZeroTime]
IdleRpc == [pc |-> "idle", op |-> "get", target |-> {}, instance |-> NoInstance,
            sandbox |-> AnySandbox, found |-> Unborn]
IdlePoll == [pc |-> "idle", listed |-> [v \in Instances |-> Unborn], todo |-> {}, seen |-> {},
             snap |-> NewRegistry, cur |-> AnySandbox, dups |-> {}]

\* A request names one sandbox by ID, or every sandbox of a name.
Targets == {{s} : s \in Sandboxes} \cup SharedNames

-----------------------------------------------------------------------------
(* CreateSandbox.                                                           *)

\* Reserve drops the lease it is given; the model keeps it for properties.
CreateReserve(c, s, t) ==
    /\ serving
    /\ create[c].pc = "idle"
    /\ nextLease < MaxReserve
    /\ CanReserve(records, s)
    /\ nextLease' = NextLease(nextLease)
    /\ records' = Store(records, s, [NoRecord EXCEPT !.state = "launching", !.createdAt = now],
                        nextLease')
    /\ create' = [create EXCEPT ![c] = [@ EXCEPT !.pc = "reserved", !.sandbox = s, !.token = t,
                                                 !.lease = nextLease', !.createdAt = now]]
    /\ UNCHANGED <<published, instances, now, rpc, poll, serving, restarts, absentRun>>

\* The bootstrap data does not render, or RunInstances fails, for instance
\* because the token was used with other parameters.
CreateLaunchRefused(c) ==
    /\ create[c].pc = "reserved"
    /\ create' = [create EXCEPT ![c].pc = "rollback"]
    /\ UNCHANGED <<registry, published, instances, now, rpc, poll, serving, restarts, absentRun>>

\* What RunInstances may leave: the instance that has the client token, or a
\* new one.  A terminated instance is not returned again.
LaunchResults(c) ==
    LET mine == {v \in Instances : SandboxOf[v] = create[c].sandbox}
        same == {v \in mine : Exists(v) /\ instances[v].token = create[c].token}
    IN IF same # {} THEN {<<v, instances[v]>> : v \in {w \in same : instances[w].state # "terminated"}}
       ELSE {<<v, [state |-> "pending", createdAt |-> now, token |-> create[c].token,
                   visible |-> ~ListsLag]>> : v \in {w \in mine : instances[w].state = "unborn"}}

\* The instance exists; RunInstances has still to return.
CreateLaunch(c) ==
    /\ create[c].pc = "reserved"
    /\ \E r \in LaunchResults(c) :
          /\ instances' = [instances EXCEPT ![r[1]] = r[2]]
          /\ create' = [create EXCEPT ![c] = [@ EXCEPT !.pc = "launched", !.instance = r[1],
                          !.state = r[2].state,
                          !.createdAt = IF r[2].createdAt = ZeroTime THEN create[c].createdAt
                                        ELSE r[2].createdAt]]
    /\ UNCHANGED <<registry, published, now, rpc, poll, serving, restarts, absentRun>>

\* The answer was lost or malformed.
CreateLaunchFails(c) ==
    /\ create[c].pc = "launched"
    /\ create' = [create EXCEPT ![c].pc = "rollback"]
    /\ UNCHANGED <<registry, published, instances, now, rpc, poll, serving, restarts, absentRun>>

\* registry.Update: any record of the sandbox will do.
CommitAllowed(r) == r.lease # 0

CreateCommit(c) ==
    LET s == create[c].sandbox
        ok == CommitAllowed(records[s])
    IN
    /\ create[c].pc = "launched"
    /\ records' = IF ok THEN [records EXCEPT ![s] = [@ EXCEPT !.instance = create[c].instance,
                                                            !.state = create[c].state,
                                                            !.createdAt = create[c].createdAt]]
                        ELSE records
    /\ create' = [create EXCEPT ![c].pc = IF ok THEN "broadcast" ELSE "compensate"]
    /\ UNCHANGED <<nextLease, published, instances, now, rpc, poll, serving, restarts, absentRun>>

\* The record disappeared: terminate the instance; a failure is only logged.
CreateCompensate(c) ==
    /\ create[c].pc = "compensate"
    /\ TerminateFails({create[c].instance})
    /\ create' = [create EXCEPT ![c].pc = "rollback"]
    /\ UNCHANGED <<registry, published, now, rpc, poll, serving, restarts, absentRun>>

\* The deferred Rollback; no event is broadcast.
CreateRollback(c) ==
    /\ create[c].pc = "rollback"
    /\ records' = Rollback(records, create[c].sandbox)
    /\ create' = [create EXCEPT ![c] = IdleCreate]
    /\ UNCHANGED <<nextLease, published, instances, now, rpc, poll, serving, restarts, absentRun>>

CreateBroadcast(c) ==
    /\ create[c].pc = "broadcast"
    /\ published' = [published EXCEPT ![create[c].sandbox] = "sandbox"]
    /\ create' = [create EXCEPT ![c] = IdleCreate]
    /\ UNCHANGED <<registry, instances, now, rpc, poll, serving, restarts, absentRun>>

-----------------------------------------------------------------------------
(* GetSandbox, StopSandbox, DeleteSandbox.                                  *)

RpcStart(p, op, T) ==
    /\ serving
    /\ rpc[p].pc = "idle"
    /\ nextLease < MaxRequest
    /\ rpc' = [rpc EXCEPT ![p] = [@ EXCEPT !.pc = "resolve", !.op = op, !.target = T]]
    /\ UNCHANGED <<registry, published, instances, now, create, poll, serving, restarts, absentRun>>

Return(p) == rpc' = [rpc EXCEPT ![p] = IdleRpc]

\* The sandbox is resolved: GetSandbox returns, the others call AWS.
Resolved(p, s, v) ==
    rpc' = [rpc EXCEPT ![p] = IF rpc[p].op = "get" THEN IdleRpc
                              ELSE [IdleRpc EXCEPT !.pc = "call", !.op = rpc[p].op,
                                                   !.sandbox = s, !.instance = v]]

ResolveRegistry(p) ==
    LET matches == {s \in rpc[p].target : records[s].instance # NoInstance} IN
    /\ rpc[p].pc = "resolve"
    /\ \/ \E s \in matches : matches = {s} /\ Resolved(p, s, records[s].instance)
       \/ Cardinality(matches) > 1 /\ Return(p)
       \/ matches = {} /\ rpc' = [rpc EXCEPT ![p].pc = "list"]
    /\ UNCHANGED <<registry, published, instances, now, create, poll, serving, restarts, absentRun>>

\* List failed, found nothing (DeleteSandbox then reports success) or found
\* several: the call returns.
ResolveList(p) ==
    LET active == {v \in Instances : /\ SandboxOf[v] \in rpc[p].target
                                     /\ Listed[v].state \notin {"unborn", "terminated"}} IN
    /\ rpc[p].pc = "list"
    /\ \/ Return(p)
       \/ \E v \in active : /\ active = {v}
                            /\ rpc' = [rpc EXCEPT ![p] = [@ EXCEPT !.pc = "add", !.instance = v,
                                           !.sandbox = SandboxOf[v], !.target = {}, !.found = Listed[v]]]
    /\ UNCHANGED <<registry, published, instances, now, create, poll, serving, restarts, absentRun>>

recordFromInstance(v, i) == [NoRecord EXCEPT !.instance = v, !.state = i.state,
                                             !.createdAt = i.createdAt]

\* The error of Add is ignored: the call goes on with what List returned.
ResolveAdd(p) ==
    LET s == rpc[p].sandbox IN
    /\ rpc[p].pc = "add"
    /\ IF CanAdd(records, s)
         THEN /\ nextLease' = NextLease(nextLease)
              /\ records' = Store(records, s, recordFromInstance(rpc[p].instance, rpc[p].found),
                                  nextLease')
         ELSE UNCHANGED registry
    /\ Resolved(p, s, rpc[p].instance)
    /\ UNCHANGED <<published, instances, now, create, poll, serving, restarts, absentRun>>

RpcCall(p) ==
    /\ rpc[p].pc = "call"
    /\ \/ rpc[p].op = "stop" /\ StopAccepted(rpc[p].instance)
       \/ rpc[p].op = "delete" /\ TerminateAccepted({rpc[p].instance})
    /\ rpc' = [rpc EXCEPT ![p].pc = "update"]
    /\ UNCHANGED <<registry, published, now, create, poll, serving, restarts, absentRun>>

RpcCallFails(p) ==
    /\ rpc[p].pc = "call"
    /\ \/ rpc[p].op = "delete" /\ TerminateFails({rpc[p].instance})
       \/ rpc[p].op = "stop" /\ (UNCHANGED instances \/ StopAccepted(rpc[p].instance))
    /\ Return(p)
    /\ UNCHANGED <<registry, published, now, create, poll, serving, restarts, absentRun>>

\* The state a call leaves behind.
RequestedState_KubeVirt(op) == IF op = "stop" THEN "stopping" ELSE "deleting"
RequestedState(op) == IF op = "stop" THEN "stopping" ELSE "shutting-down"

\* Whatever record the sandbox has now gets the state.  Without one, Update
\* returns the zero Record and that is broadcast.
RpcUpdate(p) ==
    LET s == rpc[p].sandbox
        ok == s \in Tracked(records)
    IN
    /\ rpc[p].pc = "update"
    /\ records' = IF ok THEN [records EXCEPT ![s].state = RequestedState(rpc[p].op)] ELSE records
    /\ rpc' = [rpc EXCEPT ![p].pc = IF ok THEN "broadcast" ELSE "blank"]
    /\ UNCHANGED <<nextLease, published, instances, now, create, poll, serving, restarts, absentRun>>

\* A blank event names no sandbox.
RpcBroadcast(p) ==
    /\ rpc[p].pc \in {"broadcast", "blank"}
    /\ published' = IF rpc[p].pc = "blank" THEN published
                    ELSE [published EXCEPT ![rpc[p].sandbox] = "sandbox"]
    /\ Return(p)
    /\ UNCHANGED <<registry, instances, now, create, poll, serving, restarts, absentRun>>

-----------------------------------------------------------------------------
(* poll, the reconciler.  It runs once before the server listens and then   *)
(* periodically, one at a time.                                             *)

\* A failed poll returns early and is retried later.  Before the server
\* listens it ends the process instead, and a new one starts from nothing.
PollReturnsError ==
    /\ poll' = IdlePoll
    /\ IF serving THEN UNCHANGED <<records, nextLease, published>>
                  ELSE /\ records' = NewRegistry
                       /\ nextLease' = 0
                       /\ published' = [s \in Sandboxes |-> "none"]

Mentions(L, s) == \E v \in Instances : SandboxOf[v] = s /\ L[v].state # "unborn"

PollList_KnownOnly ==
    /\ poll.pc = "idle"
    /\ serving => Watching
    /\ poll' = [poll EXCEPT !.pc = "reconcile", !.listed = Listed,
                            !.todo = {s \in Tracked(records) : Mentions(Listed, s)}]
    /\ UNCHANGED <<registry, published, instances, now, create, rpc, serving, restarts, absentRun>>
\* A List that fails ends the poll before anything changed: a stuttering step.
PollList ==
    /\ poll.pc = "idle"
    /\ serving => Watching
    /\ poll' = [poll EXCEPT !.pc = "reconcile", !.listed = Listed,
                            !.todo = {s \in Sandboxes : Mentions(Listed, s)}]
    /\ UNCHANGED <<registry, published, instances, now, create, rpc, serving, restarts, absentRun>>

Matches(s) == {v \in Instances : SandboxOf[v] = s /\ poll.listed[v].state # "unborn"}

\* The order of the sort: creation time, then ID.
Before(v, w) == \/ poll.listed[v].createdAt < poll.listed[w].createdAt
                \/ poll.listed[v].createdAt = poll.listed[w].createdAt /\ v <= w

\* matches[0]: the oldest, in whatever state it is.
Keeper(s) == CHOOSE v \in Matches(s) : \A w \in Matches(s) : Before(v, w)

Duplicates_None(s) == {}
Duplicates(s) == {v \in Matches(s) \ {Keeper(s)} : poll.listed[v].state # "terminated"}

PollPick(s) ==
    /\ poll.pc = "reconcile"
    /\ s \in poll.todo
    /\ poll' = [poll EXCEPT !.pc = IF Duplicates(s) = {} THEN "observe" ELSE "duplicates",
                            !.todo = @ \ {s}, !.seen = @ \cup {s}, !.cur = s, !.dups = Duplicates(s)]
    /\ UNCHANGED <<registry, published, instances, now, create, rpc, serving, restarts, absentRun>>

\* One call for all of them; an error ends the poll.
PollTerminateDuplicates ==
    /\ poll.pc = "duplicates"
    /\ \/ /\ TerminateAccepted(poll.dups)
          /\ poll' = [poll EXCEPT !.pc = "observe", !.dups = {}]
          /\ UNCHANGED <<records, nextLease, published>>
       \/ TerminateFails(poll.dups) /\ PollReturnsError
    /\ UNCHANGED <<now, create, rpc, serving, restarts, absentRun>>

\* The keeper is terminated: whatever record the sandbox has is dropped.
PollDrop ==
    LET s == poll.cur IN
    /\ poll.pc = "observe"
    /\ poll.listed[Keeper(s)].state = "terminated"
    /\ records' = Delete(records, s)
    /\ poll' = [poll EXCEPT !.pc = IF s \in Tracked(records) THEN "dropped" ELSE "reconcile"]
    /\ UNCHANGED <<nextLease, published, instances, now, create, rpc, serving, restarts, absentRun>>

NeedsUpdate_KeepsCount(r, v, state) == r.state # state \/ r.instance # v
NeedsUpdate(r, v, state) == r.state # state \/ r.instance # v \/ r.missingPolls # 0

\* registry.Get: unknown sandboxes are recovered, changed ones updated.
PollGet ==
    LET s == poll.cur
        v == Keeper(s)
        r == records[s]
        known == s \in Tracked(records)
        stale == NeedsUpdate(r, v, poll.listed[v].state)
    IN
    /\ poll.pc = "observe"
    /\ poll.listed[v].state # "terminated"
    /\ \/ ~known /\ poll' = [poll EXCEPT !.pc = "add"]
       \/ known /\ stale /\ poll' = [poll EXCEPT !.pc = "update", !.snap[s] = r]
       \/ known /\ ~stale /\ poll' = [poll EXCEPT !.pc = "reconcile"]
    /\ UNCHANGED <<registry, published, instances, now, create, rpc, serving, restarts, absentRun>>

\* An instance without a trustworthy creation time counts as expired.
Recovered(v) ==
    LET r == recordFromInstance(v, poll.listed[v]) IN
    IF r.createdAt = ZeroTime THEN [r EXCEPT !.createdAt = now - MaxInstanceAge - 1] ELSE r

PollAdd ==
    LET s == poll.cur IN
    /\ poll.pc = "add"
    /\ \/ /\ CanAdd(records, s)
          /\ nextLease' = NextLease(nextLease)
          /\ records' = Store(records, s, Recovered(Keeper(s)), nextLease')
          /\ poll' = [poll EXCEPT !.pc = "broadcast"]
          /\ UNCHANGED published
       \/ ~CanAdd(records, s) /\ PollReturnsError
    /\ UNCHANGED <<instances, now, create, rpc, serving, restarts, absentRun>>

Reconciled(cur, v, i) ==
    [cur EXCEPT !.instance = v, !.missingPolls = 0, !.state = i.state,
                !.createdAt = IF @ = ZeroTime THEN i.createdAt ELSE @]

\* The event depends on the record read before, not on what Update found.
PollUpdate ==
    LET s == poll.cur
        v == Keeper(s)
        ok == s \in Tracked(records)
    IN
    /\ poll.pc = "update"
    /\ records' = IF ok THEN [records EXCEPT ![s] = Reconciled(@, v, poll.listed[v])] ELSE records
    /\ poll' = [poll EXCEPT !.pc = IF poll.snap[s].state = poll.listed[v].state THEN "reconcile"
                                   ELSE IF ok THEN "broadcast" ELSE "blank",
                            !.snap[s] = NoRecord]
    /\ UNCHANGED <<nextLease, published, instances, now, create, rpc, serving, restarts, absentRun>>

\* BroadcastSandbox; a blank event names no sandbox.
PollBroadcast ==
    /\ poll.pc \in {"broadcast", "blank", "expireBroadcast", "expireBlank"}
    /\ published' = IF poll.pc \in {"blank", "expireBlank"} THEN published
                    ELSE [published EXCEPT ![poll.cur] = "sandbox"]
    /\ poll' = [poll EXCEPT !.pc = IF @ \in {"broadcast", "blank"} THEN "reconcile" ELSE "expire"]
    /\ UNCHANGED <<registry, instances, now, create, rpc, serving, restarts, absentRun>>

Saturate(n) == IF n > missingPollThreshold THEN missingPollThreshold ELSE n

\* registry.All: committed records the list did not mention.
PollAll ==
    LET missing == {s \in Tracked(records) : records[s].instance # NoInstance /\ s \notin poll.seen} IN
    /\ poll.pc = "reconcile"
    /\ poll.todo = {}
    /\ poll' = [IdlePoll EXCEPT !.pc = "missing", !.todo = missing]
    /\ absentRun' = [s \in Sandboxes |-> IF s \in poll.seen THEN 0 ELSE Saturate(absentRun[s] + 1)]
    /\ UNCHANGED <<registry, published, instances, now, create, rpc, serving, restarts>>

Missed_OnACopy(n) == n
\* The counter is compared with 0 and the threshold only, so it saturates.
Missed(n) == Saturate(n + 1)

PollMissing(s) ==
    LET ok == s \in Tracked(records)
        n == Missed(records[s].missingPolls)
    IN
    /\ poll.pc = "missing"
    /\ s \in poll.todo
    /\ records' = IF ok THEN [records EXCEPT ![s].missingPolls = n] ELSE records
    /\ poll' = [poll EXCEPT !.todo = @ \ {s}, !.cur = s,
                            !.pc = IF ok /\ n >= missingPollThreshold THEN "forget" ELSE "missing"]
    /\ UNCHANGED <<nextLease, published, instances, now, create, rpc, serving, restarts, absentRun>>

PollForget ==
    /\ poll.pc = "forget"
    /\ records' = Delete(records, poll.cur)
    /\ poll' = [poll EXCEPT !.pc = "deleted"]
    /\ UNCHANGED <<nextLease, published, instances, now, create, rpc, serving, restarts, absentRun>>

PollBroadcastDeleted ==
    /\ poll.pc \in {"dropped", "deleted"}
    /\ published' = [published EXCEPT ![poll.cur] = "deleted"]
    /\ poll' = [poll EXCEPT !.pc = IF @ = "dropped" THEN "reconcile" ELSE "missing"]
    /\ UNCHANGED <<registry, instances, now, create, rpc, serving, restarts, absentRun>>

PollExpired ==
    LET expired == {s \in Expired(records, now) : /\ records[s].instance # NoInstance
                                                  /\ records[s].state # "shutting-down"}
    IN
    /\ poll.pc = "missing"
    /\ poll.todo = {}
    /\ poll' = [IdlePoll EXCEPT !.pc = "expire", !.todo = expired,
                                !.snap = [s \in Sandboxes |-> IF s \in expired THEN records[s] ELSE NoRecord]]
    /\ UNCHANGED <<registry, published, instances, now, create, rpc, serving, restarts, absentRun>>

\* A failure leaves the record for the next poll.
PollExpire(s) ==
    LET v == poll.snap[s].instance IN
    /\ poll.pc = "expire"
    /\ s \in poll.todo
    /\ \/ /\ TerminateAccepted({v})
          /\ poll' = [poll EXCEPT !.todo = @ \ {s}, !.cur = s, !.pc = "expireUpdate", !.snap[s] = NoRecord]
       \/ TerminateFails({v}) /\ poll' = [poll EXCEPT !.todo = @ \ {s}, !.snap[s] = NoRecord]
    /\ UNCHANGED <<registry, published, now, create, rpc, serving, restarts, absentRun>>

PollExpireUpdate ==
    LET s == poll.cur
        ok == s \in Tracked(records)
    IN
    /\ poll.pc = "expireUpdate"
    /\ records' = IF ok THEN [records EXCEPT ![s].state = "shutting-down"] ELSE records
    /\ poll' = [poll EXCEPT !.pc = IF ok THEN "expireBroadcast" ELSE "expireBlank"]
    /\ UNCHANGED <<nextLease, published, instances, now, create, rpc, serving, restarts, absentRun>>

\* The first complete poll lets the server listen.
PollDone ==
    /\ poll.pc = "expire"
    /\ poll.todo = {}
    /\ poll' = IdlePoll
    /\ serving' = TRUE
    /\ UNCHANGED <<registry, published, instances, now, create, rpc, restarts, absentRun>>

-----------------------------------------------------------------------------
(* The environment.                                                         *)

\* Instances boot, fail and are shut down by their own timer.
InstanceChanges(v) ==
    /\ \E e \in InstanceEvents : instances[v].state = e[1] /\ instances' = [instances EXCEPT ![v].state = e[2]]
    /\ UNCHANGED <<registry, published, now, create, rpc, poll, serving, restarts, absentRun>>

\* What AWS was asked for happens, and a terminated instance is forgotten.
Settles(v) ==
    /\ \E e \in {<<"stopping", "stopped">>, <<"shutting-down", "terminated">>, <<"terminated", "gone">>} :
          instances[v].state = e[1] /\ instances' = [instances EXCEPT ![v].state = e[2]]
    /\ UNCHANGED <<registry, published, now, create, rpc, poll, serving, restarts, absentRun>>

\* A new instance turns up in DescribeInstances.
Appears(v) ==
    /\ Exists(v)
    /\ ~instances[v].visible
    /\ instances' = [instances EXCEPT ![v].visible = TRUE]
    /\ UNCHANGED <<registry, published, now, create, rpc, poll, serving, restarts, absentRun>>

Tick ==
    /\ now < MaxNow
    /\ now' = now + 1
    /\ UNCHANGED <<registry, published, instances, create, rpc, poll, serving, restarts, absentRun>>

\* The process dies and its successor reconciles before it serves.
Restart ==
    /\ restarts < MaxRestarts
    /\ restarts' = restarts + 1
    /\ records' = NewRegistry
    /\ nextLease' = 0
    /\ published' = [s \in Sandboxes |-> "none"]
    /\ create' = [c \in Creates |-> IdleCreate]
    /\ rpc' = [p \in Rpcs |-> IdleRpc]
    /\ poll' = IdlePoll
    /\ serving' = FALSE
    /\ absentRun' = [s \in Sandboxes |-> 0]
    /\ UNCHANGED <<instances, now>>

-----------------------------------------------------------------------------
\* The process has just started; instances of an earlier life may exist.
Init ==
    /\ records = NewRegistry
    /\ nextLease = 0
    /\ published = [s \in Sandboxes |-> "none"]
    /\ instances \in [Instances -> {Unborn} \cup Leftovers]
    /\ now = Start
    /\ create = [c \in Creates |-> IdleCreate]
    /\ rpc = [p \in Rpcs |-> IdleRpc]
    /\ poll = IdlePoll
    /\ serving = FALSE
    /\ restarts = 0
    /\ absentRun = [s \in Sandboxes |-> 0]

CreateStep(c) ==
    \/ \E s \in Sandboxes, t \in Tokens : CreateReserve(c, s, t)
    \/ CreateLaunchRefused(c) \/ CreateLaunch(c) \/ CreateLaunchFails(c) \/ CreateCommit(c)
    \/ CreateCompensate(c) \/ CreateRollback(c) \/ CreateBroadcast(c)

RpcStep(p) ==
    \/ \E T \in Targets, op \in Ops : RpcStart(p, op, T)
    \/ ResolveRegistry(p) \/ ResolveList(p) \/ ResolveAdd(p)
    \/ RpcCall(p) \/ RpcCallFails(p) \/ RpcUpdate(p) \/ RpcBroadcast(p)

PollStep ==
    \/ PollList \/ PollTerminateDuplicates \/ PollDrop \/ PollGet \/ PollAdd \/ PollUpdate
    \/ PollBroadcast \/ PollAll \/ PollForget \/ PollBroadcastDeleted \/ PollExpired
    \/ PollExpireUpdate \/ PollDone
    \/ \E s \in Sandboxes : PollPick(s) \/ PollMissing(s) \/ PollExpire(s)

Environment == Tick \/ Restart \/ \E v \in Instances : InstanceChanges(v) \/ Settles(v) \/ Appears(v)

Next == \/ \E c \in Creates : CreateStep(c)
        \/ \E p \in Rpcs : RpcStep(p)
        \/ PollStep
        \/ Environment

Spec == Init /\ [][Next]_vars

\* The watcher goroutine keeps polling, handlers run to their end, AWS does
\* what it accepted and lists what it launched, and a call that is retried
\* for ever succeeds in the end.
Fairness ==
    /\ WF_vars(PollStep)
    /\ SF_vars(PollTerminateDuplicates /\ poll'.pc = "observe")
    /\ \A s \in Sandboxes : SF_vars(PollExpire(s) /\ poll'.pc = "expireUpdate")
    /\ \A v \in Instances : WF_vars(Settles(v)) /\ WF_vars(Appears(v))
    /\ \A c \in Creates : WF_vars(create[c].pc # "idle" /\ CreateStep(c))
    /\ \A p \in Rpcs : WF_vars(rpc[p].pc # "idle" /\ RpcStep(p))

FairSpec == Spec /\ Fairness

-----------------------------------------------------------------------------
(* Properties.                                                              *)

CreateCall == [pc : {"idle", "reserved", "launched", "compensate", "rollback", "broadcast"},
               sandbox : Sandboxes, token : Tokens, lease : Nat,
               instance : Instances \cup {NoInstance}, state : ListedStates \cup {""}, createdAt : Nat]
RpcCallState == [pc : {"idle", "resolve", "list", "add", "call", "update", "broadcast", "blank"},
                 op : {"get", "stop", "delete"}, target : SUBSET Sandboxes,
                 instance : Instances \cup {NoInstance}, sandbox : Sandboxes, found : Instance]
PollState == [pc : {"idle", "reconcile", "duplicates", "observe", "dropped", "add", "update",
                    "broadcast", "blank", "missing", "forget", "deleted", "expire",
                    "expireUpdate", "expireBroadcast", "expireBlank"},
              listed : [Instances -> Instance], todo : SUBSET Sandboxes, seen : SUBSET Sandboxes,
              snap : [Sandboxes -> Record(States)], cur : Sandboxes, dups : SUBSET Instances]

\* Every variable keeps its type; in particular a record's state is one that
\* ec2StateToConditionsAt knows.
TypeOK ==
    /\ records \in [Sandboxes -> Record(States)]
    /\ nextLease \in Nat
    /\ published \in [Sandboxes -> {"none", "sandbox", "deleted"}]
    /\ instances \in [Instances -> Instance]
    /\ now \in Nat /\ now >= Start
    /\ create \in [Creates -> CreateCall]
    /\ rpc \in [Rpcs -> RpcCallState]
    /\ poll \in PollState
    /\ serving \in BOOLEAN /\ restarts \in Nat
    /\ absentRun \in [Sandboxes -> 0 .. missingPollThreshold]

\* MissingPolls never runs ahead of the polls that really missed the sandbox,
\* although the count is raised and reset by sandbox ID alone.
MissingPollsAreConsecutive == \A s \in Sandboxes : records[s].missingPolls <= absentRun[s]

\* A committed sandbox leaves the registry of a running driver only after
\* the three latest complete polls did not list it, or because the latest
\* list shows an instance of it terminated.
Releases(s) == records[s].instance # NoInstance /\ records'[s].instance = NoInstance /\ serving'
SeenTerminated(v) == poll.listed[v].state = "terminated"
ReleasedOnlyWhenObserved ==
    [][\A s \in Sandboxes :
         Releases(s) => \/ absentRun[s] = missingPollThreshold
                        \/ \E v \in Instances : SandboxOf[v] = s /\ SeenTerminated(v)]_vars

\* "Startup performs complete, paginated reconciliation before serving
\* requests": when the server begins to listen, also after a crash at any
\* point, every live instance is tracked.  (Lists that lag are excepted.)
Alive(v) == instances[v].state \in {"pending", "running", "stopping", "stopped"}
StartsReconciled ==
    [][~serving /\ serving' =>
         \A v \in Instances : Alive(v) => SandboxOf[v] \in Tracked(records)]_vars

\* The maximum age is enforced: no committed sandbox stays beyond it for
\* ever; its instance is terminated and the slot is released.
ExpiredIsReleased ==
    \A s \in Sandboxes : []<>~(s \in Expired(records, now) /\ records[s].instance # NoInstance)

\* Whatever left an instance behind (a lost answer, a failed compensation, a
\* record dropped by ID, a list that lagged), the reconciler finds it: it is
\* tracked again or it goes away.
LeftoversAreFound ==
    \A v \in Instances : Alive(v) ~> (SandboxOf[v] \in Tracked(records) \/ ~Alive(v))

\* In the end at most one instance per sandbox is left.
DuplicatesAreRemoved ==
    \A v, w \in Instances : v < w /\ SandboxOf[v] = SandboxOf[w] => <>[](~Alive(v) \/ ~Alive(w))

\* "Expired instances remain tracked until termination is accepted and later
\* observed": an expired sandbox is not released by a poll that itself found
\* the instance of the record in another state than terminated.
ExpiredStaysTracked ==
    [][\A s \in Sandboxes :
         Releases(s) /\ s \in Expired(records, now)
         => poll.listed[records[s].instance].state \in {"unborn", "terminated"}]_vars

\* The driver implements the lease registry: it admits creates below the
\* limit only, gives every occupation of a slot a fresh lease, and never
\* changes the lease or loses the instance of an occupied slot, although it
\* writes by sandbox ID.
Slot(r) == [phase |-> IF r.lease = 0 THEN "free"
                      ELSE IF r.instance = NoInstance THEN "reserved" ELSE "bound",
            lease |-> r.lease]
Registry == INSTANCE LeaseRegistry WITH slot <- [s \in Sandboxes |-> Slot(records[s])],
                                        issued <- nextLease
ImplementsLeaseRegistry == Registry!Spec
=============================================================================
