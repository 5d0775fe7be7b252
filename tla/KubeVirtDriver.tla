--------------------------- MODULE KubeVirtDriver ---------------------------
(***************************************************************************)
(* The KubeVirt driver: the RPC handlers of drivers/kubevirt/driver.go and *)
(* the reconciler of drivers/kubevirt/watcher.go, all running at once over *)
(* one registry and one Kubernetes API.                                    *)
(*                                                                         *)
(* A step is one critical section of the registry or one provider call;    *)
(* whatever a handler read before a step may be stale when it uses it.  A  *)
(* provider call takes effect in its step and returns in the same step,    *)
(* except Launch, whose VM is visible to everyone before Launch returns    *)
(* and may appear long after Launch, or the process that made the call,    *)
(* is gone.  Every provider call may fail, with or without its effect.     *)
(***************************************************************************)
EXTENDS Safeguards

CONSTANTS Creates,       \* concurrent CreateSandbox calls
          Rpcs,          \* concurrent Get/Stop/DeleteSandbox calls
          SharedNames,   \* sets of sandboxes that carry the same name
          SandboxOf,     \* the sandbox a VM is annotated with
          VMName,        \* the deterministic VM name of a sandbox
          Ops,           \* the calls clients make besides CreateSandbox
          VMEvents,      \* the VM state changes nobody asked for, <<from, to>>
          Leftovers,     \* what may exist in the cluster when the driver starts
          MaxReserve,    \* bound: no reservation once this lease is out
          MaxNow,        \* bound of the clock
          MaxRestarts,   \* bound of crashes
          MaxLate,       \* bound of the VM creates on their way without an answer
          Watching       \* bound: FALSE keeps to what happens between two polls

ASSUME CallsAreFinite == IsFiniteSet(Creates) /\ IsFiniteSet(Rpcs)
ASSUME NamesAreShared == SharedNames \subseteq SUBSET Sandboxes
ASSUME VMsAreAnnotated == /\ SandboxOf \in [Instances -> Sandboxes]
                          /\ VMName \in [Sandboxes -> Instances]
                          /\ \A s \in Sandboxes : SandboxOf[VMName[s]] = s
ASSUME OpsAreKnown == Ops \subseteq {"get", "stop", "delete"}
ASSUME BoundsAreNumbers == MaxReserve \in Nat /\ MaxNow \in Nat /\ MaxRestarts \in Nat
                           /\ MaxLate \in Nat /\ Watching \in BOOLEAN

VARIABLES records,    \* Registry.records
          nextLease,  \* Registry.nextLease
          published,  \* the last event broadcast about a sandbox
          vms,        \* the VirtualMachine resources of the cluster
          now,        \* the clock
          create,     \* the CreateSandbox calls in progress
          rpc,        \* the Get/Stop/DeleteSandbox calls in progress
          poll,       \* the reconciliation in progress
          serving,    \* the gRPC server accepts calls
          restarts,   \* crashes so far
          late,       \* VM creates without an answer that the API server may still apply
          \* History variables: nothing reads them but properties.
          tombstoned, \* leases of creates in flight whose deletion was acknowledged
          absentRun,  \* complete polls in a row that did not list a sandbox
          excused     \* VMs left behind by a call that reported a failure, made
                      \* late, or forgotten by a poll that raced with their launch

registry == <<records, nextLease>>
history == <<tombstoned, absentRun, excused>>
vars == <<records, nextLease, published, vms, now, create, rpc, poll, serving, restarts, late,
          tombstoned, absentRun, excused>>

missingPollThreshold == 3

\* The clock starts late enough for "now minus the maximum age" to be a time.
Start == MaxInstanceAge + 2

\* What normalizeVM can report.  Failed stands for Succeeded too, Starting
\* for every state before Running.
VMStates == {"Absent", "Starting", "Running", "Failed", "Stopped", "Terminating"}
VM == [state : VMStates, createdAt : Nat]
NoVM == [state |-> "Absent", createdAt |-> ZeroTime]

ASSUME EnvironmentIsKnown ==
    /\ VMEvents \subseteq (VMStates \ {"Absent"}) \X (VMStates \ {"Absent"})
    /\ Leftovers \subseteq VM

States == VMStates \cup {"launching", "delete-requested", "stopping", "deleting"}

-----------------------------------------------------------------------------
(* The provider, as the driver uses it.                                     *)

Exists(V, v) == V[v].state # "Absent"

\* Terminate is idempotent; the VM lingers as Terminating until its
\* finalizers are done.
Terminate(V, v) == IF Exists(V, v) THEN [V EXCEPT ![v].state = "Terminating"] ELSE V

-----------------------------------------------------------------------------
(* Threads.                                                                 *)

IdleCreate == [pc |-> "idle", sandbox |-> CHOOSE s \in Sandboxes : TRUE, lease |-> 0, vm |-> NoVM]
NoScan == [s \in Sandboxes |-> 0]
IdleRpc == [pc |-> "idle", op |-> "get", target |-> {}, instance |-> NoInstance,
            sandbox |-> CHOOSE s \in Sandboxes : TRUE, found |-> NoVM, scan |-> NoScan]
IdlePoll == [pc |-> "idle", listed |-> [v \in Instances |-> NoVM], todo |-> {}, seen |-> {},
             snap |-> NewRegistry, cur |-> CHOOSE s \in Sandboxes : TRUE, dups |-> {}]

Inflight == {"reserved", "launched", "compensate", "rollback"}

\* A request names one sandbox by ID, or every sandbox of a name.
Targets == {{s} : s \in Sandboxes} \cup SharedNames

-----------------------------------------------------------------------------
(* CreateSandbox.                                                           *)

\* Validation and instance-type selection change nothing and are left out.
CreateReserve(c, s) ==
    /\ serving
    /\ create[c].pc = "idle"
    /\ nextLease < MaxReserve
    /\ CanReserve(records, s)
    /\ nextLease' = NextLease(nextLease)
    /\ records' = Store(records, s, [NoRecord EXCEPT !.state = "launching", !.createdAt = now],
                        nextLease')
    /\ create' = [create EXCEPT ![c] = [pc |-> "reserved", sandbox |-> s, lease |-> nextLease',
                                        vm |-> [NoVM EXCEPT !.createdAt = now]]]
    /\ UNCHANGED <<published, vms, now, rpc, poll, serving, restarts, late, history>>

\* The bootstrap data does not render, or Launch fails before it made a VM:
\* the API refused, or a VM of a different request has the name.
CreateLaunchRefused(c) ==
    /\ create[c].pc = "reserved"
    /\ create' = [create EXCEPT ![c].pc = "rollback"]
    /\ UNCHANGED <<registry, published, vms, now, rpc, poll, serving, restarts, late, history>>

\* The request digest covers the expiry time, so a VM that exists belongs to
\* the same request only if both were made at the same time.
LaunchResult(c) ==
    LET v == VMName[create[c].sandbox]
        new == [create[c].vm EXCEPT !.state = "Starting"]
    IN IF Exists(vms, v) THEN {vms[v]} \cap [state : VMStates, createdAt : {new.createdAt}] ELSE {new}

\* The VM is created, or found from an earlier attempt of the same request;
\* Launch has still to attach the Secret and return.
CreateLaunch(c) ==
    LET v == VMName[create[c].sandbox] IN
    /\ create[c].pc = "reserved"
    /\ \E vm \in LaunchResult(c) :
          /\ vms' = [vms EXCEPT ![v] = vm]
          /\ create' = [create EXCEPT ![c] = [@ EXCEPT !.pc = "launched", !.vm = vm]]
    /\ excused' = excused \ {v}
    /\ UNCHANGED <<registry, published, now, rpc, poll, serving, restarts, late, tombstoned, absentRun>>

\* The create of the VM timed out and the VM is not there: Launch tries again
\* or gives up, and the API server may apply the create at any time.
CreateUnanswered(c) ==
    /\ create[c].pc = "reserved"
    /\ Cardinality(late) < MaxLate
    /\ late' = late \cup {[vm |-> VMName[create[c].sandbox], createdAt |-> create[c].vm.createdAt]}
    /\ UNCHANGED <<registry, published, vms, now, create, rpc, poll, serving, restarts, history>>

\* Launch reports an error although the VM was created: the answer was lost,
\* or the Secret could not be attached and Launch terminated the VM itself.
CreateLaunchFails(c) ==
    LET v == VMName[create[c].sandbox] IN
    /\ create[c].pc = "launched"
    /\ \/ vms' = Terminate(vms, v) /\ UNCHANGED excused
       \/ excused' = excused \cup {v} /\ UNCHANGED vms
    /\ create' = [create EXCEPT ![c].pc = "rollback"]
    /\ UNCHANGED <<registry, published, now, rpc, poll, serving, restarts, late, tombstoned, absentRun>>

CommitAllowed_AnyLease(r, lease) == r.lease # 0 /\ r.state \notin {"delete-requested", "deleting", "stopping"}
CommitAllowed(r, lease) ==
    /\ r.lease = lease
    /\ r.state \notin {"delete-requested", "deleting", "stopping"}

CreateCommit(c) ==
    LET s == create[c].sandbox
        ok == CommitAllowed(records[s], create[c].lease)
    IN
    /\ create[c].pc = "launched"
    /\ records' = IF ok THEN [records EXCEPT ![s] = [@ EXCEPT !.instance = VMName[s],
                                                            !.state = create[c].vm.state,
                                                            !.createdAt = create[c].vm.createdAt]]
                        ELSE records
    /\ create' = [create EXCEPT ![c].pc = IF ok THEN "broadcast" ELSE "compensate"]
    /\ UNCHANGED <<nextLease, published, vms, now, rpc, poll, serving, restarts, late, history>>

CreateCompensate_Skipped(c) ==
    /\ create[c].pc = "compensate"
    /\ create' = [create EXCEPT ![c].pc = "rollback"]
    /\ UNCHANGED <<registry, published, vms, now, rpc, poll, serving, restarts, late, history>>
\* The commit was refused: terminate the VM; a failure is only logged.
CreateCompensate(c) ==
    LET v == VMName[create[c].sandbox] IN
    /\ create[c].pc = "compensate"
    /\ \/ vms' = Terminate(vms, v) /\ UNCHANGED excused
       \/ excused' = excused \cup {v} /\ vms' \in {vms, Terminate(vms, v)}
    /\ create' = [create EXCEPT ![c].pc = "rollback"]
    /\ UNCHANGED <<registry, published, now, rpc, poll, serving, restarts, late, tombstoned, absentRun>>

\* The deferred Rollback; no event is broadcast.
CreateRollback(c) ==
    /\ create[c].pc = "rollback"
    /\ records' = Rollback(records, create[c].sandbox)
    /\ tombstoned' = tombstoned \ {create[c].lease}
    /\ create' = [create EXCEPT ![c] = IdleCreate]
    /\ UNCHANGED <<nextLease, published, vms, now, rpc, poll, serving, restarts, late, absentRun, excused>>

CreateBroadcast(c) ==
    /\ create[c].pc = "broadcast"
    /\ published' = [published EXCEPT ![create[c].sandbox] = "sandbox"]
    /\ tombstoned' = tombstoned \ {create[c].lease}
    /\ create' = [create EXCEPT ![c] = IdleCreate]
    /\ UNCHANGED <<registry, vms, now, rpc, poll, serving, restarts, late, absentRun, excused>>

-----------------------------------------------------------------------------
(* GetSandbox, StopSandbox, DeleteSandbox.                                  *)

Launching(r) == r.lease # 0 /\ r.instance = NoInstance /\ r.state = "launching"

\* markLaunchingDeletion first copies the reservations it may mark.
DeleteScan(p, T) ==
    LET scan == [s \in Sandboxes |-> IF s \in T /\ records[s].instance = NoInstance
                                       THEN records[s].lease ELSE 0]
    IN
    /\ serving
    /\ "delete" \in Ops
    /\ rpc[p].pc = "idle"
    /\ rpc' = [rpc EXCEPT ![p] = [@ EXCEPT !.pc = IF scan = NoScan THEN "resolve" ELSE "mark",
                                           !.op = "delete", !.target = T, !.scan = scan]]
    /\ UNCHANGED <<registry, published, vms, now, create, poll, serving, restarts, late, history>>

\* A sandbox whose launch is still in flight is marked, and the call is done.
DeleteMark(p, s) ==
    /\ rpc[p].pc = "mark"
    /\ rpc[p].scan[s] # 0
    /\ Launching(records[s])
    /\ records[s].lease = rpc[p].scan[s]
    /\ records' = [records EXCEPT ![s].state = "delete-requested"]
    /\ rpc' = [rpc EXCEPT ![p] = [IdleRpc EXCEPT !.pc = "marked", !.op = "delete", !.sandbox = s]]
    /\ tombstoned' = tombstoned \cup {records[s].lease}
    /\ UNCHANGED <<nextLease, published, vms, now, create, poll, serving, restarts, late, absentRun,
                   excused>>

\* What was copied is stale; without another candidate the call goes on.
DeletePass(p, s) ==
    LET scan == [rpc[p].scan EXCEPT ![s] = 0] IN
    /\ rpc[p].pc = "mark"
    /\ rpc[p].scan[s] # 0
    /\ ~(Launching(records[s]) /\ records[s].lease = rpc[p].scan[s])
    /\ rpc' = [rpc EXCEPT ![p] = [@ EXCEPT !.pc = IF scan = NoScan THEN "resolve" ELSE "mark",
                                           !.scan = scan]]
    /\ UNCHANGED <<registry, published, vms, now, create, poll, serving, restarts, late, history>>

RpcStart(p, op, T) ==
    /\ serving
    /\ rpc[p].pc = "idle"
    /\ rpc' = [rpc EXCEPT ![p] = [@ EXCEPT !.pc = "resolve", !.op = op, !.target = T]]
    /\ UNCHANGED <<registry, published, vms, now, create, poll, serving, restarts, late, history>>

Return(p) == rpc' = [rpc EXCEPT ![p] = IdleRpc]

\* The sandbox is resolved: GetSandbox returns, the others call the provider.
Resolved(p, s, v) ==
    rpc' = [rpc EXCEPT ![p] = IF rpc[p].op = "get" THEN IdleRpc
                              ELSE [rpc[p] EXCEPT !.pc = "call", !.sandbox = s, !.instance = v,
                                                  !.found = NoVM, !.target = {}]]

ResolveRegistry(p) ==
    LET matches == {s \in rpc[p].target : records[s].instance # NoInstance} IN
    /\ rpc[p].pc = "resolve"
    /\ \/ \E s \in matches : matches = {s} /\ Resolved(p, s, records[s].instance)
       \/ Cardinality(matches) > 1 /\ Return(p)
       \/ matches = {} /\ rpc' = [rpc EXCEPT ![p].pc = "list"]
    /\ UNCHANGED <<registry, published, vms, now, create, poll, serving, restarts, late, history>>

\* List failed, found nothing or found several: the call returns an error.
ResolveList(p) ==
    LET active == {v \in Instances : SandboxOf[v] \in rpc[p].target /\ Exists(vms, v)} IN
    /\ rpc[p].pc = "list"
    /\ \/ Return(p)
       \/ \E v \in active : /\ active = {v}
                            /\ rpc' = [rpc EXCEPT ![p] = [@ EXCEPT !.pc = "add", !.instance = v,
                                           !.sandbox = SandboxOf[v], !.target = {}, !.found = vms[v]]]
    /\ UNCHANGED <<registry, published, vms, now, create, poll, serving, restarts, late, history>>

recordFromInstance(v, vm) == [NoRecord EXCEPT !.instance = v, !.state = vm.state,
                                              !.createdAt = vm.createdAt]

ResolveAdd(p) ==
    LET s == rpc[p].sandbox IN
    /\ rpc[p].pc = "add"
    /\ \/ /\ CanAdd(records, s)
          /\ nextLease' = NextLease(nextLease)
          /\ records' = Store(records, s, recordFromInstance(rpc[p].instance, rpc[p].found), nextLease')
          /\ excused' = excused \ {rpc[p].instance}
          /\ Resolved(p, s, rpc[p].instance)
       \/ /\ ~CanAdd(records, s)
          /\ rpc' = [rpc EXCEPT ![p].pc = "adopt"]
          /\ UNCHANGED <<registry, excused>>
    /\ UNCHANGED <<published, vms, now, create, poll, serving, restarts, late, tombstoned, absentRun>>

ResolveAdopt(p) ==
    LET s == rpc[p].sandbox IN
    /\ rpc[p].pc = "adopt"
    /\ \/ /\ Launching(records[s])
          /\ records' = [records EXCEPT ![s] = [@ EXCEPT !.instance = rpc[p].instance,
                                                         !.state = rpc[p].found.state,
                                                         !.createdAt = rpc[p].found.createdAt]]
          /\ excused' = excused \ {rpc[p].instance}
          /\ Resolved(p, s, rpc[p].instance)
       \/ /\ ~Launching(records[s])
          /\ rpc' = [rpc EXCEPT ![p].pc = "reread"]
          /\ UNCHANGED <<records, excused>>
    /\ UNCHANGED <<nextLease, published, vms, now, create, poll, serving, restarts, late, tombstoned, absentRun>>

ResolveReread(p) ==
    LET s == rpc[p].sandbox IN
    /\ rpc[p].pc = "reread"
    /\ IF records[s].instance # NoInstance THEN Resolved(p, s, records[s].instance) ELSE Return(p)
    /\ UNCHANGED <<registry, published, vms, now, create, poll, serving, restarts, late, history>>

\* provider.Stop or provider.Terminate accepted the request.  Stop only asks
\* for the run strategy Halted; the VM stops later (VMEvents).
RpcCall(p) ==
    LET v == rpc[p].instance IN
    /\ rpc[p].pc = "call"
    /\ \/ rpc[p].op = "stop" /\ Exists(vms, v) /\ UNCHANGED vms
       \/ rpc[p].op = "delete" /\ vms' = Terminate(vms, v)
    /\ rpc' = [rpc EXCEPT ![p].pc = "update"]
    /\ UNCHANGED <<registry, published, now, create, poll, serving, restarts, late, history>>

\* The provider call failed; Terminate may have deleted the VM and failed on
\* the DataVolume or the Secret.
RpcCallFails(p) ==
    /\ rpc[p].pc = "call"
    /\ \/ UNCHANGED vms
       \/ rpc[p].op = "delete" /\ vms' = Terminate(vms, rpc[p].instance)
    /\ Return(p)
    /\ UNCHANGED <<registry, published, now, create, poll, serving, restarts, late, history>>

\* The state a call leaves behind.
RequestedState_EC2(op) == IF op = "stop" THEN "stopping" ELSE "shutting-down"
RequestedState(op) == IF op = "stop" THEN "stopping" ELSE "deleting"

RpcUpdate(p) ==
    LET s == rpc[p].sandbox
        ok == records[s].instance = rpc[p].instance
        state == RequestedState(rpc[p].op)
    IN
    /\ rpc[p].pc = "update"
    /\ records' = IF ok THEN [records EXCEPT ![s].state = state] ELSE records
    /\ IF ok THEN rpc' = [rpc EXCEPT ![p].pc = "broadcast"] ELSE Return(p)
    /\ UNCHANGED <<nextLease, published, vms, now, create, poll, serving, restarts, late, history>>

RpcBroadcast(p) ==
    /\ rpc[p].pc \in {"marked", "broadcast"}
    /\ published' = [published EXCEPT ![rpc[p].sandbox] = "sandbox"]
    /\ Return(p)
    /\ UNCHANGED <<registry, vms, now, create, poll, serving, restarts, late, history>>

-----------------------------------------------------------------------------
(* poll, the reconciler.  It runs once before the server listens and then   *)
(* periodically, one at a time.                                             *)

\* A failed poll returns early and is retried later.  Before the server
\* listens it ends the process instead, and a new one starts from nothing.
PollReturnsError ==
    /\ poll' = IdlePoll
    /\ IF serving THEN UNCHANGED <<records, nextLease, published>>
                  ELSE /\ records' = NewRegistry
                       /\ nextLease' = 0
                       /\ published' = [s \in Sandboxes |-> "none"]

PollList_KnownOnly ==
    /\ poll.pc = "idle"
    /\ serving => Watching
    /\ poll' = [poll EXCEPT !.pc = "reconcile", !.listed = vms,
                            !.todo = {s \in Tracked(records) : \E v \in Instances :
                                        SandboxOf[v] = s /\ Exists(vms, v)}]
    /\ UNCHANGED <<registry, published, vms, now, create, rpc, serving, restarts, late, history>>
\* A List that fails ends the poll before anything changed: a stuttering step.
PollList ==
    /\ poll.pc = "idle"
    /\ serving => Watching
    /\ poll' = [poll EXCEPT !.pc = "reconcile", !.listed = vms,
                            !.todo = {s \in Sandboxes : \E v \in Instances :
                                        SandboxOf[v] = s /\ Exists(vms, v)}]
    /\ UNCHANGED <<registry, published, vms, now, create, rpc, serving, restarts, late, history>>

Live(s) == {v \in Instances : SandboxOf[v] = s /\ Exists(poll.listed, v)}

\* The order of the sort: creation time, then name.
Before(v, w) == \/ poll.listed[v].createdAt < poll.listed[w].createdAt
                \/ poll.listed[v].createdAt = poll.listed[w].createdAt /\ v <= w

Keeper(s) ==
    LET healthy == {v \in Live(s) : poll.listed[v].state # "Failed"}
        pool == IF healthy # {} THEN healthy ELSE Live(s)
    IN CHOOSE v \in pool : \A w \in pool : Before(v, w)

PollPick_KeepsAll(s) ==
    /\ poll.pc = "reconcile"
    /\ s \in poll.todo
    /\ poll' = [poll EXCEPT !.pc = "duplicates", !.todo = @ \ {s}, !.seen = @ \cup {s}, !.cur = s]
    /\ UNCHANGED <<registry, published, vms, now, create, rpc, serving, restarts, late, history>>
PollPick(s) ==
    /\ poll.pc = "reconcile"
    /\ s \in poll.todo
    /\ poll' = [poll EXCEPT !.pc = "duplicates", !.todo = @ \ {s}, !.seen = @ \cup {s},
                            !.cur = s, !.dups = Live(s) \ {Keeper(s)}]
    /\ UNCHANGED <<registry, published, vms, now, create, rpc, serving, restarts, late, history>>

PollTerminateDuplicate(v) ==
    /\ poll.pc = "duplicates"
    /\ v \in poll.dups
    /\ \/ /\ vms' = Terminate(vms, v)
          /\ poll' = [poll EXCEPT !.dups = @ \ {v}]
          /\ UNCHANGED <<records, nextLease, published>>
       \/ vms' \in {vms, Terminate(vms, v)} /\ PollReturnsError
    /\ UNCHANGED <<now, create, rpc, serving, restarts, late, history>>

ObservedState(r, state) ==
    IF r.state \in {"deleting", "stopping"} /\ state = "Running" THEN r.state ELSE state

NeedsUpdate(r, v, state) ==
    \/ r.state # ObservedState(r, state)
    \/ r.instance # v
    \/ r.missingPolls # 0

\* registry.Get: unknown sandboxes are recovered, changed ones updated.
PollGet ==
    LET s == poll.cur
        v == Keeper(s)
        r == records[s]
        known == s \in Tracked(records)
    IN
    /\ poll.pc = "duplicates"
    /\ poll.dups = {}
    /\ \/ ~known /\ poll' = [poll EXCEPT !.pc = "add"]
       \/ /\ known /\ NeedsUpdate(r, v, poll.listed[v].state)
          /\ poll' = [poll EXCEPT !.pc = "update", !.snap[s] = r]
       \/ /\ known /\ ~NeedsUpdate(r, v, poll.listed[v].state)
          /\ poll' = [poll EXCEPT !.pc = "reconcile"]
    /\ UNCHANGED <<registry, published, vms, now, create, rpc, serving, restarts, late, history>>

Recovered_TrustsTime(v) == recordFromInstance(v, poll.listed[v])
\* A VM without a trustworthy creation time counts as expired.
Recovered(v) ==
    LET r == recordFromInstance(v, poll.listed[v]) IN
    IF r.createdAt = ZeroTime THEN [r EXCEPT !.createdAt = now - MaxInstanceAge - 1] ELSE r

PollAdd ==
    LET s == poll.cur IN
    /\ poll.pc = "add"
    /\ \/ /\ CanAdd(records, s)
          /\ nextLease' = NextLease(nextLease)
          /\ records' = Store(records, s, Recovered(Keeper(s)), nextLease')
          /\ excused' = excused \ {Keeper(s)}
          /\ poll' = [poll EXCEPT !.pc = "broadcast"]
          /\ UNCHANGED published
       \/ /\ ~CanAdd(records, s)
          /\ PollReturnsError
          /\ UNCHANGED excused
    /\ UNCHANGED <<vms, now, create, rpc, serving, restarts, late, tombstoned, absentRun>>

ReconcileAllowed(cur, r) == cur.lease = r.lease /\ cur.instance \in {NoInstance, r.instance}

Reconciled_KeepsCount(cur, v, state) ==
    [cur EXCEPT !.instance = v, !.state = state,
                !.createdAt = IF @ = ZeroTime THEN poll.listed[v].createdAt ELSE @]
Reconciled(cur, v, state) ==
    [cur EXCEPT !.instance = v, !.missingPolls = 0, !.state = state,
                !.createdAt = IF @ = ZeroTime THEN poll.listed[v].createdAt ELSE @]

PollUpdate ==
    LET s == poll.cur
        v == Keeper(s)
        r == poll.snap[s]
        observed == ObservedState(r, poll.listed[v].state)
        ok == ReconcileAllowed(records[s], r)
    IN
    /\ poll.pc = "update"
    /\ records' = IF ok THEN [records EXCEPT ![s] = Reconciled(@, v, observed)] ELSE records
    /\ excused' = IF ok THEN excused \ {v} ELSE excused
    /\ poll' = [poll EXCEPT !.pc = IF ok /\ r.state # observed THEN "broadcast" ELSE "reconcile",
                            !.snap[s] = NoRecord]
    /\ UNCHANGED <<nextLease, published, vms, now, create, rpc, serving, restarts, late, tombstoned, absentRun>>

PollBroadcast ==
    /\ poll.pc \in {"broadcast", "expireBroadcast"}
    /\ published' = [published EXCEPT ![poll.cur] = "sandbox"]
    /\ poll' = [poll EXCEPT !.pc = IF @ = "broadcast" THEN "reconcile" ELSE "expire"]
    /\ UNCHANGED <<registry, vms, now, create, rpc, serving, restarts, late, history>>

Saturate(n) == IF n > missingPollThreshold THEN missingPollThreshold ELSE n

\* registry.All: committed records the list did not mention.
PollAll ==
    LET missing == {s \in Tracked(records) : records[s].instance # NoInstance /\ s \notin poll.seen} IN
    /\ poll.pc = "reconcile"
    /\ poll.todo = {}
    /\ poll' = [IdlePoll EXCEPT !.pc = "missing", !.todo = missing,
                                !.snap = [s \in Sandboxes |-> IF s \in missing THEN records[s] ELSE NoRecord]]
    /\ absentRun' = [s \in Sandboxes |-> IF s \in poll.seen THEN 0 ELSE Saturate(absentRun[s] + 1)]
    /\ UNCHANGED <<registry, published, vms, now, create, rpc, serving, restarts, late, tombstoned, excused>>

SameIncarnation(cur, r) == cur.lease = r.lease /\ cur.instance = r.instance

\* The counter is compared with 0 and the threshold only, so it saturates.
Missed(n) == Saturate(n + 1)

PollMissing(s) ==
    LET ok == SameIncarnation(records[s], poll.snap[s])
        n == Missed(records[s].missingPolls)
    IN
    /\ poll.pc = "missing"
    /\ s \in poll.todo
    /\ records' = IF ok THEN [records EXCEPT ![s].missingPolls = n] ELSE records
    /\ poll' = [poll EXCEPT !.todo = @ \ {s}, !.cur = s,
                            !.pc = IF ok /\ n >= missingPollThreshold THEN "confirm" ELSE "missing",
                            !.snap[s] = IF ok /\ n >= missingPollThreshold THEN @ ELSE NoRecord]
    /\ UNCHANGED <<nextLease, published, vms, now, create, rpc, serving, restarts, late, history>>

\* Capacity is released only after an idempotent Terminate cleaned up the
\* children of the absent VM; a failure keeps the record for the next poll.
PollConfirm ==
    LET v == poll.snap[poll.cur].instance IN
    /\ poll.pc = "confirm"
    /\ \/ vms' = Terminate(vms, v) /\ poll' = [poll EXCEPT !.pc = "forget"]
       \/ /\ vms' \in {vms, Terminate(vms, v)}
          /\ poll' = [poll EXCEPT !.pc = "missing", !.snap[poll.cur] = NoRecord]
    /\ UNCHANGED <<registry, published, now, create, rpc, serving, restarts, late, history>>

ForgetAllowed_Beyond(cur, r) == SameIncarnation(cur, r) /\ cur.missingPolls > missingPollThreshold
ForgetAllowed(cur, r) == SameIncarnation(cur, r) /\ cur.missingPolls >= missingPollThreshold

PollForget ==
    LET s == poll.cur
        ok == ForgetAllowed(records[s], poll.snap[s])
    IN
    /\ poll.pc = "forget"
    /\ records' = IF ok THEN Delete(records, s) ELSE records
    /\ poll' = [poll EXCEPT !.pc = IF ok THEN "deleted" ELSE "missing", !.snap[s] = NoRecord]
    /\ excused' = IF ok /\ Exists(vms, records[s].instance)
                    THEN excused \cup {records[s].instance} ELSE excused
    /\ UNCHANGED <<nextLease, published, vms, now, create, rpc, serving, restarts, late, tombstoned, absentRun>>

PollBroadcastDeleted ==
    /\ poll.pc = "deleted"
    /\ published' = [published EXCEPT ![poll.cur] = "deleted"]
    /\ poll' = [poll EXCEPT !.pc = "missing"]
    /\ UNCHANGED <<registry, vms, now, create, rpc, serving, restarts, late, history>>

PollExpired ==
    LET expired == {s \in Expired(records, now) : /\ records[s].instance # NoInstance
                                                  /\ records[s].state # "deleting"}
    IN
    /\ poll.pc = "missing"
    /\ poll.todo = {}
    /\ poll' = [IdlePoll EXCEPT !.pc = "expire", !.todo = expired,
                                !.snap = [s \in Sandboxes |-> IF s \in expired THEN records[s] ELSE NoRecord]]
    /\ UNCHANGED <<registry, published, vms, now, create, rpc, serving, restarts, late, history>>

PollExpire(s) ==
    LET v == poll.snap[s].instance IN
    /\ poll.pc = "expire"
    /\ s \in poll.todo
    /\ \/ /\ vms' = Terminate(vms, v)
          /\ poll' = [poll EXCEPT !.todo = @ \ {s}, !.cur = s, !.pc = "expireUpdate"]
       \/ /\ vms' \in {vms, Terminate(vms, v)}
          /\ poll' = [poll EXCEPT !.todo = @ \ {s}, !.snap[s] = NoRecord]
    /\ UNCHANGED <<registry, published, now, create, rpc, serving, restarts, late, history>>

PollExpireUpdate ==
    LET s == poll.cur
        ok == SameIncarnation(records[s], poll.snap[s])
    IN
    /\ poll.pc = "expireUpdate"
    /\ records' = IF ok THEN [records EXCEPT ![s].state = "deleting"] ELSE records
    /\ poll' = [poll EXCEPT !.pc = IF ok THEN "expireBroadcast" ELSE "expire", !.snap[s] = NoRecord]
    /\ UNCHANGED <<nextLease, published, vms, now, create, rpc, serving, restarts, late, history>>

\* The first complete poll lets the server listen.
PollDone ==
    /\ poll.pc = "expire"
    /\ poll.todo = {}
    /\ poll' = IdlePoll
    /\ serving' = TRUE
    /\ UNCHANGED <<registry, published, vms, now, create, rpc, restarts, late, history>>

-----------------------------------------------------------------------------
(* The environment.                                                         *)

\* Guests boot and fail, VMs stop when asked to or on their own, operators
\* delete them.
VMChanges(v) ==
    /\ \E e \in VMEvents : vms[v].state = e[1] /\ vms' = [vms EXCEPT ![v].state = e[2]]
    /\ UNCHANGED <<registry, published, now, create, rpc, poll, serving, restarts, late, history>>

\* The finalizers of a VM under deletion are done.
VMGone(v) ==
    /\ vms[v].state = "Terminating"
    /\ vms' = [vms EXCEPT ![v] = NoVM]
    /\ excused' = excused \ {v}
    /\ UNCHANGED <<registry, published, now, create, rpc, poll, serving, restarts, late, tombstoned, absentRun>>

\* A create without an answer reaches the API server: the VM appears, unless
\* one of that name is there.
ApplyLate(l) ==
    LET made == ~Exists(vms, l.vm) IN
    /\ l \in late
    /\ late' = late \ {l}
    /\ vms' = IF made THEN [vms EXCEPT ![l.vm] = [state |-> "Starting", createdAt |-> l.createdAt]]
                      ELSE vms
    /\ excused' = IF made THEN excused \cup {l.vm} ELSE excused
    /\ UNCHANGED <<registry, published, now, create, rpc, poll, serving, restarts, tombstoned, absentRun>>

Tick ==
    /\ now < MaxNow
    /\ now' = now + 1
    /\ UNCHANGED <<registry, published, vms, create, rpc, poll, serving, restarts, late, history>>

Restart_ServesAtOnce ==
    /\ restarts < MaxRestarts
    /\ restarts' = restarts + 1
    /\ records' = NewRegistry
    /\ nextLease' = 0
    /\ published' = [s \in Sandboxes |-> "none"]
    /\ create' = [c \in Creates |-> IdleCreate]
    /\ rpc' = [p \in Rpcs |-> IdleRpc]
    /\ poll' = IdlePoll
    /\ serving' = TRUE
    /\ tombstoned' = {}
    /\ absentRun' = [s \in Sandboxes |-> 0]
    /\ excused' = {}
    /\ UNCHANGED <<vms, now, late>>
\* The process dies and its successor reconciles before it serves.  What it
\* asked of the API server is still under way.
Restart ==
    /\ restarts < MaxRestarts
    /\ restarts' = restarts + 1
    /\ records' = NewRegistry
    /\ nextLease' = 0
    /\ published' = [s \in Sandboxes |-> "none"]
    /\ create' = [c \in Creates |-> IdleCreate]
    /\ rpc' = [p \in Rpcs |-> IdleRpc]
    /\ poll' = IdlePoll
    /\ serving' = FALSE
    /\ tombstoned' = {}
    /\ absentRun' = [s \in Sandboxes |-> 0]
    /\ excused' = {}
    /\ UNCHANGED <<vms, now, late>>

-----------------------------------------------------------------------------
\* The process has just started; VMs of an earlier life may exist.
Init ==
    /\ records = NewRegistry
    /\ nextLease = 0
    /\ published = [s \in Sandboxes |-> "none"]
    /\ vms \in [Instances -> {NoVM} \cup Leftovers]
    /\ now = Start
    /\ create = [c \in Creates |-> IdleCreate]
    /\ rpc = [p \in Rpcs |-> IdleRpc]
    /\ poll = IdlePoll
    /\ serving = FALSE
    /\ restarts = 0
    /\ late = {}
    /\ tombstoned = {}
    /\ absentRun = [s \in Sandboxes |-> 0]
    /\ excused = {}

CreateStep(c) ==
    \/ \E s \in Sandboxes : CreateReserve(c, s)
    \/ CreateLaunchRefused(c) \/ CreateLaunch(c) \/ CreateUnanswered(c) \/ CreateLaunchFails(c)
    \/ CreateCommit(c) \/ CreateCompensate(c) \/ CreateRollback(c) \/ CreateBroadcast(c)

RpcStep(p) ==
    \/ \E T \in Targets : DeleteScan(p, T) \/ \E op \in Ops \ {"delete"} : RpcStart(p, op, T)
    \/ \E s \in Sandboxes : DeleteMark(p, s) \/ DeletePass(p, s)
    \/ ResolveRegistry(p) \/ ResolveList(p) \/ ResolveAdd(p) \/ ResolveAdopt(p) \/ ResolveReread(p)
    \/ RpcCall(p) \/ RpcCallFails(p) \/ RpcUpdate(p) \/ RpcBroadcast(p)

PollStep ==
    \/ PollList \/ PollGet \/ PollAdd \/ PollUpdate \/ PollBroadcast \/ PollAll
    \/ PollConfirm \/ PollForget \/ PollBroadcastDeleted \/ PollExpired \/ PollExpireUpdate
    \/ PollDone
    \/ \E s \in Sandboxes : PollPick(s) \/ PollMissing(s) \/ PollExpire(s)
    \/ \E v \in Instances : PollTerminateDuplicate(v)

Environment == Tick \/ Restart \/ (\E l \in late : ApplyLate(l)) \/ \E v \in Instances : VMChanges(v) \/ VMGone(v)

Next == \/ \E c \in Creates : CreateStep(c)
        \/ \E p \in Rpcs : RpcStep(p)
        \/ PollStep
        \/ Environment

Spec == Init /\ [][Next]_vars

\* The watcher goroutine keeps polling, handlers run to their end, finalizers
\* finish, and a provider call that is retried for ever succeeds in the end.
Fairness ==
    /\ WF_vars(PollStep)
    /\ \A s \in Sandboxes : SF_vars(PollExpire(s) /\ poll'.pc = "expireUpdate")
    /\ SF_vars(PollConfirm /\ poll'.pc = "forget")
    /\ \A v \in Instances : /\ SF_vars(PollTerminateDuplicate(v) /\ poll'.pc = "duplicates")
                            /\ WF_vars(VMGone(v))
    /\ \A c \in Creates : WF_vars(create[c].pc # "idle" /\ CreateStep(c))
    /\ \A p \in Rpcs : WF_vars(rpc[p].pc # "idle" /\ RpcStep(p))

FairSpec == Spec /\ Fairness

-----------------------------------------------------------------------------
(* Properties.                                                              *)

RegistryType == /\ records \in [Sandboxes -> Record(States)]
                /\ nextLease \in Nat
                /\ published \in [Sandboxes -> {"none", "sandbox", "deleted"}]

ClusterType == /\ vms \in [Instances -> VM]
               /\ now \in Nat
               /\ now >= Start
               /\ late \subseteq [vm : Instances, createdAt : Nat]

CreateCall == [pc : Inflight \cup {"idle", "broadcast"}, sandbox : Sandboxes, lease : Nat,
               vm : VM]
RpcCallState == [pc : {"idle", "mark", "marked", "resolve", "list", "add", "adopt", "reread", "call",
                       "update", "broadcast"},
                 op : {"get", "stop", "delete"}, target : SUBSET Sandboxes,
                 instance : Instances \cup {NoInstance}, sandbox : Sandboxes, found : VM,
                 scan : [Sandboxes -> Nat]]
PollState == [pc : {"idle", "reconcile", "duplicates", "add", "update", "broadcast", "missing",
                    "confirm", "forget", "deleted", "expire", "expireUpdate", "expireBroadcast"},
              listed : [Instances -> VM], todo : SUBSET Sandboxes, seen : SUBSET Sandboxes,
              snap : [Sandboxes -> Record(States)], cur : Sandboxes, dups : SUBSET Instances]

ThreadType == /\ create \in [Creates -> CreateCall]
              /\ rpc \in [Rpcs -> RpcCallState]
              /\ poll \in PollState
              /\ serving \in BOOLEAN
              /\ restarts \in Nat

HistoryType == /\ tombstoned \subseteq Nat
               /\ absentRun \in [Sandboxes -> 0 .. missingPollThreshold]
               /\ excused \subseteq Instances

\* Every variable keeps its type.
TypeOK == RegistryType /\ ClusterType /\ ThreadType /\ HistoryType

\* A reservation generation is never shared: leases are handed out once, so
\* two calls in flight, two records, or a call and a foreign record never
\* agree on one ("Lease identifies the reservation generation").
LeasesUnique ==
    /\ \A s \in Sandboxes : records[s].lease <= nextLease
    /\ \A c \in Creates : create[c].lease <= nextLease
    /\ \A s, t \in Tracked(records) : records[s].lease = records[t].lease => s = t
    /\ \A c, d \in Creates : create[c].lease # 0 /\ create[c].lease = create[d].lease => c = d
    /\ \A c \in Creates, s \in Tracked(records) :
          records[s].lease = create[c].lease => s = create[c].sandbox

\* A launch that comes back late does not take the slot of its successor: a
\* create whose record was adopted, missed by the reconciler and dropped while
\* it launched never commits into the reservation of a newer create.
CommitsToOwnReservation ==
    [][\A c, d \in Creates :
         /\ create[c].pc = "launched" /\ create'[c].pc = "broadcast"
         /\ create[d].pc # "idle" /\ create[d].lease = records[create[c].sandbox].lease
         => d = c]_vars

\* A committed sandbox leaves the registry of a running driver only after
\* the three latest complete polls did not list it, so a single partial
\* view of the cluster never frees its slot.
ReleasedOnlyAfterAbsence ==
    [][\A s \in Sandboxes :
         /\ records[s].instance # NoInstance
         /\ records'[s].instance = NoInstance
         /\ serving'
         => absentRun[s] = missingPollThreshold]_vars

\* MissingPolls never runs ahead of the polls that really missed the sandbox.
MissingPollsAreConsecutive == \A s \in Sandboxes : records[s].missingPolls <= absentRun[s]

\* While the driver serves, a VM that is not going away is tracked, or a
\* create that will deal with it is in flight, or a call reported the
\* failure that left it behind, or the API server made it late.
Alive(v) == vms[v].state \notin {"Absent", "Terminating"}
LaunchedBySomeone(v) == \E c \in Creates : create[c].pc \in {"launched", "compensate"}
                                         /\ VMName[create[c].sandbox] = v
NoUntrackedVM ==
    serving => \A v \in Instances :
                 Alive(v) /\ v \notin excused => \/ SandboxOf[v] \in Tracked(records)
                                                \/ LaunchedBySomeone(v)

\* No record escapes the age limit for want of a creation time: a recovered
\* VM without a trustworthy one fails closed.
EveryRecordAges == \A s \in Tracked(records) : records[s].createdAt # ZeroTime

\* The maximum age is enforced: no committed sandbox stays beyond it for
\* ever; its VM is terminated, disappears, and the slot is released.
ExpiredIsReleased ==
    \A s \in Sandboxes : []<>~(s \in Expired(records, now) /\ records[s].instance # NoInstance)

\* Whatever left a VM behind, the reconciler finds it: it is tracked again or
\* it goes away.
LeftoversAreFound ==
    \A v \in Instances : Alive(v) ~> (SandboxOf[v] \in Tracked(records) \/ ~Alive(v))

\* In the end at most one VM per sandbox is left.
DuplicatesAreRemoved ==
    \A v, w \in Instances : v < w /\ SandboxOf[v] = SandboxOf[w] => <>[](~Alive(v) \/ ~Alive(w))

\* A deletion acknowledged while the launch was in flight wins: the create
\* does not commit afterwards.
TombstoneWins == \A c \in Creates : create[c].pc = "broadcast" => create[c].lease \notin tombstoned

\* The driver implements the lease registry: it admits creates below the
\* limit only, gives every occupation of a slot a fresh lease, and never
\* changes the lease or loses the instance of an occupied slot.
Slot(r) == [phase |-> IF r.lease = 0 THEN "free"
                      ELSE IF r.instance = NoInstance THEN "reserved" ELSE "bound",
            lease |-> r.lease]
Registry == INSTANCE LeaseRegistry WITH slot <- [s \in Sandboxes |-> Slot(records[s])],
                                        issued <- nextLease
ImplementsLeaseRegistry == Registry!Spec
=============================================================================
