--------------------------- MODULE KubeVirtProofs ---------------------------
(***************************************************************************)
(* Proofs about the KubeVirt driver for every value of its constants.      *)
(***************************************************************************)
EXTENDS KubeVirtDriver, TLAPS, WellFoundedInduction

-----------------------------------------------------------------------------
(* The parts of the inductive invariant that no run states.                 *)

Committed(r) == r.lease # 0 /\ r.instance # NoInstance

\* The reconciler works on sandboxes its list mentions, and then on committed
\* records it read from the registry.
PollOnTrack ==
    /\ poll.pc \in {"reconcile", "duplicates", "add", "update", "broadcast"} =>
          \A s \in poll.todo : Live(s) # {}
    /\ poll.pc \in {"duplicates", "add", "update", "broadcast"} => Live(poll.cur) # {}
    /\ poll.pc = "update" => poll.snap[poll.cur].lease # 0
    /\ poll.pc \in {"missing", "confirm", "forget", "deleted", "expire", "expireUpdate",
                    "expireBroadcast"} => \A s \in poll.todo : Committed(poll.snap[s])
    /\ poll.pc \in {"confirm", "forget", "expireUpdate"} => /\ Committed(poll.snap[poll.cur])
                                                          /\ poll.cur \notin poll.todo

\* Nobody calls a driver that does not serve yet.
NobodyCallsEarly == ~serving => \A c \in Creates : create[c] = IdleCreate

\* A create past its reservation holds a lease.
CreatesHoldLeases == \A c \in Creates : create[c].pc # "idle" => create[c].lease # 0

\* A request past its resolution has an instance of the sandbox it resolved.
RequestsAreResolved ==
    \A p \in Rpcs :
        /\ rpc[p].pc \in {"add", "adopt"} => /\ rpc[p].instance \in Instances
                                             /\ SandboxOf[rpc[p].instance] = rpc[p].sandbox
        /\ rpc[p].pc \in {"call", "update"} => rpc[p].instance # NoInstance

\* An absent entry is the zero record.
AbsentIsZero == \A s \in Sandboxes : records[s].lease = 0 => records[s] = NoRecord

\* No VM but the deterministically named one carries a sandbox's annotations.
OneVMPerSandbox == \A v \in Instances : VMName[SandboxOf[v]] = v

\* Where a counter of missing polls stands while a poll is under way.
CountsAreSound ==
    /\ MissingPollsAreConsecutive
    /\ \A s \in Sandboxes : records[s].instance \in {NoInstance, VMName[s]}
    /\ \A s \in Sandboxes : records[s].missingPolls # 0 => records[s].instance # NoInstance
    /\ poll.pc = "idle" => poll.seen = {}
    /\ poll.pc \in {"reconcile", "duplicates", "add", "update", "broadcast"} =>
          \A s \in poll.seen : \/ records[s].missingPolls = 0
                               \/ s = poll.cur /\ poll.pc \in {"duplicates", "update"}
    /\ poll.pc = "update" => \/ records[poll.cur].missingPolls = 0
                             \/ SameIncarnation(records[poll.cur], poll.snap[poll.cur])
    /\ poll.pc \in {"missing", "confirm", "forget", "deleted"} =>
          \A s \in poll.todo : Missed(records[s].missingPolls) <= absentRun[s]

-----------------------------------------------------------------------------
(* Lemmas about the operators the model is built from.                      *)

\* A nonempty set of naturals has a least element.
LEMMA LeastNatural ==
    ASSUME NEW T, T \subseteq Nat, T # {}
    PROVE  \E x \in T : \A y \in T : x <= y
  <1>1. PICK x \in T : \A y \in T : ~ (<<y, x>> \in OpToRel(<, Nat))
    BY WFMin, NatLessThanWellFounded, Zenon
  <1>2. \A y \in T : ~(y < x)
    BY <1>1, Zenon DEF OpToRel
  <1> QED
    BY <1>2

\* The sort of the reconciler is total on names and times, so every nonempty
\* pool of listed VMs has a first one.
LEMMA FirstOfPool ==
    ASSUME poll.listed \in [Instances -> VM], NEW pool, pool \subseteq Instances, pool # {}
    PROVE  \E v \in pool : \A w \in pool : Before(v, w)
  <1> DEFINE times == {poll.listed[v].createdAt : v \in pool}
  <1>1. \A v \in pool : poll.listed[v].createdAt \in Nat
    BY DEF VM
  <1>2. PICK t \in times : \A u \in times : t <= u
    <2>1. times \subseteq Nat /\ times # {}
      BY <1>1
    <2> HIDE DEF times
    <2> QED
      BY <2>1, LeastNatural, Zenon
  <1> DEFINE first == {v \in pool : poll.listed[v].createdAt = t}
  <1>3. first # {} /\ first \subseteq Nat
    BY InstancesAreNames
  <1>4. PICK v \in first : \A w \in first : v <= w
    BY <1>3, LeastNatural
  <1>5. ASSUME NEW w \in pool PROVE Before(v, w)
    <2>1. CASE poll.listed[w].createdAt = t
      BY <1>4, <2>1 DEF Before
    <2>2. CASE poll.listed[w].createdAt # t
      BY <1>1, <1>2, <2>2 DEF Before
    <2> QED
      BY <2>1, <2>2
  <1> QED
    BY <1>5

\* The reconciler keeps one of the VMs it listed for the sandbox.
LEMMA KeeperIsLive ==
    ASSUME TypeOK, NEW s \in Sandboxes, Live(s) # {}
    PROVE  Keeper(s) \in Live(s)
  <1> DEFINE healthy == {v \in Live(s) : poll.listed[v].state # "Failed"}
             pool == IF healthy # {} THEN healthy ELSE Live(s)
  <1>1. poll.listed \in [Instances -> VM]
    BY DEF TypeOK, ThreadType, PollState
  <1>2. pool \subseteq Live(s) /\ pool # {}
    OBVIOUS
  <1>3. pool \subseteq Instances
    BY <1>2 DEF Live
  <1> HIDE DEF pool
  <1>4. \E v \in pool : \A w \in pool : Before(v, w)
    BY <1>1, <1>2, <1>3, FirstOfPool
  <1>5. (CHOOSE v \in pool : \A w \in pool : Before(v, w)) \in pool
    BY <1>4, Zenon
  <1>6. Keeper(s) \in pool
    BY <1>5, Zenon DEF Keeper, pool
  <1> QED
    BY <1>2, <1>6

\* What the threads look like when they have nothing to do.
LEMMA IdleTypes ==
    /\ IdleCreate \in CreateCall
    /\ IdleRpc \in RpcCallState
    /\ IdlePoll \in PollState
    /\ NoRecord \in Record(States)
    /\ NewRegistry \in [Sandboxes -> Record(States)]
    /\ NoVM \in VM
    /\ IdleCreate.pc = "idle" /\ IdleCreate.lease = 0
    /\ IdleRpc.pc = "idle"
    /\ IdlePoll.pc = "idle" /\ IdlePoll.seen = {}
    /\ NoRecord.instance = NoInstance /\ NoRecord.lease = 0 /\ NoRecord.missingPolls = 0
  <1>1. (CHOOSE s \in Sandboxes : TRUE) \in Sandboxes
    BY SandboxesFinite, Zenon
  <1>2. NoRecord \in Record(States)
    BY DEF NoRecord, Record, NoInstance, ZeroTime
  <1>3. NoVM \in VM
    BY DEF NoVM, VM, VMStates, ZeroTime
  <1>4. NewRegistry \in [Sandboxes -> Record(States)]
    BY <1>2 DEF NewRegistry
  <1>5. IdleCreate \in CreateCall
    BY <1>1, <1>3 DEF IdleCreate, CreateCall
  <1>6. IdleRpc \in RpcCallState
    BY <1>1, <1>3 DEF IdleRpc, NoScan, RpcCallState
  <1>7. IdlePoll \in PollState
    BY <1>1, <1>3, <1>4 DEF IdlePoll, PollState
  <1>8. /\ IdleCreate.pc = "idle" /\ IdleCreate.lease = 0
        /\ IdleRpc.pc = "idle"
        /\ IdlePoll.pc = "idle" /\ IdlePoll.seen = {}
        /\ NoRecord.instance = NoInstance /\ NoRecord.lease = 0 /\ NoRecord.missingPolls = 0
    BY DEF IdleCreate, IdleRpc, IdlePoll, NoRecord
  <1> QED
    BY <1>2, <1>3, <1>4, <1>5, <1>6, <1>7, <1>8

\* The registry operators stay within the types.
LEMMA RegistryOperators ==
    ASSUME NEW recs \in [Sandboxes -> Record(States)], NEW s \in Sandboxes
    PROVE  /\ \A rec \in Record(States), n \in Nat :
                 Store(recs, s, rec, n) \in [Sandboxes -> Record(States)]
           /\ Rollback(recs, s) \in [Sandboxes -> Record(States)]
           /\ Delete(recs, s) \in [Sandboxes -> Record(States)]
           /\ \A st \in States : [recs EXCEPT ![s].state = st] \in [Sandboxes -> Record(States)]
           /\ \A n \in Nat : [recs EXCEPT ![s].missingPolls = n] \in [Sandboxes -> Record(States)]
  <1>1. ASSUME NEW rec \in Record(States), NEW n \in Nat
        PROVE  Store(recs, s, rec, n) \in [Sandboxes -> Record(States)]
    <2>1. [rec EXCEPT !.lease = n] \in Record(States)
      BY DEF Record
    <2> QED
      BY <2>1 DEF Store
  <1>2. /\ Rollback(recs, s) \in [Sandboxes -> Record(States)]
        /\ Delete(recs, s) \in [Sandboxes -> Record(States)]
    BY IdleTypes DEF Rollback, Delete
  <1>3. \A st \in States : [recs EXCEPT ![s].state = st] \in [Sandboxes -> Record(States)]
    BY DEF Record
  <1>4. \A n \in Nat : [recs EXCEPT ![s].missingPolls = n] \in [Sandboxes -> Record(States)]
    BY DEF Record
  <1> QED
    BY <1>1, <1>2, <1>3, <1>4

\* So do the provider's.
LEMMA ProviderOperators ==
    ASSUME NEW V \in [Instances -> VM], NEW v
    PROVE  Terminate(V, v) \in [Instances -> VM]
  <1>1. ASSUME NEW st \in VMStates
        PROVE  [V EXCEPT ![v].state = st] \in [Instances -> VM]
    BY DEF VM
  <1> QED
    BY <1>1 DEF Terminate, VMStates

-----------------------------------------------------------------------------
(* Type correctness.                                                        *)

LEMMA InitType == Init => TypeOK
  <1> SUFFICES ASSUME Init PROVE TypeOK
    OBVIOUS
  <1>1. RegistryType
    BY IdleTypes DEF Init, RegistryType
  <1>2. ClusterType
    BY IdleTypes, EnvironmentIsKnown, LimitsArePositive DEF Init, ClusterType, Start
  <1>3. ThreadType
    BY IdleTypes DEF Init, ThreadType
  <1>4. HistoryType
    BY DEF Init, HistoryType, missingPollThreshold
  <1> QED
    BY <1>1, <1>2, <1>3, <1>4 DEF TypeOK

LEMMA CreateType ==
    ASSUME TypeOK, NEW c \in Creates, CreateStep(c)
    PROVE  TypeOK'
  <1> USE DEF TypeOK
  <1>0. CASE CreateUnanswered(c)
    <2>1. VMName[create[c].sandbox] \in Instances /\ create[c].vm.createdAt \in Nat
      BY VMsAreAnnotated DEF ThreadType, CreateCall, VM
    <2>2. ClusterType'
      BY <1>0, <2>1 DEF CreateUnanswered, ClusterType
    <2> QED
      BY <1>0, <2>2 DEF CreateUnanswered, RegistryType, ThreadType, HistoryType, history, registry
  <1>1. ASSUME NEW s \in Sandboxes, CreateReserve(c, s) PROVE TypeOK'
    <2>1. /\ nextLease' \in Nat
          /\ [NoRecord EXCEPT !.state = "launching", !.createdAt = now] \in Record(States)
      <3>1. nextLease' \in Nat
        BY <1>1 DEF CreateReserve, NextLease, RegistryType
      <3>2. [NoRecord EXCEPT !.state = "launching", !.createdAt = now] \in Record(States)
        BY IdleTypes DEF ClusterType, Record, States
      <3> QED
        BY <3>1, <3>2
    <2>2. RegistryType'
      BY <1>1, <2>1, RegistryOperators DEF CreateReserve, RegistryType
    <2>3. ThreadType'
      <3>1. [NoVM EXCEPT !.createdAt = now] \in VM
        BY IdleTypes DEF ClusterType, VM
      <3> QED
        BY <1>1, <2>1, <3>1 DEF CreateReserve, ThreadType, CreateCall, Inflight
    <2> QED
      BY <1>1, <2>2, <2>3 DEF CreateReserve, ClusterType, HistoryType, history
  <1>2. CASE CreateLaunchRefused(c)
    BY <1>2 DEF CreateLaunchRefused, RegistryType, ClusterType, ThreadType, HistoryType, history,
                registry, CreateCall, Inflight
  <1>3. CASE CreateLaunch(c)
    <2>1. PICK vm \in LaunchResult(c) :
             /\ vms' = [vms EXCEPT ![VMName[create[c].sandbox]] = vm]
             /\ create' = [create EXCEPT ![c] = [@ EXCEPT !.pc = "launched", !.vm = vm]]
      BY <1>3 DEF CreateLaunch
    <2>2. vm \in VM
      <3>1. create[c].vm \in VM /\ VMName[create[c].sandbox] \in Instances
        BY VMsAreAnnotated DEF ThreadType, CreateCall
      <3>2. [create[c].vm EXCEPT !.state = "Starting"] \in VM
        BY <3>1 DEF VM, VMStates
      <3> QED
        BY <2>1, <3>1, <3>2 DEF LaunchResult, ClusterType
    <2>3. ClusterType'
      BY <1>3, <2>1, <2>2 DEF CreateLaunch, ClusterType
    <2>4. ThreadType'
      <3>1. [create[c] EXCEPT !.pc = "launched", !.vm = vm] \in CreateCall
        BY <2>2 DEF ThreadType, CreateCall, Inflight
      <3> QED
        BY <1>3, <2>1, <3>1 DEF CreateLaunch, ThreadType
    <2> QED
      BY <1>3, <2>3, <2>4 DEF CreateLaunch, RegistryType, HistoryType, registry
  <1>4. CASE CreateLaunchFails(c)
    <2>1. VMName[create[c].sandbox] \in Instances
      BY VMsAreAnnotated DEF ThreadType, CreateCall
    <2>2. ClusterType'
      BY <1>4, ProviderOperators DEF CreateLaunchFails, ClusterType
    <2>3. ThreadType' /\ HistoryType'
      BY <1>4, <2>1 DEF CreateLaunchFails, ThreadType, CreateCall, Inflight, HistoryType
    <2> QED
      BY <1>4, <2>2, <2>3 DEF CreateLaunchFails, RegistryType, registry
  <1>5. CASE CreateCommit(c)
    <2>1. create[c] \in CreateCall /\ VMName[create[c].sandbox] \in Instances
      BY VMsAreAnnotated DEF ThreadType, CreateCall
    <2>2. RegistryType'
      <3> DEFINE s == create[c].sandbox
                 r == [records[s] EXCEPT !.instance = VMName[s], !.state = create[c].vm.state,
                                         !.createdAt = create[c].vm.createdAt]
      <3>0. records[s] \in Record(States) /\ create[c].vm \in VM
        BY <2>1 DEF RegistryType, CreateCall
      <3>1. r \in Record(States)
        BY <2>1, <3>0 DEF Record, States, VM
      <3>2. records' = [records EXCEPT ![s] = r] \/ records' = records
        BY <1>5 DEF CreateCommit
      <3> HIDE DEF r
      <3> QED
        BY <1>5, <3>1, <3>2 DEF CreateCommit, RegistryType
    <2>3. ThreadType'
      BY <1>5 DEF CreateCommit, ThreadType, CreateCall, Inflight
    <2> QED
      BY <1>5, <2>2, <2>3 DEF CreateCommit, ClusterType, HistoryType, history
  <1>6. CASE CreateCompensate(c)
    <2>1. VMName[create[c].sandbox] \in Instances
      BY VMsAreAnnotated DEF ThreadType, CreateCall
    <2>2. ClusterType'
      BY <1>6, ProviderOperators DEF CreateCompensate, ClusterType
    <2>3. ThreadType' /\ HistoryType'
      BY <1>6, <2>1 DEF CreateCompensate, ThreadType, CreateCall, Inflight, HistoryType
    <2> QED
      BY <1>6, <2>2, <2>3 DEF CreateCompensate, RegistryType, registry
  <1>7. CASE CreateRollback(c)
    <2>1. RegistryType'
      BY <1>7, RegistryOperators DEF CreateRollback, RegistryType, ThreadType, CreateCall
    <2>2. ThreadType'
      BY <1>7, IdleTypes DEF CreateRollback, ThreadType
    <2> QED
      BY <1>7, <2>1, <2>2 DEF CreateRollback, ClusterType, HistoryType
  <1>8. CASE CreateBroadcast(c)
    <2>1. ThreadType'
      BY <1>8, IdleTypes DEF CreateBroadcast, ThreadType
    <2>2. RegistryType'
      BY <1>8 DEF CreateBroadcast, RegistryType, registry
    <2> QED
      BY <1>8, <2>1, <2>2 DEF CreateBroadcast, ClusterType, HistoryType
  <1> QED
    BY <1>0, <1>1, <1>2, <1>3, <1>4, <1>5, <1>6, <1>7, <1>8 DEF CreateStep

\* What a resolved request looks like.
LEMMA ResolvedType ==
    ASSUME rpc \in [Rpcs -> RpcCallState], NEW p \in Rpcs, NEW s \in Sandboxes,
           NEW v \in Instances \cup {NoInstance}, Resolved(p, s, v)
    PROVE  rpc' \in [Rpcs -> RpcCallState]
  <1>0. NoVM \in VM /\ IdleRpc \in RpcCallState /\ rpc[p] \in RpcCallState
    BY IdleTypes
  <1>1. [rpc[p] EXCEPT !.pc = "call", !.sandbox = s, !.instance = v, !.found = NoVM, !.target = {}]
            \in RpcCallState
    BY <1>0 DEF RpcCallState
  <1> QED
    BY <1>0, <1>1 DEF Resolved

LEMMA RpcType ==
    ASSUME TypeOK, NEW p \in Rpcs, RpcStep(p)
    PROVE  TypeOK'
  <1> USE DEF TypeOK
  <1>0. rpc[p] \in RpcCallState
    BY DEF ThreadType
  <1>1. ASSUME NEW s \in Sandboxes, DeleteMark(p, s) PROVE TypeOK'
    <2>1. RegistryType'
      BY <1>1 DEF DeleteMark, RegistryType, Record, States
    <2>2. ThreadType'
      <3>1. [IdleRpc EXCEPT !.pc = "marked", !.op = "delete", !.sandbox = s] \in RpcCallState
        BY IdleTypes DEF RpcCallState
      <3> QED
        BY <1>1, <3>1 DEF DeleteMark, ThreadType
    <2>3. HistoryType'
      <3>1. records[s].lease \in Nat
        BY DEF RegistryType, Record
      <3> QED
        BY <1>1, <3>1 DEF DeleteMark, HistoryType
    <2> QED
      BY <1>1, <2>1, <2>2, <2>3 DEF DeleteMark, ClusterType
  <1>2. ASSUME NEW pc \in {"resolve", "mark"}, NEW op \in {"get", "stop", "delete"},
               NEW T \in SUBSET Sandboxes, NEW scan \in [Sandboxes -> Nat],
               rpc' = [rpc EXCEPT ![p] = [rpc[p] EXCEPT !.pc = pc, !.op = op, !.target = T,
                                                        !.scan = scan]],
               UNCHANGED <<registry, published, vms, now, create, poll, serving, restarts, late, history>>
        PROVE  TypeOK'
    <2>1. [rpc[p] EXCEPT !.pc = pc, !.op = op, !.target = T, !.scan = scan] \in RpcCallState
      BY <1>0 DEF RpcCallState
    <2> QED
      BY <1>2, <2>1 DEF RegistryType, ClusterType, ThreadType, HistoryType, registry, history
  <1>12. ASSUME NEW T \in Targets, DeleteScan(p, T) PROVE TypeOK'
    <2> DEFINE scan == [s \in Sandboxes |-> IF s \in T /\ records[s].instance = NoInstance
                                              THEN records[s].lease ELSE 0]
               pc == IF scan = NoScan THEN "resolve" ELSE "mark"
    <2>1. scan \in [Sandboxes -> Nat] /\ pc \in {"resolve", "mark"}
      BY DEF RegistryType, Record
    <2>2. T \in SUBSET Sandboxes
      BY NamesAreShared DEF Targets
    <2>3. /\ rpc' = [rpc EXCEPT ![p] = [rpc[p] EXCEPT !.pc = pc, !.op = "delete", !.target = T,
                                                      !.scan = scan]]
          /\ UNCHANGED <<registry, published, vms, now, create, poll, serving, restarts, late, history>>
      BY <1>12 DEF DeleteScan, ThreadType
    <2> HIDE DEF scan, pc
    <2> QED
      BY <1>2, <2>1, <2>2, <2>3
  <1>13. ASSUME NEW s \in Sandboxes, DeletePass(p, s) PROVE TypeOK'
    <2> DEFINE scan == [rpc[p].scan EXCEPT ![s] = 0]
               pc == IF scan = NoScan THEN "resolve" ELSE "mark"
    <2>1. scan \in [Sandboxes -> Nat] /\ pc \in {"resolve", "mark"}
      BY <1>0 DEF RpcCallState
    <2>2. [rpc[p] EXCEPT !.pc = pc, !.scan = scan] \in RpcCallState
      BY <1>0, <2>1 DEF RpcCallState
    <2>3. rpc' = [rpc EXCEPT ![p] = [rpc[p] EXCEPT !.pc = pc, !.scan = scan]]
      BY <1>13 DEF DeletePass, ThreadType
    <2> HIDE DEF scan, pc
    <2> QED
      BY <1>13, <2>2, <2>3 DEF DeletePass, RegistryType, ClusterType, ThreadType, HistoryType,
                               registry, history
  <1>14. ASSUME NEW T \in Targets, NEW op \in Ops, RpcStart(p, op, T) PROVE TypeOK'
    <2>1. T \subseteq Sandboxes
      BY NamesAreShared DEF Targets
    <2>2. [rpc[p] EXCEPT !.pc = "resolve", !.op = op, !.target = T] \in RpcCallState
      BY <1>0, <2>1, OpsAreKnown DEF RpcCallState
    <2>3. rpc' = [rpc EXCEPT ![p] = [rpc[p] EXCEPT !.pc = "resolve", !.op = op, !.target = T]]
      BY <1>14 DEF RpcStart, ThreadType
    <2> QED
      BY <1>14, <2>2, <2>3 DEF RpcStart, RegistryType, ClusterType, ThreadType, HistoryType,
                               registry, history
  <1>3. CASE ResolveRegistry(p)
    <2>1. rpc' \in [Rpcs -> RpcCallState]
      <3>1. ASSUME NEW s \in rpc[p].target, Resolved(p, s, records[s].instance)
            PROVE  rpc' \in [Rpcs -> RpcCallState]
        BY <1>0, <3>1, ResolvedType DEF RpcCallState, RegistryType, Record, ThreadType
      <3>2. [rpc EXCEPT ![p].pc = "list"] \in [Rpcs -> RpcCallState]
        BY DEF RpcCallState, ThreadType
      <3> QED
        BY <1>3, <3>1, <3>2, IdleTypes DEF ResolveRegistry, Return, ThreadType
    <2> QED
      BY <1>3, <2>1 DEF ResolveRegistry, RegistryType, ClusterType, ThreadType, HistoryType,
                        registry, history
  <1>4. CASE ResolveList(p)
    <2>1. rpc' \in [Rpcs -> RpcCallState]
      <3>1. ASSUME NEW v \in Instances
            PROVE  [rpc[p] EXCEPT !.pc = "add", !.instance = v, !.sandbox = SandboxOf[v],
                                  !.target = {}, !.found = vms[v]] \in RpcCallState
        BY <1>0, VMsAreAnnotated DEF RpcCallState, ClusterType
      <3>2. \/ Return(p)
            \/ \E v \in Instances :
                 rpc' = [rpc EXCEPT ![p] = [rpc[p] EXCEPT !.pc = "add", !.instance = v,
                             !.sandbox = SandboxOf[v], !.target = {}, !.found = vms[v]]]
        BY <1>4 DEF ResolveList, ThreadType
      <3> QED
        BY <3>1, <3>2, IdleTypes DEF Return, ThreadType
    <2> QED
      BY <1>4, <2>1 DEF ResolveList, RegistryType, ClusterType, ThreadType, HistoryType,
                        registry, history
  <1>5. CASE ResolveAdd(p)
    <2>1. /\ rpc[p].sandbox \in Sandboxes
          /\ rpc[p].instance \in Instances \cup {NoInstance}
          /\ recordFromInstance(rpc[p].instance, rpc[p].found) \in Record(States)
      BY <1>0, IdleTypes DEF RpcCallState, recordFromInstance, Record, States, VM
    <2>2. RegistryType'
      BY <1>5, <2>1, RegistryOperators DEF ResolveAdd, RegistryType, NextLease, registry
    <2>3. rpc' \in [Rpcs -> RpcCallState]
      <3>1. [rpc EXCEPT ![p].pc = "adopt"] \in [Rpcs -> RpcCallState]
        BY DEF RpcCallState, ThreadType
      <3> QED
        BY <1>5, <2>1, <3>1, ResolvedType DEF ResolveAdd, ThreadType
    <2> QED
      BY <1>5, <2>2, <2>3 DEF ResolveAdd, ClusterType, ThreadType, HistoryType
  <1>6. CASE ResolveAdopt(p)
    <2> DEFINE s == rpc[p].sandbox
               r == [records[s] EXCEPT !.instance = rpc[p].instance, !.state = rpc[p].found.state,
                                       !.createdAt = rpc[p].found.createdAt]
    <2>1. s \in Sandboxes /\ rpc[p].instance \in Instances \cup {NoInstance}
      BY <1>0 DEF RpcCallState
    <2>2. RegistryType'
      <3>0. records[s] \in Record(States) /\ rpc[p].found \in VM
        BY <1>0, <2>1 DEF RegistryType, RpcCallState
      <3>1. r \in Record(States)
        BY <2>1, <3>0 DEF Record, States, VM
      <3>2. records' = [records EXCEPT ![s] = r] \/ records' = records
        BY <1>6 DEF ResolveAdopt
      <3> HIDE DEF r
      <3> QED
        BY <1>6, <3>1, <3>2 DEF ResolveAdopt, RegistryType
    <2>3. rpc' \in [Rpcs -> RpcCallState]
      <3>1. [rpc EXCEPT ![p].pc = "reread"] \in [Rpcs -> RpcCallState]
        BY DEF RpcCallState, ThreadType
      <3> QED
        BY <1>6, <2>1, <3>1, ResolvedType DEF ResolveAdopt, ThreadType
    <2> QED
      BY <1>6, <2>2, <2>3 DEF ResolveAdopt, ClusterType, ThreadType, HistoryType
  <1>7. CASE ResolveReread(p)
    <2>1. /\ rpc[p].sandbox \in Sandboxes
          /\ records[rpc[p].sandbox].instance \in Instances \cup {NoInstance}
      BY <1>0 DEF RpcCallState, RegistryType, Record
    <2>2. rpc' \in [Rpcs -> RpcCallState]
      BY <1>7, <2>1, ResolvedType, IdleTypes DEF ResolveReread, Return, ThreadType
    <2> QED
      BY <1>7, <2>2 DEF ResolveReread, RegistryType, ClusterType, ThreadType, HistoryType,
                        registry, history
  <1>8. CASE RpcCall(p)
    <2>1. ClusterType'
      BY <1>8, ProviderOperators DEF RpcCall, ClusterType
    <2>2. ThreadType'
      <3>1. [rpc EXCEPT ![p].pc = "update"] \in [Rpcs -> RpcCallState]
        BY DEF RpcCallState, ThreadType
      <3> QED
        BY <1>8, <3>1 DEF RpcCall, ThreadType
    <2> QED
      BY <1>8, <2>1, <2>2 DEF RpcCall, RegistryType, HistoryType, registry, history
  <1>9. CASE RpcCallFails(p)
    <2>1. ClusterType'
      BY <1>9, ProviderOperators DEF RpcCallFails, ClusterType
    <2>2. ThreadType'
      BY <1>9, IdleTypes DEF RpcCallFails, Return, ThreadType
    <2> QED
      BY <1>9, <2>1, <2>2 DEF RpcCallFails, RegistryType, HistoryType, registry, history
  <1>10. CASE RpcUpdate(p)
    <2>1. RequestedState(rpc[p].op) \in States /\ rpc[p].sandbox \in Sandboxes
      BY <1>0 DEF RequestedState, States, RpcCallState
    <2>2. RegistryType'
      BY <1>10, <2>1, RegistryOperators DEF RpcUpdate, RegistryType
    <2>3. ThreadType'
      <3>1. [rpc EXCEPT ![p].pc = "broadcast"] \in [Rpcs -> RpcCallState]
        BY DEF RpcCallState, ThreadType
      <3> QED
        BY <1>10, <3>1, IdleTypes DEF RpcUpdate, Return, ThreadType
    <2> QED
      BY <1>10, <2>2, <2>3 DEF RpcUpdate, ClusterType, HistoryType, history
  <1>11. CASE RpcBroadcast(p)
    <2>1. ThreadType'
      BY <1>11, IdleTypes DEF RpcBroadcast, Return, ThreadType
    <2>2. RegistryType'
      BY <1>11 DEF RpcBroadcast, RegistryType, registry
    <2> QED
      BY <1>11, <2>1, <2>2 DEF RpcBroadcast, ClusterType, HistoryType, history
  <1> QED
    BY <1>1, <1>3, <1>4, <1>5, <1>6, <1>7, <1>8, <1>9, <1>10, <1>11, <1>12, <1>13, <1>14
       DEF RpcStep

\* The start of a poll and its early return.
LEMMA PollErrorType ==
    ASSUME TypeOK, PollReturnsError
    PROVE  RegistryType' /\ poll' \in PollState
  <1>1. poll' \in PollState
    BY IdleTypes DEF PollReturnsError
  <1>2. CASE serving
    BY <1>1, <1>2 DEF PollReturnsError, TypeOK, RegistryType
  <1>3. CASE ~serving
    BY <1>1, <1>3, IdleTypes DEF PollReturnsError, RegistryType
  <1> QED
    BY <1>2, <1>3

\* The VM that the reconciler keeps is one of the cluster's, and its record
\* is well formed.
LEMMA KeeperType ==
    ASSUME TypeOK, PollOnTrack, poll.pc \in {"duplicates", "add", "update", "broadcast"}
    PROVE  /\ poll.cur \in Sandboxes
           /\ Keeper(poll.cur) \in Instances
           /\ SandboxOf[Keeper(poll.cur)] = poll.cur
           /\ poll.listed[Keeper(poll.cur)] \in VM
           /\ Recovered(Keeper(poll.cur)) \in Record(States)
           /\ Recovered(Keeper(poll.cur)).instance = Keeper(poll.cur)
           /\ Recovered(Keeper(poll.cur)).missingPolls = 0
  <1> DEFINE v == Keeper(poll.cur)
             r == recordFromInstance(v, poll.listed[v])
  <1>1. poll.cur \in Sandboxes /\ poll.listed \in [Instances -> VM]
    BY DEF TypeOK, ThreadType, PollState
  <1>2. v \in Instances /\ SandboxOf[v] = poll.cur
    <2>1. v \in Live(poll.cur)
      BY <1>1, KeeperIsLive DEF PollOnTrack
    <2> HIDE DEF v
    <2> QED
      BY <2>1 DEF Live
  <1> HIDE DEF v
  <1>3. poll.listed[v] \in VM
    BY <1>1, <1>2
  <1>4. r \in Record(States) /\ r.instance = v /\ r.missingPolls = 0
    BY <1>2, <1>3, IdleTypes DEF recordFromInstance, NoRecord, Record, States, VM
  <1>5. now - MaxInstanceAge - 1 \in Nat
    BY LimitsArePositive DEF TypeOK, ClusterType, Start
  <1>6. Recovered(v) \in {r, [r EXCEPT !.createdAt = now - MaxInstanceAge - 1]}
    BY DEF Recovered
  <1> HIDE DEF r
  <1>7. Recovered(v) \in Record(States) /\ Recovered(v).instance = v /\ Recovered(v).missingPolls = 0
    BY <1>4, <1>5, <1>6 DEF Record
  <1> QED
    BY <1>1, <1>2, <1>3, <1>7 DEF v

LEMMA PollType ==
    ASSUME TypeOK, PollOnTrack, PollStep
    PROVE  TypeOK'
  <1> USE DEF TypeOK
  <1>0. poll \in PollState
    BY DEF ThreadType
  <1>1. CASE PollList
    <2>1. poll' \in PollState
      BY <1>0, <1>1 DEF PollList, PollState, ClusterType
    <2> QED
      BY <1>1, <2>1 DEF PollList, RegistryType, ClusterType, ThreadType, HistoryType, registry, history
  <1>2. CASE PollGet
    <2>1. poll' \in PollState
      <3>1. records[poll.cur] \in Record(States)
        BY <1>0 DEF PollState, RegistryType
      <3>2. poll' \in {[poll EXCEPT !.pc = "add"], [poll EXCEPT !.pc = "reconcile"],
                       [poll EXCEPT !.pc = "update", !.snap[poll.cur] = records[poll.cur]]}
        BY <1>2 DEF PollGet
      <3>3. [poll EXCEPT !.pc = "update", !.snap[poll.cur] = records[poll.cur]] \in PollState
        BY <1>0, <3>1 DEF PollState
      <3>4. [poll EXCEPT !.pc = "add"] \in PollState /\ [poll EXCEPT !.pc = "reconcile"] \in PollState
        BY <1>0 DEF PollState
      <3> QED
        BY <3>2, <3>3, <3>4
    <2> QED
      BY <1>2, <2>1 DEF PollGet, RegistryType, ClusterType, ThreadType, HistoryType, registry, history
  <1>3. CASE PollAdd
    <2>1. CASE CanAdd(records, poll.cur)
      <3>0. poll.cur \in Sandboxes /\ Recovered(Keeper(poll.cur)) \in Record(States)
        BY <1>3, KeeperType DEF PollAdd
      <3>1. RegistryType'
        BY <1>3, <2>1, <3>0, RegistryOperators DEF PollAdd, RegistryType, NextLease
      <3>2. poll' \in PollState
        BY <1>0, <1>3, <2>1 DEF PollAdd, PollState
      <3> QED
        BY <1>3, <2>1, <3>1, <3>2 DEF PollAdd, ClusterType, ThreadType, HistoryType
    <2>2. CASE ~CanAdd(records, poll.cur)
      BY <1>3, <2>2, PollErrorType DEF PollAdd, ClusterType, ThreadType, HistoryType
    <2> QED
      BY <2>1, <2>2
  <1>4. CASE PollUpdate
    <2> DEFINE s == poll.cur
               v == Keeper(s)
               observed == ObservedState(poll.snap[s], poll.listed[v].state)
               r == Reconciled(records[s], v, observed)
    <2>1. s \in Sandboxes /\ v \in Instances /\ poll.listed[v] \in VM
      BY <1>4, KeeperType DEF PollUpdate
    <2> HIDE DEF v
    <2>2. observed \in States
      BY <2>1 DEF ObservedState, VM, States
    <2>3. records[s] \in Record(States)
      BY <2>1 DEF RegistryType
    <2> HIDE DEF observed
    <2>4. r \in Record(States)
      BY <2>1, <2>2, <2>3 DEF Reconciled, Record, VM
    <2>5. records' = [records EXCEPT ![s] = r] \/ records' = records
      BY <1>4 DEF PollUpdate, v, observed
    <2> HIDE DEF r
    <2>6. RegistryType'
      BY <1>4, <2>4, <2>5 DEF PollUpdate, RegistryType
    <2>7. poll' \in PollState
      BY <1>0, <1>4, IdleTypes DEF PollUpdate, PollState
    <2> QED
      BY <1>4, <2>6, <2>7 DEF PollUpdate, ClusterType, ThreadType, HistoryType
  <1>5. CASE PollBroadcast
    <2>1. poll' \in PollState
      BY <1>0, <1>5 DEF PollBroadcast, PollState
    <2>2. RegistryType'
      BY <1>0, <1>5 DEF PollBroadcast, RegistryType, registry
    <2> QED
      BY <1>5, <2>1, <2>2 DEF PollBroadcast, ClusterType, ThreadType, HistoryType, history
  <1>6. CASE PollAll
    <2>1. poll' \in PollState
      <3>1. \A M : [s \in Sandboxes |-> IF s \in M THEN records[s] ELSE NoRecord]
                       \in [Sandboxes -> Record(States)]
        BY IdleTypes DEF RegistryType
      <3>2. {s \in Tracked(records) : records[s].instance # NoInstance /\ s \notin poll.seen}
              \subseteq Sandboxes
        BY DEF Tracked
      <3> QED
        BY <1>6, <3>1, <3>2, IdleTypes DEF PollAll, PollState
    <2>2. HistoryType'
      BY <1>6 DEF PollAll, HistoryType, Saturate, missingPollThreshold
    <2> QED
      BY <1>6, <2>1, <2>2 DEF PollAll, RegistryType, ClusterType, ThreadType, registry
  <1>7. CASE PollConfirm
    <2>1. poll' \in PollState
      <3>1. [poll EXCEPT !.pc = "forget"] \in PollState
        BY <1>0 DEF PollState
      <3>2. [poll EXCEPT !.pc = "missing", !.snap[poll.cur] = NoRecord] \in PollState
        BY <1>0, IdleTypes DEF PollState
      <3> QED
        BY <1>7, <3>1, <3>2 DEF PollConfirm
    <2>2. ClusterType'
      BY <1>7, ProviderOperators DEF PollConfirm, ClusterType
    <2> QED
      BY <1>7, <2>1, <2>2 DEF PollConfirm, RegistryType, ThreadType, HistoryType, registry, history
  <1>8. CASE PollForget
    <2>1. poll' \in PollState
      BY <1>0, <1>8, IdleTypes DEF PollForget, PollState
    <2>2. RegistryType'
      BY <1>0, <1>8, RegistryOperators DEF PollForget, PollState, RegistryType
    <2>3. HistoryType'
      <3>1. records[poll.cur].instance \in Instances \cup {NoInstance}
        BY <1>0 DEF PollState, RegistryType, Record
      <3>2. ForgetAllowed(records[poll.cur], poll.snap[poll.cur])
              => records[poll.cur].instance # NoInstance
        BY <1>8 DEF PollForget, PollOnTrack, Committed, ForgetAllowed, SameIncarnation
      <3> QED
        BY <1>8, <3>1, <3>2 DEF PollForget, HistoryType
    <2> QED
      BY <1>8, <2>1, <2>2, <2>3 DEF PollForget, ClusterType, ThreadType
  <1>9. CASE PollBroadcastDeleted
    <2>1. poll' \in PollState
      BY <1>0, <1>9 DEF PollBroadcastDeleted, PollState
    <2>2. RegistryType'
      BY <1>0, <1>9 DEF PollBroadcastDeleted, RegistryType, registry
    <2> QED
      BY <1>9, <2>1, <2>2 DEF PollBroadcastDeleted, ClusterType, ThreadType, HistoryType, history
  <1>10. CASE PollExpired
    <2>1. poll' \in PollState
      <3>1. \A M : [s \in Sandboxes |-> IF s \in M THEN records[s] ELSE NoRecord]
                       \in [Sandboxes -> Record(States)]
        BY IdleTypes DEF RegistryType
      <3>2. {s \in Expired(records, now) : /\ records[s].instance # NoInstance
                                           /\ records[s].state # "deleting"} \subseteq Sandboxes
        BY DEF Expired, Tracked
      <3> QED
        BY <1>10, <3>1, <3>2, IdleTypes DEF PollExpired, PollState
    <2> QED
      BY <1>10, <2>1 DEF PollExpired, RegistryType, ClusterType, ThreadType, HistoryType, registry,
                         history
  <1>11. CASE PollExpireUpdate
    <2>1. poll' \in PollState
      BY <1>0, <1>11, IdleTypes DEF PollExpireUpdate, PollState
    <2>2. RegistryType'
      BY <1>0, <1>11, RegistryOperators DEF PollExpireUpdate, PollState, RegistryType, States
    <2> QED
      BY <1>11, <2>1, <2>2 DEF PollExpireUpdate, ClusterType, ThreadType, HistoryType, history
  <1>12. CASE PollDone
    BY <1>12, IdleTypes DEF PollDone, RegistryType, ClusterType, ThreadType, HistoryType, registry,
                            history
  <1>13. ASSUME NEW s \in Sandboxes, PollPick(s) PROVE TypeOK'
    <2>1. Live(s) \ {Keeper(s)} \subseteq Instances
      BY DEF Live
    <2>2. poll' \in PollState
      BY <1>0, <1>13, <2>1 DEF PollPick, PollState
    <2> QED
      BY <1>13, <2>2 DEF PollPick, RegistryType, ClusterType, ThreadType, HistoryType, registry,
                         history
  <1>14. ASSUME NEW s \in Sandboxes, PollMissing(s) PROVE TypeOK'
    <2>1. poll' \in PollState
      BY <1>0, <1>14, IdleTypes DEF PollMissing, PollState
    <2>2. records[s].missingPolls \in Nat
      BY DEF RegistryType, Record
    <2>3. Missed(records[s].missingPolls) \in Nat
      BY <2>2 DEF Missed, Saturate, missingPollThreshold
    <2>4. RegistryType'
      BY <1>14, <2>3, RegistryOperators DEF PollMissing, RegistryType
    <2> QED
      BY <1>14, <2>1, <2>4 DEF PollMissing, ClusterType, ThreadType, HistoryType, history
  <1>15. ASSUME NEW s \in Sandboxes, PollExpire(s) PROVE TypeOK'
    <2>1. poll' \in PollState
      <3>1. [poll EXCEPT !.todo = @ \ {s}, !.cur = s, !.pc = "expireUpdate"] \in PollState
        BY <1>0 DEF PollState
      <3>2. [poll EXCEPT !.todo = @ \ {s}, !.snap[s] = NoRecord] \in PollState
        BY <1>0, IdleTypes DEF PollState
      <3> QED
        BY <1>15, <3>1, <3>2 DEF PollExpire
    <2>2. ClusterType'
      BY <1>15, ProviderOperators DEF PollExpire, ClusterType
    <2> QED
      BY <1>15, <2>1, <2>2 DEF PollExpire, RegistryType, ThreadType, HistoryType, registry, history
  <1>16. ASSUME NEW v \in Instances, PollTerminateDuplicate(v) PROVE TypeOK'
    <2>1. ClusterType'
      BY <1>16, ProviderOperators DEF PollTerminateDuplicate, ClusterType
    <2>2. RegistryType' /\ poll' \in PollState
      BY <1>0, <1>16, PollErrorType DEF PollTerminateDuplicate, PollState, RegistryType
    <2> QED
      BY <1>16, <2>1, <2>2 DEF PollTerminateDuplicate, ThreadType, HistoryType, history
  <1> QED
    BY <1>1, <1>2, <1>3, <1>4, <1>5, <1>6, <1>7, <1>8, <1>9, <1>10, <1>11, <1>12, <1>13, <1>14,
       <1>15, <1>16 DEF PollStep

LEMMA EnvironmentType ==
    ASSUME TypeOK, Environment
    PROVE  TypeOK'
  <1> USE DEF TypeOK
  <1>1. CASE Tick
    <2>1. ClusterType'
      BY <1>1, LimitsArePositive DEF Tick, ClusterType, Start
    <2> QED
      BY <1>1, <2>1 DEF Tick, RegistryType, ThreadType, HistoryType, registry, history
  <1>2. CASE Restart
    <2>1. RegistryType'
      BY <1>2, IdleTypes DEF Restart, RegistryType
    <2>2. ClusterType'
      BY <1>2 DEF Restart, ClusterType
    <2>3. ThreadType'
      <3>1. serving' \in BOOLEAN
        BY <1>2, Zenon DEF Restart
      <3>2. restarts' \in Nat
        BY <1>2 DEF Restart, ThreadType
      <3> QED
        BY <1>2, <3>1, <3>2, IdleTypes DEF Restart, ThreadType
    <2>4. HistoryType'
      BY <1>2 DEF Restart, HistoryType, missingPollThreshold
    <2> QED
      BY <2>1, <2>2, <2>3, <2>4
  <1>3. ASSUME NEW v \in Instances, VMChanges(v) PROVE TypeOK'
    <2>1. PICK e \in VMEvents : vms' = [vms EXCEPT ![v].state = e[2]]
      BY <1>3 DEF VMChanges
    <2>2. e[2] \in VMStates
      BY EnvironmentIsKnown
    <2>3. ClusterType'
      BY <1>3, <2>1, <2>2 DEF VMChanges, ClusterType, VM
    <2> QED
      BY <1>3, <2>3 DEF VMChanges, RegistryType, ThreadType, HistoryType, registry, history
  <1>4. ASSUME NEW v \in Instances, VMGone(v) PROVE TypeOK'
    BY <1>4, IdleTypes DEF VMGone, RegistryType, ClusterType, ThreadType, HistoryType, registry
  <1>5. ASSUME NEW l \in late, ApplyLate(l) PROVE TypeOK'
    <2>1. l.vm \in Instances /\ [state |-> "Starting", createdAt |-> l.createdAt] \in VM
      BY DEF ClusterType, VM, VMStates
    <2>2. ClusterType'
      BY <1>5, <2>1 DEF ApplyLate, ClusterType
    <2>3. HistoryType'
      BY <1>5, <2>1 DEF ApplyLate, HistoryType
    <2> QED
      BY <1>5, <2>2, <2>3 DEF ApplyLate, RegistryType, ThreadType, registry
  <1> QED
    BY <1>1, <1>2, <1>3, <1>4, <1>5 DEF Environment

-----------------------------------------------------------------------------
(* Who may change what.                                                     *)

LEMMA CreateFrame ==
    ASSUME NEW c \in Creates, CreateStep(c)
    PROVE  UNCHANGED <<rpc, poll, serving, absentRun>>
  BY DEF CreateStep, CreateReserve, CreateLaunchRefused, CreateLaunch, CreateUnanswered,
         CreateLaunchFails,
         CreateCommit, CreateCompensate, CreateRollback, CreateBroadcast, history

LEMMA RpcFrame ==
    ASSUME NEW p \in Rpcs, RpcStep(p)
    PROVE  UNCHANGED <<create, poll, serving, absentRun>>
  BY DEF RpcStep, DeleteScan, DeleteMark, DeletePass, RpcStart, ResolveRegistry, ResolveList, ResolveAdd, ResolveAdopt,
         ResolveReread, RpcCall, RpcCallFails, RpcUpdate, RpcBroadcast, history

LEMMA PollFrame ==
    ASSUME PollStep
    PROVE  UNCHANGED <<create, rpc>> /\ (PollDone \/ UNCHANGED serving)
  BY DEF PollStep, PollList, PollGet, PollAdd, PollUpdate, PollBroadcast, PollAll, PollConfirm,
         PollForget, PollBroadcastDeleted, PollExpired, PollExpireUpdate, PollDone, PollPick,
         PollMissing, PollExpire, PollTerminateDuplicate

LEMMA EnvironmentFrame ==
    ASSUME Environment
    PROVE  Restart \/ UNCHANGED <<records, nextLease, create, rpc, poll, serving, absentRun>>
  BY DEF Environment, Tick, VMChanges, VMGone, ApplyLate, registry, history

-----------------------------------------------------------------------------
(* The reconciler stays on track.                                           *)

\* Live depends on the list of the poll only.
LEMMA LiveFrame ==
    ASSUME poll'.listed = poll.listed
    PROVE  \A s : Live(s)' = Live(s)
  BY DEF Live, Exists

LEMMA PollOnTrackStep ==
    ASSUME TypeOK, PollOnTrack, Next
    PROVE  PollOnTrack'
  <1>0. poll \in PollState
    BY DEF TypeOK, ThreadType
  <1>1. ASSUME poll' = poll PROVE PollOnTrack'
    BY <1>1, LiveFrame DEF PollOnTrack
  <1>2. ASSUME poll' = IdlePoll PROVE PollOnTrack'
    BY <1>2 DEF PollOnTrack, IdlePoll
  <1>3. ASSUME NEW c \in Creates, CreateStep(c) PROVE PollOnTrack'
    BY <1>1, <1>3, CreateFrame
  <1>4. ASSUME NEW p \in Rpcs, RpcStep(p) PROVE PollOnTrack'
    BY <1>1, <1>4, RpcFrame
  <1>5. CASE Environment
    BY <1>1, <1>2, <1>5, EnvironmentFrame DEF Restart
  <1>6. CASE PollStep
    <2>1. CASE PollList
      <3>1. /\ poll'.pc = "reconcile"
            /\ poll'.listed = vms
            /\ \A s \in poll'.todo : \E v \in Instances : SandboxOf[v] = s /\ Exists(vms, v)
        BY <1>0, <2>1 DEF PollList, PollState
      <3>2. \A s \in poll'.todo : Live(s)' # {}
        BY <3>1 DEF Live
      <3> QED
        BY <3>1, <3>2 DEF PollOnTrack
    <2>2. CASE PollGet
      <3>1. /\ poll'.listed = poll.listed /\ poll'.todo = poll.todo /\ poll'.cur = poll.cur
            /\ poll'.pc \in {"add", "update", "reconcile"}
            /\ poll'.pc = "update" => poll'.snap[poll.cur].lease # 0
        <4>1. CASE poll.cur \in Tracked(records)
          <5>1. \/ poll' = [poll EXCEPT !.pc = "update", !.snap[poll.cur] = records[poll.cur]]
                \/ poll' = [poll EXCEPT !.pc = "reconcile"]
            BY <2>2, <4>1 DEF PollGet
          <5>2. records[poll.cur].lease # 0 /\ poll.cur \in Sandboxes
            BY <4>1 DEF Tracked
          <5>3. CASE poll' = [poll EXCEPT !.pc = "update", !.snap[poll.cur] = records[poll.cur]]
            <6>1. poll'.snap = [poll.snap EXCEPT ![poll.cur] = records[poll.cur]]
              BY <1>0, <5>3 DEF PollState
            <6>2. poll'.snap[poll.cur] = records[poll.cur]
              BY <1>0, <5>2, <6>1 DEF PollState
            <6>3. /\ poll'.listed = poll.listed /\ poll'.todo = poll.todo /\ poll'.cur = poll.cur
                  /\ poll'.pc = "update"
              BY <1>0, <5>3 DEF PollState
            <6> QED
              BY <5>2, <6>2, <6>3
          <5>4. CASE poll' = [poll EXCEPT !.pc = "reconcile"]
            BY <1>0, <5>4 DEF PollState
          <5> QED
            BY <5>1, <5>3, <5>4
        <4>2. CASE poll.cur \notin Tracked(records)
          BY <1>0, <2>2, <4>2 DEF PollGet, PollState
        <4> QED
          BY <4>1, <4>2
      <3> QED
        BY <2>2, <3>1, LiveFrame DEF PollOnTrack, PollGet
    <2>3. CASE PollAdd
      BY <1>0, <1>2, <2>3, LiveFrame DEF PollAdd, PollReturnsError, PollOnTrack, PollState
    <2>4. CASE PollUpdate
      BY <1>0, <2>4, LiveFrame DEF PollUpdate, PollOnTrack, PollState
    <2>5. CASE PollBroadcast
      BY <1>0, <2>5, LiveFrame DEF PollBroadcast, PollOnTrack, PollState
    <2>6. CASE PollAll
      BY <2>6 DEF PollAll, PollOnTrack, Committed, IdlePoll, Tracked
    <2>7. CASE PollConfirm
      <3>1. CASE poll' = [poll EXCEPT !.pc = "forget"]
        BY <1>0, <2>7, <3>1 DEF PollConfirm, PollOnTrack, PollState
      <3>2. CASE poll' = [poll EXCEPT !.pc = "missing", !.snap[poll.cur] = NoRecord]
        BY <1>0, <2>7, <3>2 DEF PollConfirm, PollOnTrack, PollState
      <3> QED
        BY <2>7, <3>1, <3>2 DEF PollConfirm
    <2>8. CASE PollForget
      BY <1>0, <2>8 DEF PollForget, PollOnTrack, PollState
    <2>9. CASE PollBroadcastDeleted
      BY <1>0, <2>9 DEF PollBroadcastDeleted, PollOnTrack, PollState
    <2>10. CASE PollExpired
      BY <2>10 DEF PollExpired, PollOnTrack, Committed, IdlePoll, Expired, Tracked
    <2>11. CASE PollExpireUpdate
      BY <1>0, <2>11 DEF PollExpireUpdate, PollOnTrack, PollState
    <2>12. CASE PollDone
      BY <1>2, <2>12 DEF PollDone
    <2>13. ASSUME NEW s \in Sandboxes, PollPick(s) PROVE PollOnTrack'
      BY <1>0, <2>13, LiveFrame DEF PollPick, PollOnTrack, PollState
    <2>14. ASSUME NEW s \in Sandboxes, PollMissing(s) PROVE PollOnTrack'
      BY <1>0, <2>14 DEF PollMissing, PollOnTrack, PollState
    <2>15. ASSUME NEW s \in Sandboxes, PollExpire(s) PROVE PollOnTrack'
      <3>1. CASE poll' = [poll EXCEPT !.todo = @ \ {s}, !.cur = s, !.pc = "expireUpdate"]
        BY <1>0, <2>15, <3>1 DEF PollExpire, PollOnTrack, PollState
      <3>2. CASE poll' = [poll EXCEPT !.todo = @ \ {s}, !.snap[s] = NoRecord]
        BY <1>0, <2>15, <3>2 DEF PollExpire, PollOnTrack, PollState
      <3> QED
        BY <2>15, <3>1, <3>2 DEF PollExpire
    <2>16. ASSUME NEW v \in Instances, PollTerminateDuplicate(v) PROVE PollOnTrack'
      BY <1>0, <1>2, <2>16, LiveFrame DEF PollTerminateDuplicate, PollReturnsError, PollOnTrack,
                                          PollState
    <2> QED
      BY <1>6, <2>1, <2>2, <2>3, <2>4, <2>5, <2>6, <2>7, <2>8, <2>9, <2>10, <2>11, <2>12, <2>13,
         <2>14, <2>15, <2>16 DEF PollStep
  <1> QED
    BY <1>3, <1>4, <1>5, <1>6 DEF Next

-----------------------------------------------------------------------------
(* The threads hold what they need.                                         *)

LEMMA NobodyCallsEarlyStep ==
    ASSUME TypeOK, NobodyCallsEarly, Next
    PROVE  NobodyCallsEarly'
  <1>1. ASSUME NEW c \in Creates, CreateStep(c) PROVE serving
    <2>1. ~serving => create[c].pc = "idle"
      BY IdleTypes, Zenon DEF NobodyCallsEarly
    <2> QED
      BY <1>1, <2>1 DEF CreateStep, CreateReserve, CreateLaunchRefused, CreateLaunch,
                        CreateUnanswered, CreateLaunchFails, CreateCommit, CreateCompensate, CreateRollback,
                        CreateBroadcast
  <1>2. ASSUME NEW c \in Creates, CreateStep(c) PROVE NobodyCallsEarly'
    BY <1>1, <1>2, CreateFrame DEF NobodyCallsEarly
  <1>3. ASSUME NEW p \in Rpcs, RpcStep(p) PROVE NobodyCallsEarly'
    BY <1>3, RpcFrame DEF NobodyCallsEarly
  <1>4. CASE PollStep
    BY <1>4, PollFrame DEF NobodyCallsEarly, PollDone
  <1>5. CASE Environment
    BY <1>5, EnvironmentFrame DEF NobodyCallsEarly, Restart
  <1> QED
    BY <1>2, <1>3, <1>4, <1>5 DEF Next

LEMMA CreatesHoldLeasesStep ==
    ASSUME TypeOK, CreatesHoldLeases, Next
    PROVE  CreatesHoldLeases'
  <1>1. ASSUME NEW c \in Creates, CreateStep(c) PROVE CreatesHoldLeases'
    <2>1. create \in [Creates -> CreateCall]
      BY DEF TypeOK, ThreadType
    <2>2. ASSUME NEW s \in Sandboxes, CreateReserve(c, s) PROVE CreatesHoldLeases'
      BY <2>1, <2>2 DEF CreateReserve, NextLease, CreatesHoldLeases, TypeOK, RegistryType
    <2>3. CASE create'[c] = IdleCreate /\ \A d \in Creates \ {c} : create'[d] = create[d]
      BY <2>3, IdleTypes DEF CreatesHoldLeases
    <2>4. CASE /\ create[c].pc # "idle" /\ create'[c].lease = create[c].lease
               /\ \A d \in Creates \ {c} : create'[d] = create[d]
      BY <2>4 DEF CreatesHoldLeases
    <2>5. \/ \E s \in Sandboxes : CreateReserve(c, s)
          \/ create'[c] = IdleCreate /\ \A d \in Creates \ {c} : create'[d] = create[d]
          \/ /\ create[c].pc # "idle" /\ create'[c].lease = create[c].lease
             /\ \A d \in Creates \ {c} : create'[d] = create[d]
      <3>1. CASE CreateLaunch(c)
        <4>1. PICK vm : create' = [create EXCEPT ![c] = [@ EXCEPT !.pc = "launched", !.vm = vm]]
          BY <3>1 DEF CreateLaunch
        <4>2. create[c].pc # "idle"
          BY <3>1 DEF CreateLaunch
        <4> QED
          BY <2>1, <4>1, <4>2 DEF CreateCall
      <3>2. CASE CreateRollback(c) \/ CreateBroadcast(c)
        BY <2>1, <3>2 DEF CreateRollback, CreateBroadcast
      <3>3. CASE CreateLaunchRefused(c) \/ CreateUnanswered(c) \/ CreateLaunchFails(c)
                 \/ CreateCommit(c) \/ CreateCompensate(c)
        BY <2>1, <3>3 DEF CreateLaunchRefused, CreateUnanswered, CreateLaunchFails, CreateCommit,
                          CreateCompensate, CreateCall
      <3> QED
        BY <1>1, <3>1, <3>2, <3>3 DEF CreateStep
    <2> QED
      BY <2>2, <2>3, <2>4, <2>5
  <1>2. ASSUME NEW p \in Rpcs, RpcStep(p) PROVE CreatesHoldLeases'
    BY <1>2, RpcFrame DEF CreatesHoldLeases
  <1>3. CASE PollStep
    BY <1>3, PollFrame DEF CreatesHoldLeases
  <1>4. CASE Environment
    BY <1>4, EnvironmentFrame, IdleTypes DEF CreatesHoldLeases, Restart
  <1> QED
    BY <1>1, <1>2, <1>3, <1>4 DEF Next

LEMMA RequestsAreResolvedStep ==
    ASSUME TypeOK, RequestsAreResolved, Next
    PROVE  RequestsAreResolved'
  <1>1. ASSUME NEW p \in Rpcs, RpcStep(p) PROVE RequestsAreResolved'
    <2> DEFINE Fine(r) ==
          /\ r.pc \in {"add", "adopt"} => r.instance \in Instances /\ SandboxOf[r.instance] = r.sandbox
          /\ r.pc \in {"call", "update"} => r.instance # NoInstance
    <2>1. rpc \in [Rpcs -> RpcCallState]
      BY DEF TypeOK, ThreadType
    <2>2. Fine(IdleRpc)
      BY IdleTypes
    <2>0. \A q \in Rpcs \ {p} : rpc'[q] = rpc[q]
      BY <1>1, <2>1 DEF RpcStep, DeleteScan, DeleteMark, DeletePass, RpcStart, ResolveRegistry, ResolveList, ResolveAdd,
           ResolveAdopt, ResolveReread, RpcCall, RpcCallFails, RpcUpdate, RpcBroadcast, Return,
           Resolved
    <2> SUFFICES Fine(rpc'[p])
      BY <2>0 DEF RequestsAreResolved
    <2>3. ASSUME NEW s, NEW v, Resolved(p, s, v), v # NoInstance
          PROVE  Fine(rpc'[p])
      BY <2>1, <2>2, <2>3 DEF Resolved, RpcCallState
    <2>4. Fine(rpc[p])
      BY DEF RequestsAreResolved
    <2>5. ASSUME NEW s \in Sandboxes, DeleteMark(p, s) PROVE Fine(rpc'[p])
      BY <2>1, <2>5, IdleTypes DEF DeleteMark, RpcCallState
    <2>6. ASSUME rpc'[p].pc \in {"mark", "resolve"} PROVE Fine(rpc'[p])
      BY <2>6
    <2>14. ASSUME NEW s \in Sandboxes, DeletePass(p, s) PROVE rpc'[p].pc \in {"mark", "resolve"}
      BY <2>1, <2>14 DEF DeletePass, RpcCallState
    <2>15. ASSUME NEW T \in Targets, DeleteScan(p, T) PROVE rpc'[p].pc \in {"mark", "resolve"}
      BY <2>1, <2>15 DEF DeleteScan, RpcCallState
    <2>16. ASSUME NEW T \in Targets, NEW op \in Ops, RpcStart(p, op, T)
           PROVE  rpc'[p].pc \in {"mark", "resolve"}
      BY <2>1, <2>16 DEF RpcStart, RpcCallState
    <2>7. CASE ResolveRegistry(p)
      <3>1. CASE rpc' = [rpc EXCEPT ![p].pc = "list"]
        BY <2>1, <3>1 DEF RpcCallState
      <3> QED
        BY <2>1, <2>2, <2>3, <2>7, <3>1 DEF ResolveRegistry, Return
    <2>8. CASE ResolveList(p)
      <3>1. CASE Return(p)
        BY <2>1, <2>2, <3>1 DEF Return
      <3>2. CASE ~Return(p)
        <4>1. PICK v \in Instances :
                 rpc' = [rpc EXCEPT ![p] = [@ EXCEPT !.pc = "add", !.instance = v,
                             !.sandbox = SandboxOf[v], !.target = {}, !.found = vms[v]]]
          BY <2>8, <3>2 DEF ResolveList
        <4> QED
          BY <2>1, <4>1 DEF RpcCallState
      <3> QED
        BY <3>1, <3>2
    <2>9. CASE ResolveAdd(p)
      <3>1. rpc[p].instance # NoInstance
        BY <2>4, <2>9, InstancesAreNames DEF ResolveAdd, NoInstance
      <3>2. CASE rpc' = [rpc EXCEPT ![p].pc = "adopt"]
        BY <2>1, <2>4, <2>9, <3>2 DEF ResolveAdd, RpcCallState
      <3> QED
        BY <2>3, <2>9, <3>1, <3>2 DEF ResolveAdd
    <2>10. CASE ResolveAdopt(p)
      <3>1. rpc[p].instance # NoInstance
        BY <2>4, <2>10, InstancesAreNames DEF ResolveAdopt, NoInstance
      <3>2. CASE rpc' = [rpc EXCEPT ![p].pc = "reread"]
        BY <2>1, <3>2 DEF RpcCallState
      <3> QED
        BY <2>3, <2>10, <3>1, <3>2 DEF ResolveAdopt
    <2>11. CASE ResolveReread(p)
      BY <2>1, <2>2, <2>3, <2>11 DEF ResolveReread, Return
    <2>12. CASE RpcCall(p)
      BY <2>1, <2>4, <2>12 DEF RpcCall, RpcCallState
    <2>13. CASE RpcCallFails(p) \/ RpcUpdate(p) \/ RpcBroadcast(p)
      BY <2>1, <2>2, <2>13 DEF RpcCallFails, RpcUpdate, RpcBroadcast, Return, RpcCallState
    <2> QED
      BY <1>1, <2>5, <2>6, <2>7, <2>8, <2>9, <2>10, <2>11, <2>12, <2>13, <2>14, <2>15, <2>16
         DEF RpcStep
  <1>2. ASSUME NEW c \in Creates, CreateStep(c) PROVE RequestsAreResolved'
    BY <1>2, CreateFrame DEF RequestsAreResolved
  <1>3. CASE PollStep
    BY <1>3, PollFrame DEF RequestsAreResolved
  <1>4. CASE Environment
    BY <1>4, EnvironmentFrame, IdleTypes DEF RequestsAreResolved, Restart
  <1> QED
    BY <1>1, <1>2, <1>3, <1>4 DEF Next

-----------------------------------------------------------------------------
(* What a step does to the registry, whoever takes it.                      *)

Replaced(s, r) == records' = [records EXCEPT ![s] = r]

\* A new record under a new lease.
Fresh(s, r) == /\ records[s].lease = 0
               /\ nextLease' = nextLease + 1
               /\ r.lease = nextLease'
               /\ r.missingPolls = 0
               /\ Replaced(s, r)
Reserved(s, r) == CanReserve(records, s) /\ Fresh(s, r) /\ r.instance = NoInstance
Belongs(v, s) == v \in Instances /\ SandboxOf[v] = s
Found(s, r) == Fresh(s, r) /\ Belongs(r.instance, s)

\* A record changes under its lease and never loses its instance.
Edited(s, r) == /\ records[s].lease # 0
                /\ UNCHANGED nextLease
                /\ r.lease = records[s].lease
                /\ r.instance = records[s].instance \/ Belongs(r.instance, s)
                /\ Replaced(s, r)

Dropped(s) == UNCHANGED nextLease /\ Replaced(s, NoRecord)

Emptied == records' = NewRegistry /\ nextLease' = 0 /\ ~serving' /\ create' = [c \in Creates |-> IdleCreate]

LEMMA StoreReplaces ==
    ASSUME NEW s \in Sandboxes, NEW rec \in Record(States), NEW n \in Nat,
           records \in [Sandboxes -> Record(States)], records' = Store(records, s, rec, n)
    PROVE  \E r \in Record(States) : /\ Replaced(s, r)
                                     /\ r.lease = n
                                     /\ r.instance = rec.instance
                                     /\ r.missingPolls = rec.missingPolls
  <1> DEFINE r == [rec EXCEPT !.lease = n]
  <1>1. r \in Record(States) /\ r.lease = n /\ r.instance = rec.instance
        /\ r.missingPolls = rec.missingPolls
    BY DEF Record
  <1>2. Replaced(s, r)
    BY DEF Store, Replaced
  <1> QED
    BY <1>1, <1>2

LEMMA CreateEffect ==
    ASSUME TypeOK, CreatesHoldLeases, NEW c \in Creates, CreateStep(c)
    PROVE  /\ \A d \in Creates \ {c} : create'[d] = create[d]
           /\ \/ \E s \in Sandboxes, r \in Record(States) :
                   Reserved(s, r) /\ create'[c].lease = nextLease' /\ create'[c].sandbox = s
              \/ /\ \/ create'[c].lease = 0
                    \/ /\ create'[c].lease = create[c].lease
                       /\ create'[c].sandbox = create[c].sandbox
                 /\ \/ UNCHANGED registry
                    \/ \E s \in Sandboxes, r \in Record(States) :
                         Edited(s, r) /\ r.missingPolls = records[s].missingPolls
                    \/ \E s \in Sandboxes : Dropped(s) /\ records[s].instance = NoInstance
  <1>0. /\ create \in [Creates -> CreateCall]
        /\ create[c].sandbox \in Sandboxes
        /\ records \in [Sandboxes -> Record(States)] /\ nextLease \in Nat
    BY DEF TypeOK, ThreadType, CreateCall, RegistryType
  <1>1. \A d \in Creates \ {c} : create'[d] = create[d]
    BY <1>0 DEF CreateStep, CreateReserve, CreateLaunchRefused, CreateLaunch, CreateUnanswered,
         CreateLaunchFails,
         CreateCommit, CreateCompensate, CreateRollback, CreateBroadcast
  <1> DEFINE Same == /\ create'[c].lease = create[c].lease
                     /\ create'[c].sandbox = create[c].sandbox
  <1>2. ASSUME NEW s \in Sandboxes, CreateReserve(c, s)
        PROVE  \E r \in Record(States) :
                   Reserved(s, r) /\ create'[c].lease = nextLease' /\ create'[c].sandbox = s
    <2> DEFINE rec == [NoRecord EXCEPT !.state = "launching", !.createdAt = now]
    <2>1. rec \in Record(States) /\ rec.instance = NoInstance /\ rec.missingPolls = 0
      <3>1. NoRecord.instance = NoInstance /\ NoRecord.missingPolls = 0 /\ now \in Nat
        BY DEF NoRecord, TypeOK, ClusterType
      <3> QED
        BY <3>1, IdleTypes DEF Record, States
    <2>2. /\ nextLease' = nextLease + 1 /\ records' = Store(records, s, rec, nextLease')
          /\ CanReserve(records, s)
      BY <1>2 DEF CreateReserve, NextLease
    <2>3. create'[c].lease = nextLease' /\ create'[c].sandbox = s
      BY <1>0, <1>2 DEF CreateReserve
    <2> HIDE DEF rec
    <2>4. PICK r \in Record(States) : /\ Replaced(s, r) /\ r.lease = nextLease'
                                      /\ r.instance = NoInstance /\ r.missingPolls = 0
      BY <1>0, <2>1, <2>2, StoreReplaces
    <2> QED
      BY <2>2, <2>3, <2>4 DEF Reserved, Fresh, CanReserve, Tracked
  <1>3. CASE CreateLaunchRefused(c) \/ CreateLaunch(c) \/ CreateUnanswered(c)
             \/ CreateLaunchFails(c) \/ CreateCompensate(c)
    <2>1. Same /\ UNCHANGED registry
      <3>1. CASE CreateLaunch(c)
        <4>1. PICK vm : create' = [create EXCEPT ![c] = [@ EXCEPT !.pc = "launched", !.vm = vm]]
          BY <3>1 DEF CreateLaunch
        <4>2. UNCHANGED registry
          BY <3>1 DEF CreateLaunch
        <4> QED
          BY <1>0, <4>1, <4>2 DEF CreateCall
      <3>2. CASE ~CreateLaunch(c)
        BY <1>0, <1>3, <3>2 DEF CreateLaunchRefused, CreateUnanswered, CreateLaunchFails, CreateCompensate,
                               CreateCall
      <3> QED
        BY <3>1, <3>2
    <2> QED
      BY <1>1, <2>1
  <1>4. CASE CreateCommit(c)
    <2> DEFINE s == create[c].sandbox
               r == [records[s] EXCEPT !.instance = VMName[s], !.state = create[c].vm.state,
                                       !.createdAt = create[c].vm.createdAt]
    <2>1. Same
      BY <1>0, <1>4 DEF CreateCommit, CreateCall
    <2>2. CASE ~CommitAllowed(records[s], create[c].lease)
      BY <1>1, <1>4, <2>1, <2>2 DEF CreateCommit, registry
    <2>3. CASE CommitAllowed(records[s], create[c].lease)
      <3>1. records[s].lease # 0
        BY <1>4, <2>3 DEF CreateCommit, CommitAllowed, CreatesHoldLeases
      <3>2. records[s] \in Record(States) /\ create[c].vm \in VM /\ VMName[s] \in Instances
        BY <1>0, VMsAreAnnotated DEF CreateCall
      <3>3. /\ r \in Record(States) /\ r.lease = records[s].lease /\ r.instance = VMName[s]
            /\ r.missingPolls = records[s].missingPolls
        BY <3>2 DEF Record, States, VM
      <3>4. Replaced(s, r) /\ UNCHANGED nextLease
        BY <1>4, <2>3 DEF CreateCommit, Replaced
      <3> HIDE DEF r
      <3>5. Edited(s, r)
        BY <1>0, <3>1, <3>2, <3>3, <3>4, VMsAreAnnotated DEF Edited, Belongs
      <3> QED
        BY <1>0, <1>1, <2>1, <3>3, <3>5
    <2> QED
      BY <2>2, <2>3
  <1>5. CASE CreateRollback(c)
    <2>1. create'[c].lease = 0
      BY <1>0, <1>5, IdleTypes DEF CreateRollback
    <2>2. \/ UNCHANGED registry
          \/ Dropped(create[c].sandbox) /\ records[create[c].sandbox].instance = NoInstance
      BY <1>5 DEF CreateRollback, Rollback, Dropped, Replaced, registry
    <2> QED
      BY <1>0, <1>1, <2>1, <2>2
  <1>6. CASE CreateBroadcast(c)
    <2>1. create'[c].lease = 0 /\ UNCHANGED registry
      BY <1>0, <1>6, IdleTypes DEF CreateBroadcast
    <2> QED
      BY <1>1, <2>1
  <1> QED
    BY <1>1, <1>2, <1>3, <1>4, <1>5, <1>6 DEF CreateStep

LEMMA RpcEffect ==
    ASSUME TypeOK, RequestsAreResolved, AbsentIsZero, NEW p \in Rpcs, RpcStep(p)
    PROVE  \/ UNCHANGED registry
           \/ \E s \in Sandboxes, r \in Record(States) :
                \/ Found(s, r)
                \/ Edited(s, r) /\ r.missingPolls = records[s].missingPolls
  <1>0. /\ records \in [Sandboxes -> Record(States)] /\ nextLease \in Nat
        /\ rpc[p] \in RpcCallState
        /\ rpc[p].sandbox \in Sandboxes /\ rpc[p].found \in VM
    BY DEF TypeOK, ThreadType, RpcCallState, RegistryType
  <1>1. ASSUME NEW s \in Sandboxes, NEW st \in States, records[s].lease # 0,
               records' = [records EXCEPT ![s].state = st], UNCHANGED nextLease
        PROVE  \E r \in Record(States) : Edited(s, r) /\ r.missingPolls = records[s].missingPolls
    <2> DEFINE r == [records[s] EXCEPT !.state = st]
    <2>1. /\ r \in Record(States) /\ r.lease = records[s].lease /\ r.instance = records[s].instance
          /\ r.missingPolls = records[s].missingPolls
      BY <1>0 DEF Record
    <2>2. Replaced(s, r)
      BY <1>1 DEF Replaced
    <2> HIDE DEF r
    <2> QED
      BY <1>1, <2>1, <2>2 DEF Edited
  <1>2. ASSUME NEW s \in Sandboxes, DeleteMark(p, s)
        PROVE  \E t \in Sandboxes, r \in Record(States) :
                  Edited(t, r) /\ r.missingPolls = records[t].missingPolls
    <2>1. "delete-requested" \in States
      BY DEF States
    <2> QED
      BY <1>1, <1>2, <2>1 DEF DeleteMark, Launching
  <1>3. CASE ResolveAdd(p)
    <2> DEFINE s == rpc[p].sandbox
               rec == recordFromInstance(rpc[p].instance, rpc[p].found)
    <2>1. CASE ~CanAdd(records, s)
      BY <1>3, <2>1 DEF ResolveAdd
    <2>2. CASE CanAdd(records, s)
      <3>1. Belongs(rpc[p].instance, s)
        BY <1>3 DEF RequestsAreResolved, ResolveAdd, Belongs
      <3>2. rec \in Record(States) /\ rec.instance = rpc[p].instance /\ rec.missingPolls = 0
        BY <1>0, <3>1, IdleTypes DEF recordFromInstance, NoRecord, Record, States, VM, Belongs
      <3> HIDE DEF rec
      <3>3. nextLease' = nextLease + 1 /\ records' = Store(records, s, rec, nextLease')
        BY <1>3, <2>2 DEF ResolveAdd, NextLease, rec
      <3>4. PICK r \in Record(States) : /\ Replaced(s, r) /\ r.lease = nextLease'
                                        /\ r.instance = rec.instance /\ r.missingPolls = 0
        BY <1>0, <3>2, <3>3, StoreReplaces
      <3>5. Found(s, r)
        BY <1>0, <2>2, <3>1, <3>2, <3>3, <3>4 DEF Found, Fresh, CanAdd, Tracked
      <3> QED
        BY <1>0, <3>5
    <2> QED
      BY <2>1, <2>2
  <1>4. CASE ResolveAdopt(p)
    <2> DEFINE s == rpc[p].sandbox
               r == [records[s] EXCEPT !.instance = rpc[p].instance, !.state = rpc[p].found.state,
                                       !.createdAt = rpc[p].found.createdAt]
    <2>1. CASE ~Launching(records[s])
      BY <1>4, <2>1 DEF ResolveAdopt, registry
    <2>2. CASE Launching(records[s])
      <3>1. Belongs(rpc[p].instance, s)
        BY <1>4 DEF RequestsAreResolved, ResolveAdopt, Belongs
      <3>2. records[s] \in Record(States) /\ records[s].lease # 0
        BY <1>0, <2>2 DEF Launching
      <3>3. /\ r \in Record(States) /\ r.lease = records[s].lease /\ r.instance = rpc[p].instance
            /\ r.missingPolls = records[s].missingPolls
        BY <1>0, <3>1, <3>2 DEF Record, States, VM, Belongs
      <3>4. Replaced(s, r) /\ UNCHANGED nextLease
        BY <1>4, <2>2 DEF ResolveAdopt, Replaced
      <3> HIDE DEF r
      <3> QED
        BY <1>0, <3>1, <3>2, <3>3, <3>4 DEF Edited
    <2> QED
      BY <2>1, <2>2
  <1>5. CASE RpcUpdate(p)
    <2> DEFINE s == rpc[p].sandbox
    <2>1. CASE records[s].instance # rpc[p].instance
      BY <1>5, <2>1 DEF RpcUpdate, registry
    <2>2. CASE records[s].instance = rpc[p].instance
      <3>1. records[s].lease # 0
        <4>1. rpc[p].instance # NoInstance
          BY <1>5 DEF RequestsAreResolved, RpcUpdate
        <4> QED
          BY <1>0, <2>2, <4>1, IdleTypes DEF AbsentIsZero
      <3>2. RequestedState(rpc[p].op) \in States
        BY DEF RequestedState, States
      <3>3. records' = [records EXCEPT ![s].state = RequestedState(rpc[p].op)] /\ UNCHANGED nextLease
        BY <1>5, <2>2 DEF RpcUpdate
      <3> QED
        BY <1>0, <1>1, <3>1, <3>2, <3>3
    <2> QED
      BY <2>1, <2>2
  <1>6. CASE ResolveRegistry(p) \/ ResolveList(p) \/ ResolveReread(p) \/ RpcCall(p)
             \/ RpcCallFails(p) \/ RpcBroadcast(p)
    BY <1>6 DEF ResolveRegistry, ResolveList, ResolveReread, RpcCall, RpcCallFails, RpcBroadcast
  <1>7. CASE \E s \in Sandboxes : DeleteMark(p, s) \/ DeletePass(p, s)
    BY <1>2, <1>7 DEF DeletePass
  <1>8. CASE \E T \in Targets : \/ DeleteScan(p, T)
                                 \/ \E op \in Ops \ {"delete"} : RpcStart(p, op, T)
    BY <1>8 DEF DeleteScan, RpcStart
  <1> QED
    BY <1>3, <1>4, <1>5, <1>6, <1>7, <1>8, Zenon DEF RpcStep

LEMMA PollEffect ==
    ASSUME TypeOK, PollOnTrack, NobodyCallsEarly, AbsentIsZero, PollStep
    PROVE  \/ UNCHANGED registry
           \/ \E s \in Sandboxes, r \in Record(States) : Found(s, r) \/ Edited(s, r)
           \/ \E s \in Sandboxes : Dropped(s) /\ PollForget /\ s = poll.cur
                                   /\ ForgetAllowed(records[s], poll.snap[s])
           \/ Emptied /\ ~serving
  <1>0. /\ records \in [Sandboxes -> Record(States)] /\ nextLease \in Nat
        /\ poll.cur \in Sandboxes
    BY DEF TypeOK, ThreadType, PollState, RegistryType
  <1>1. ASSUME PollReturnsError, UNCHANGED <<create, serving>>
        PROVE  UNCHANGED registry \/ (Emptied /\ ~serving)
    <2>1. CASE serving
      BY <1>1, <2>1 DEF PollReturnsError, registry
    <2>2. CASE ~serving
      <3>1. create' = [c \in Creates |-> IdleCreate]
        <4>1. create = [c \in Creates |-> create[c]]
          BY DEF TypeOK, ThreadType
        <4>2. \A c \in Creates : create[c] = IdleCreate
          BY <2>2, Zenon DEF NobodyCallsEarly
        <4> QED
          BY <1>1, <4>1, <4>2
      <3>2. records' = NewRegistry /\ nextLease' = 0
        BY <1>1, <2>2 DEF PollReturnsError
      <3> QED
        BY <1>1, <2>2, <3>1, <3>2 DEF Emptied
    <2> QED
      BY <2>1, <2>2
  <1>2. CASE PollAdd
    <2> DEFINE s == poll.cur
               rec == Recovered(Keeper(s))
    <2>1. CASE ~CanAdd(records, s)
      BY <1>1, <1>2, <2>1 DEF PollAdd
    <2>2. CASE CanAdd(records, s)
      <3>1. Belongs(Keeper(s), s) /\ rec \in Record(States) /\ rec.instance = Keeper(s)
            /\ rec.missingPolls = 0
        BY <1>2, KeeperType DEF PollAdd, Belongs
      <3> HIDE DEF rec
      <3>3. nextLease' = nextLease + 1 /\ records' = Store(records, s, rec, nextLease')
        BY <1>2, <2>2 DEF PollAdd, NextLease, rec
      <3>4. PICK r \in Record(States) : /\ Replaced(s, r) /\ r.lease = nextLease'
                                        /\ r.instance = rec.instance /\ r.missingPolls = 0
        BY <1>0, <3>1, <3>3, StoreReplaces
      <3>5. Found(s, r)
        BY <1>0, <2>2, <3>1, <3>3, <3>4 DEF Found, Fresh, CanAdd, Tracked
      <3> QED
        BY <1>0, <3>5
    <2> QED
      BY <2>1, <2>2
  <1>3. CASE PollUpdate
    <2> DEFINE s == poll.cur
               v == Keeper(s)
               observed == ObservedState(poll.snap[s], poll.listed[v].state)
               r == Reconciled(records[s], v, observed)
    <2>1. CASE ~ReconcileAllowed(records[s], poll.snap[s])
      BY <1>3, <2>1 DEF PollUpdate, registry
    <2>2. CASE ReconcileAllowed(records[s], poll.snap[s])
      <3>1. records[s].lease # 0 /\ records[s] \in Record(States)
        BY <1>0, <1>3, <2>2 DEF PollUpdate, PollOnTrack, ReconcileAllowed
      <3>2. Belongs(v, s) /\ poll.listed[v] \in VM
        BY <1>3, KeeperType DEF PollUpdate, Belongs
      <3>3. observed \in States
        BY <3>2 DEF ObservedState, VM, States
      <3> HIDE DEF v, observed
      <3>4. r \in Record(States) /\ r.lease = records[s].lease /\ r.instance = v
        BY <3>1, <3>2, <3>3 DEF Reconciled, Record, VM, Belongs
      <3>5. Replaced(s, r) /\ UNCHANGED nextLease
        BY <1>3, <2>2 DEF PollUpdate, Replaced, v, observed
      <3> HIDE DEF r
      <3> QED
        BY <1>0, <3>1, <3>2, <3>4, <3>5 DEF Edited
    <2> QED
      BY <2>1, <2>2
  <1>4. ASSUME NEW s \in Sandboxes, PollMissing(s)
        PROVE  UNCHANGED registry \/ \E r \in Record(States) : Edited(s, r)
    <2> DEFINE r == [records[s] EXCEPT !.missingPolls = Missed(records[s].missingPolls)]
    <2>1. CASE ~SameIncarnation(records[s], poll.snap[s])
      BY <1>4, <2>1 DEF PollMissing, registry
    <2>2. CASE SameIncarnation(records[s], poll.snap[s])
      <3>1. records[s].lease # 0
        BY <1>4, <2>2 DEF PollMissing, PollOnTrack, Committed, SameIncarnation
      <3>2. records[s] \in Record(States) /\ records[s].missingPolls \in Nat
        BY <1>0 DEF Record
      <3>3. Missed(records[s].missingPolls) \in Nat
        BY <3>2 DEF Missed, Saturate, missingPollThreshold
      <3>4. r \in Record(States) /\ r.lease = records[s].lease /\ r.instance = records[s].instance
        BY <3>2, <3>3 DEF Record
      <3>5. Replaced(s, r) /\ UNCHANGED nextLease
        BY <1>4, <2>2 DEF PollMissing, Replaced
      <3> HIDE DEF r
      <3> QED
        BY <3>1, <3>4, <3>5 DEF Edited
    <2> QED
      BY <2>1, <2>2
  <1>5. CASE PollForget
    BY <1>0, <1>5 DEF PollForget, Delete, Dropped, Replaced, registry
  <1>6. CASE PollExpireUpdate
    <2> DEFINE s == poll.cur
               r == [records[s] EXCEPT !.state = "deleting"]
    <2>1. CASE ~SameIncarnation(records[s], poll.snap[s])
      BY <1>6, <2>1 DEF PollExpireUpdate, registry
    <2>2. CASE SameIncarnation(records[s], poll.snap[s])
      <3>1. records[s].lease # 0
        BY <1>6, <2>2 DEF PollExpireUpdate, PollOnTrack, Committed, SameIncarnation
      <3>2. r \in Record(States) /\ r.lease = records[s].lease /\ r.instance = records[s].instance
        BY <1>0 DEF Record, States
      <3>3. Replaced(s, r) /\ UNCHANGED nextLease
        BY <1>6, <2>2 DEF PollExpireUpdate, Replaced
      <3> HIDE DEF r
      <3> QED
        BY <1>0, <3>1, <3>2, <3>3 DEF Edited
    <2> QED
      BY <2>1, <2>2
  <1>7. ASSUME NEW v \in Instances, PollTerminateDuplicate(v)
        PROVE  UNCHANGED registry \/ (Emptied /\ ~serving)
    BY <1>1, <1>7 DEF PollTerminateDuplicate, registry
  <1>8. CASE PollList \/ PollGet \/ PollBroadcast \/ PollAll \/ PollConfirm \/ PollBroadcastDeleted
             \/ PollExpired \/ PollDone \/ \E s \in Sandboxes : PollPick(s) \/ PollExpire(s)
    BY <1>8 DEF PollList, PollGet, PollBroadcast, PollAll, PollConfirm, PollBroadcastDeleted,
                PollExpired, PollDone, PollPick, PollExpire
  <1> QED
    BY <1>2, <1>3, <1>4, <1>5, <1>6, <1>7, <1>8 DEF PollStep

\* Every step is one of five registry steps.
LEMMA RegistryEffect ==
    ASSUME TypeOK, PollOnTrack, NobodyCallsEarly, CreatesHoldLeases, RequestsAreResolved,
           AbsentIsZero, Next
    PROVE  \/ UNCHANGED registry
           \/ \E s \in Sandboxes, r \in Record(States) : Reserved(s, r) \/ Found(s, r) \/ Edited(s, r)
           \/ \E s \in Sandboxes : Dropped(s)
           \/ Emptied
  <1>1. ASSUME NEW c \in Creates, CreateStep(c)
        PROVE  \/ UNCHANGED registry
               \/ \E s \in Sandboxes, r \in Record(States) : Reserved(s, r) \/ Edited(s, r)
               \/ \E s \in Sandboxes : Dropped(s)
    BY <1>1, CreateEffect, Zenon
  <1>2. ASSUME NEW p \in Rpcs, RpcStep(p)
        PROVE  \/ UNCHANGED registry
               \/ \E s \in Sandboxes, r \in Record(States) : Found(s, r) \/ Edited(s, r)
    BY <1>2, RpcEffect, Zenon
  <1>3. CASE PollStep
    BY <1>3, PollEffect, Zenon
  <1>4. CASE Environment
    BY <1>4, EnvironmentFrame DEF Restart, Emptied, registry
  <1> QED
    BY <1>1, <1>2, <1>3, <1>4 DEF Next

LEMMA AbsentIsZeroStep ==
    ASSUME TypeOK, PollOnTrack, NobodyCallsEarly, CreatesHoldLeases, RequestsAreResolved,
           AbsentIsZero, Next
    PROVE  AbsentIsZero'
  <1>0. records \in [Sandboxes -> Record(States)] /\ nextLease \in Nat
    BY DEF TypeOK, RegistryType
  <1>1. CASE UNCHANGED registry
    BY <1>1 DEF AbsentIsZero, registry
  <1>2. ASSUME NEW s \in Sandboxes, NEW r \in Record(States),
               Reserved(s, r) \/ Found(s, r) \/ Edited(s, r)
        PROVE  AbsentIsZero'
    <2>1. r.lease # 0 /\ Replaced(s, r)
      BY <1>0, <1>2 DEF Reserved, Found, Fresh, Edited
    <2> QED
      BY <1>0, <2>1 DEF Replaced, AbsentIsZero
  <1>3. ASSUME NEW s \in Sandboxes, Dropped(s) PROVE AbsentIsZero'
    BY <1>0, <1>3 DEF Dropped, Replaced, AbsentIsZero
  <1>4. CASE Emptied
    BY <1>4 DEF Emptied, NewRegistry, AbsentIsZero
  <1> QED
    BY <1>1, <1>2, <1>3, <1>4, RegistryEffect

-----------------------------------------------------------------------------
(* Leases are never shared.                                                 *)

LEMMA LeasesUniqueStep ==
    ASSUME TypeOK, PollOnTrack, NobodyCallsEarly, CreatesHoldLeases, RequestsAreResolved,
           AbsentIsZero, LeasesUnique, Next
    PROVE  LeasesUnique'
  <1>0. /\ records \in [Sandboxes -> Record(States)] /\ nextLease \in Nat
        /\ \A s \in Sandboxes : records[s].lease \in Nat
        /\ create \in [Creates -> CreateCall]
        /\ \A c \in Creates : create[c].lease \in Nat
    BY DEF TypeOK, RegistryType, ThreadType, CreateCall, Record
  \* A step that hands out no lease.
  <1>1. ASSUME /\ nextLease' = nextLease
               /\ \A s \in Sandboxes : records'[s].lease \in {0, records[s].lease}
               /\ \A c \in Creates : \/ create'[c].lease = 0
                                     \/ /\ create'[c].lease = create[c].lease
                                        /\ create'[c].sandbox = create[c].sandbox
        PROVE  LeasesUnique'
    BY <1>0, <1>1 DEF LeasesUnique, Tracked
  \* A step that hands one out to a record and perhaps to the create that asked.
  <1>2. ASSUME NEW t \in Sandboxes, NEW r \in Record(States), Fresh(t, r),
               \A c \in Creates : create'[c] = create[c]
        PROVE  LeasesUnique'
    <2>1. /\ records'[t].lease = nextLease + 1
          /\ nextLease' = nextLease + 1
          /\ \A s \in Sandboxes \ {t} : records'[s] = records[s]
      BY <1>0, <1>2 DEF Fresh, Replaced
    <2> QED
      BY <1>0, <1>2, <2>1 DEF LeasesUnique, Tracked
  <1>3. ASSUME NEW t \in Sandboxes, NEW r \in Record(States), Fresh(t, r), NEW d \in Creates,
               create'[d].lease = nextLease', create'[d].sandbox = t,
               \A c \in Creates \ {d} : create'[c] = create[c]
        PROVE  LeasesUnique'
    <2>1. /\ records'[t].lease = nextLease + 1
          /\ nextLease' = nextLease + 1
          /\ \A s \in Sandboxes \ {t} : records'[s] = records[s]
      BY <1>0, <1>3 DEF Fresh, Replaced
    <2> QED
      BY <1>0, <1>3, <2>1 DEF LeasesUnique, Tracked
  \* A step that only edits or drops records.
  <1>4. ASSUME NEW s \in Sandboxes, NEW r \in Record(States), Edited(s, r) \/ Dropped(s)
        PROVE  /\ nextLease' = nextLease
               /\ \A t \in Sandboxes : records'[t].lease \in {0, records[t].lease}
    BY <1>0, <1>4, IdleTypes DEF Edited, Dropped, Replaced
  <1>5. ASSUME UNCHANGED registry
        PROVE  /\ nextLease' = nextLease
               /\ \A t \in Sandboxes : records'[t].lease \in {0, records[t].lease}
    BY <1>5 DEF registry
  <1>6. CASE Emptied
    BY <1>6, IdleTypes DEF Emptied, NewRegistry, LeasesUnique, Tracked
  <1>7. ASSUME NEW c \in Creates, CreateStep(c) PROVE LeasesUnique'
    BY <1>1, <1>3, <1>4, <1>5, <1>7, CreateEffect, IdleTypes DEF Reserved
  <1>8. ASSUME NEW p \in Rpcs, RpcStep(p) PROVE LeasesUnique'
    <2>1. create' = create
      BY <1>8, RpcFrame
    <2> QED
      BY <1>1, <1>2, <1>4, <1>5, <1>8, <2>1, RpcEffect DEF Found
  <1>9. CASE PollStep
    <2>1. create' = create
      BY <1>9, PollFrame
    <2> QED
      BY <1>1, <1>2, <1>4, <1>5, <1>6, <1>9, <2>1, PollEffect, IdleTypes DEF Found
  <1>10. CASE Environment
    <2>1. CASE Restart
      BY <1>6, <2>1 DEF Restart, Emptied
    <2>2. CASE ~Restart
      BY <1>1, <1>5, <1>10, <2>2, EnvironmentFrame DEF registry
    <2> QED
      BY <2>1, <2>2
  <1> QED
    BY <1>7, <1>8, <1>9, <1>10 DEF Next

-----------------------------------------------------------------------------
(* The inductive invariant and what follows from it.                        *)

IInv == /\ TypeOK
        /\ PollOnTrack
        /\ NobodyCallsEarly
        /\ CreatesHoldLeases
        /\ RequestsAreResolved
        /\ AbsentIsZero
        /\ LeasesUnique

LEMMA InitIInv == Init => IInv
  <1> SUFFICES ASSUME Init PROVE IInv
    OBVIOUS
  <1>1. TypeOK
    BY InitType
  <1>2. PollOnTrack
    BY IdleTypes DEF Init, PollOnTrack
  <1>3. NobodyCallsEarly /\ CreatesHoldLeases /\ RequestsAreResolved
    BY IdleTypes DEF Init, NobodyCallsEarly, CreatesHoldLeases, RequestsAreResolved
  <1>4. AbsentIsZero /\ LeasesUnique
    BY IdleTypes DEF Init, NewRegistry, AbsentIsZero, LeasesUnique, Tracked
  <1> QED
    BY <1>1, <1>2, <1>3, <1>4 DEF IInv

LEMMA StepIInv == IInv /\ [Next]_vars => IInv'
  <1> SUFFICES ASSUME IInv, [Next]_vars PROVE IInv'
    OBVIOUS
  <1>1. CASE Next
    <2>1. TypeOK'
      BY <1>1, CreateType, RpcType, PollType, EnvironmentType DEF IInv, Next
    <2>2. PollOnTrack'
      BY <1>1, PollOnTrackStep DEF IInv
    <2>3. NobodyCallsEarly' /\ CreatesHoldLeases' /\ RequestsAreResolved'
      BY <1>1, NobodyCallsEarlyStep, CreatesHoldLeasesStep, RequestsAreResolvedStep DEF IInv
    <2>4. AbsentIsZero' /\ LeasesUnique'
      BY <1>1, AbsentIsZeroStep, LeasesUniqueStep DEF IInv
    <2> QED
      BY <2>1, <2>2, <2>3, <2>4 DEF IInv
  <1>2. CASE UNCHANGED vars
    <2>1. TypeOK'
      BY <1>2 DEF IInv, vars, TypeOK, RegistryType, ClusterType, ThreadType, HistoryType
    <2>2. PollOnTrack'
      BY <1>2, LiveFrame DEF IInv, vars, PollOnTrack
    <2>3. NobodyCallsEarly' /\ CreatesHoldLeases' /\ RequestsAreResolved'
      BY <1>2 DEF IInv, vars, NobodyCallsEarly, CreatesHoldLeases, RequestsAreResolved
    <2>4. AbsentIsZero' /\ LeasesUnique'
      BY <1>2 DEF IInv, vars, AbsentIsZero, LeasesUnique, Tracked
    <2> QED
      BY <2>1, <2>2, <2>3, <2>4 DEF IInv
  <1> QED
    BY <1>1, <1>2

\* The inductive invariant holds in every reachable state.
THEOREM Invariance == Spec => []IInv
  BY InitIInv, StepIInv, PTL DEF Spec

\* Every variable of the driver keeps its type, whatever the number of
\* sandboxes, VMs and concurrent calls.
THEOREM TypeCorrect == Spec => []TypeOK
  <1>1. IInv => TypeOK
    BY DEF IInv
  <1> QED
    BY <1>1, Invariance, PTL

\* No reservation generation is ever shared: every lease comparison in the
\* driver (commit, UpdateIf, DeleteIf) tells incarnations apart.
THEOREM LeasesAreUnique == Spec => []LeasesUnique
  <1>1. IInv => LeasesUnique
    BY DEF IInv
  <1> QED
    BY <1>1, Invariance, PTL

\* Only the commit of a create ends its launch with success.
LEMMA SuccessIsCommit ==
    ASSUME TypeOK, Next, NEW c \in Creates, create[c].pc = "launched", create'[c].pc = "broadcast"
    PROVE  CreateCommit(c) /\ CommitAllowed(records[create[c].sandbox], create[c].lease)
  <1>0. create \in [Creates -> CreateCall]
    BY DEF TypeOK, ThreadType
  <1>1. PICK d \in Creates : CreateStep(d)
    <2>1. CASE \E p \in Rpcs : RpcStep(p)
      BY <2>1, RpcFrame
    <2>2. CASE PollStep
      BY <2>2, PollFrame
    <2>3. CASE Environment
      BY <2>3, EnvironmentFrame, IdleTypes DEF Restart, IdleCreate
    <2> QED
      BY <2>1, <2>2, <2>3 DEF Next
  <1>2. d = c
    <2>1. SUFFICES ASSUME d # c PROVE create'[c] = create[c]
      OBVIOUS
    <2> QED
      BY <1>0, <1>1, <2>1 DEF CreateStep, CreateReserve, CreateLaunchRefused, CreateLaunch, CreateUnanswered,
         CreateLaunchFails, CreateCommit, CreateCompensate, CreateRollback, CreateBroadcast
  <1>3. CreateCommit(c)
    <2>1. CASE CreateLaunchFails(c)
      BY <1>0, <2>1 DEF CreateLaunchFails
    <2> QED
      BY <1>1, <1>2, <2>1 DEF CreateStep, CreateReserve, CreateLaunchRefused, CreateLaunch, CreateUnanswered,
         CreateCompensate, CreateRollback, CreateBroadcast
  <1>4. CommitAllowed(records[create[c].sandbox], create[c].lease)
    BY <1>0, <1>3 DEF CreateCommit
  <1> QED
    BY <1>3, <1>4

\* A late launch never takes the slot of a newer create: the commit compares
\* leases, and no two creates hold one, for any number of creates.
THEOREM CommitsAreOwn == Spec => CommitsToOwnReservation
  <1> DEFINE Own == \A c, d \in Creates :
                       /\ create[c].pc = "launched" /\ create'[c].pc = "broadcast"
                       /\ create[d].pc # "idle" /\ create[d].lease = records[create[c].sandbox].lease
                       => d = c
  <1>1. IInv /\ [Next]_vars => [Own]_vars
    <2> SUFFICES ASSUME IInv, Next, NEW c \in Creates, NEW d \in Creates,
                        create[c].pc = "launched", create'[c].pc = "broadcast",
                        create[d].pc # "idle", create[d].lease = records[create[c].sandbox].lease
                 PROVE  d = c
      OBVIOUS
    <2>1. records[create[c].sandbox].lease = create[c].lease
      BY SuccessIsCommit DEF IInv, CommitAllowed
    <2>2. create[d].lease # 0
      BY DEF IInv, CreatesHoldLeases
    <2> QED
      BY <2>1, <2>2 DEF IInv, LeasesUnique
  <1> QED
    BY <1>1, Invariance, PTL DEF Spec, CommitsToOwnReservation

-----------------------------------------------------------------------------
(* The driver implements the lease registry.                                *)

\* The instance counts as this module does.
LEMMA SameCardinality == \A S : Registry!Cardinality(S) = Cardinality(S)
  BY Zenon DEF Registry!Cardinality, Cardinality, Registry!IsFiniteSet, IsFiniteSet

LEMMA SlotsOfRegistry ==
    ASSUME TypeOK
    PROVE  Registry!Occupied = Tracked(records)
  BY DEF Registry!Occupied, Slot, Tracked

LEMMA RefinesInit == Init => Registry!Init
  <1> SUFFICES ASSUME Init PROVE Registry!Init
    OBVIOUS
  <1>1. \A s \in Sandboxes : Slot(records[s]) = Registry!Free
    BY IdleTypes DEF Init, NewRegistry, Slot, Registry!Free
  <1> QED
    BY <1>1 DEF Init, Registry!Init

LEMMA RefinesStep ==
    ASSUME IInv, Next
    PROVE  [Registry!Next]_<<[s \in Sandboxes |-> Slot(records[s])], nextLease>>
  <1> DEFINE slot == [s \in Sandboxes |-> Slot(records[s])]
  <1>0. records \in [Sandboxes -> Record(States)] /\ nextLease \in Nat
    BY DEF IInv, TypeOK, RegistryType
  <1>1. CASE UNCHANGED registry
    BY <1>1 DEF registry
  <1>2. ASSUME NEW s \in Sandboxes, NEW r \in Record(States), Replaced(s, r)
        PROVE  slot' = [slot EXCEPT ![s] = Slot(r)]
    BY <1>0, <1>2 DEF Replaced
  <1>3. ASSUME NEW s \in Sandboxes, NEW r \in Record(States), Fresh(s, r)
        PROVE  Registry!Occupy(s, IF r.instance = NoInstance THEN "reserved" ELSE "bound")
    <2>1. slot[s] = Registry!Free
      BY <1>3 DEF Fresh, Slot, Registry!Free
    <2>2. Slot(r) = [phase |-> IF r.instance = NoInstance THEN "reserved" ELSE "bound",
                     lease |-> nextLease + 1]
      BY <1>0, <1>3 DEF Fresh, Slot
    <2>3. slot' = [slot EXCEPT ![s] = Slot(r)] /\ nextLease' = nextLease + 1
      BY <1>2, <1>3 DEF Fresh
    <2> QED
      BY <2>1, <2>2, <2>3 DEF Registry!Occupy
  <1>4. ASSUME NEW s \in Sandboxes, NEW r \in Record(States), Reserved(s, r)
        PROVE  Registry!Reserve(s)
    <2>1. Registry!Occupy(s, "reserved")
      BY <1>3, <1>4 DEF Reserved
    <2>2. Cardinality(Registry!Occupied) < MaxInstances
      BY <1>4, SlotsOfRegistry DEF Reserved, CanReserve, IInv
    <2> QED
      BY <2>1, <2>2, SameCardinality DEF Registry!Reserve
  <1>5. ASSUME NEW s \in Sandboxes, NEW r \in Record(States), Found(s, r)
        PROVE  Registry!Recover(s)
    <2>1. r.instance # NoInstance
      BY <1>5, InstancesAreNames DEF Found, Belongs, NoInstance
    <2> QED
      BY <1>3, <1>5, <2>1 DEF Found, Registry!Recover
  <1>6. ASSUME NEW s \in Sandboxes, NEW r \in Record(States), Edited(s, r)
        PROVE  Registry!Bind(s) \/ UNCHANGED <<slot, nextLease>>
    <2>1. slot' = [slot EXCEPT ![s] = Slot(r)] /\ nextLease' = nextLease
      BY <1>2, <1>6 DEF Edited
    <2>2. CASE r.instance = records[s].instance
      <3>1. Slot(r) = slot[s]
        BY <1>6, <2>2 DEF Edited, Slot
      <3> QED
        BY <2>1, <3>1
    <2>3. CASE r.instance # records[s].instance
      <3>1. r.instance # NoInstance
        BY <1>6, <2>3, InstancesAreNames DEF Edited, Belongs, NoInstance
      <3>2. Slot(r) = [slot[s] EXCEPT !.phase = "bound"]
        BY <1>6, <3>1 DEF Edited, Slot
      <3>3. CASE records[s].instance = NoInstance
        <4>1. slot[s].phase = "reserved"
          BY <1>6, <3>3 DEF Edited, Slot
        <4> QED
          BY <2>1, <3>2, <4>1 DEF Registry!Bind
      <3>4. CASE records[s].instance # NoInstance
        <4>1. Slot(r) = slot[s]
          BY <1>6, <3>1, <3>4 DEF Edited, Slot
        <4> QED
          BY <2>1, <4>1
      <3> QED
        BY <3>3, <3>4
    <2> QED
      BY <2>2, <2>3
  <1>7. ASSUME NEW s \in Sandboxes, Dropped(s)
        PROVE  Registry!Release(s) \/ UNCHANGED <<slot, nextLease>>
    <2>1. slot' = [slot EXCEPT ![s] = Slot(NoRecord)] /\ nextLease' = nextLease
      BY <1>2, <1>7, IdleTypes DEF Dropped
    <2>2. Slot(NoRecord) = Registry!Free
      BY IdleTypes DEF Slot, Registry!Free
    <2>3. CASE records[s].lease = 0
      <3>1. slot[s] = Slot(NoRecord)
        BY <2>3 DEF IInv, AbsentIsZero
      <3> QED
        BY <2>1, <3>1
    <2>4. CASE records[s].lease # 0
      <3>1. slot[s].phase # "free"
        BY <2>4 DEF Slot
      <3> QED
        BY <2>1, <2>2, <3>1 DEF Registry!Release
    <2> QED
      BY <2>3, <2>4
  <1>8. CASE Emptied
    <2>1. \A s \in Sandboxes : Slot(NewRegistry[s]) = Registry!Free
      BY IdleTypes DEF NewRegistry, Slot, Registry!Free
    <2> QED
      BY <1>8, <2>1 DEF Emptied, Registry!Next, Registry!Crash
  <1> QED
    BY <1>1, <1>4, <1>5, <1>6, <1>7, <1>8, RegistryEffect DEF IInv, Registry!Next

\* The driver implements the lease registry for every number of sandboxes:
\* a create is admitted below the capacity limit only, a slot keeps its lease
\* from occupation to release, and a bound slot never falls back to reserved.
THEOREM ImplementsRegistry == Spec => ImplementsLeaseRegistry
  <1>1. IInv /\ [Next]_vars => [Registry!Next]_<<[s \in Sandboxes |-> Slot(records[s])], nextLease>>
    BY RefinesStep DEF vars
  <1> QED
    BY <1>1, RefinesInit, Invariance, PTL DEF Spec, ImplementsLeaseRegistry, Registry!Spec

-----------------------------------------------------------------------------
(* Capacity is released after three complete polls only.                    *)

\* A step outside the reconciler leaves a counter of missing polls alone or
\* starts a new record with counter 0.
Gentle == \A s \in Sandboxes :
            /\ records'[s].instance \in {NoInstance, VMName[s]}
            /\ \/ records'[s].missingPolls = 0
               \/ /\ records'[s].missingPolls = records[s].missingPolls
                  /\ records'[s].lease = records[s].lease
                  /\ records'[s].instance = records[s].instance

LEMMA GentleEdit ==
    ASSUME OneVMPerSandbox, IInv, CountsAreSound, NEW s \in Sandboxes, NEW r \in Record(States),
           \/ Reserved(s, r) \/ Found(s, r)
           \/ Edited(s, r) /\ r.missingPolls = records[s].missingPolls
    PROVE  Gentle
  <1>0. records \in [Sandboxes -> Record(States)]
    BY DEF IInv, TypeOK, RegistryType
  <1>1. ASSUME NEW v, Belongs(v, s) PROVE v = VMName[s]
    BY <1>1 DEF Belongs, OneVMPerSandbox
  <1>2. records'[s] = r /\ \A t \in Sandboxes \ {s} : records'[t] = records[t]
    BY <1>0 DEF Reserved, Found, Fresh, Edited, Replaced
  <1>3. r.instance \in {NoInstance, VMName[s]}
    BY <1>1 DEF Reserved, Found, Edited, CountsAreSound
  <1>4. \/ r.missingPolls = 0
        \/ /\ r.missingPolls = records[s].missingPolls
           /\ r.lease = records[s].lease
           /\ r.instance = records[s].instance
    BY <1>1 DEF Reserved, Found, Fresh, Edited, CountsAreSound
  <1> QED
    BY <1>2, <1>3, <1>4 DEF Gentle, CountsAreSound

LEMMA GentleSteps ==
    ASSUME OneVMPerSandbox, IInv, CountsAreSound,
           \/ \E c \in Creates : CreateStep(c)
           \/ \E p \in Rpcs : RpcStep(p)
    PROVE  Gentle
  <1>0. records \in [Sandboxes -> Record(States)]
    BY DEF IInv, TypeOK, RegistryType
  <1>1. CASE UNCHANGED registry
    BY <1>1 DEF registry, Gentle, CountsAreSound
  <1>2. ASSUME NEW s \in Sandboxes, Dropped(s) PROVE Gentle
    BY <1>0, <1>2, IdleTypes DEF Dropped, Replaced, Gentle, CountsAreSound
  <1>3. ASSUME NEW c \in Creates, CreateStep(c) PROVE Gentle
    BY <1>1, <1>2, <1>3, CreateEffect, GentleEdit DEF IInv
  <1>4. ASSUME NEW p \in Rpcs, RpcStep(p) PROVE Gentle
    BY <1>1, <1>4, RpcEffect, GentleEdit DEF IInv
  <1> QED
    BY <1>3, <1>4

LEMMA GentleIsSound ==
    ASSUME IInv, CountsAreSound, Gentle, UNCHANGED <<poll, absentRun>>
    PROVE  CountsAreSound'
  <1>0. /\ \A s \in Sandboxes : records[s].missingPolls \in Nat
        /\ absentRun \in [Sandboxes -> 0 .. missingPollThreshold]
        /\ poll.cur \in Sandboxes /\ poll.seen \subseteq Sandboxes /\ poll.todo \subseteq Sandboxes
    BY DEF IInv, TypeOK, RegistryType, Record, HistoryType, ThreadType, PollState
  <1>1. ASSUME NEW s \in Sandboxes
        PROVE  /\ records'[s].missingPolls <= absentRun[s]
               /\ records'[s].instance \in {NoInstance, VMName[s]}
               /\ records'[s].missingPolls # 0 => records'[s].instance # NoInstance
    BY <1>0 DEF Gentle, CountsAreSound, MissingPollsAreConsecutive, missingPollThreshold
  <1>2. poll.pc \in {"missing", "confirm", "forget", "deleted"} =>
            \A s \in poll.todo : Missed(records'[s].missingPolls) <= absentRun[s]
    <2>1. ASSUME NEW s \in Sandboxes, Missed(records[s].missingPolls) <= absentRun[s]
          PROVE  Missed(records'[s].missingPolls) <= absentRun[s]
      <3>1. CASE records'[s].missingPolls = records[s].missingPolls
        BY <2>1, <3>1
      <3>2. CASE records'[s].missingPolls = 0
        BY <1>0, <2>1, <3>2 DEF Missed, Saturate, missingPollThreshold
      <3> QED
        BY <3>1, <3>2 DEF Gentle
    <2> QED
      BY <1>0, <2>1 DEF CountsAreSound
  <1>3. poll.pc = "update" => \/ records'[poll.cur].missingPolls = 0
                              \/ SameIncarnation(records'[poll.cur], poll.snap[poll.cur])
    BY <1>0 DEF Gentle, CountsAreSound, SameIncarnation
  <1>4. poll.pc \in {"reconcile", "duplicates", "add", "update", "broadcast"} =>
          \A s \in poll.seen : \/ records'[s].missingPolls = 0
                               \/ s = poll.cur /\ poll.pc \in {"duplicates", "update"}
    BY <1>0 DEF Gentle, CountsAreSound
  <1> QED
    BY <1>1, <1>2, <1>3, <1>4 DEF CountsAreSound, MissingPollsAreConsecutive

\* A poll that has not started, or that gave up, owes nothing.
LEMMA IdleIsSound ==
    ASSUME IInv, CountsAreSound, poll' = IdlePoll,
           records' = records \/ records' = NewRegistry,
           absentRun' = absentRun \/ (records' = NewRegistry /\ absentRun' = [s \in Sandboxes |-> 0])
    PROVE  CountsAreSound'
  <1>0. absentRun \in [Sandboxes -> 0 .. missingPollThreshold]
    BY DEF IInv, TypeOK, HistoryType
  <1>1. ASSUME NEW s \in Sandboxes
        PROVE  /\ records'[s].missingPolls <= absentRun'[s]
               /\ records'[s].instance \in {NoInstance, VMName[s]}
               /\ records'[s].missingPolls # 0 => records'[s].instance # NoInstance
    <2>1. CASE records' = NewRegistry
      BY <1>0, <2>1, IdleTypes DEF NewRegistry, missingPollThreshold
    <2>2. CASE records' = records /\ absentRun' = absentRun
      BY <2>2 DEF CountsAreSound, MissingPollsAreConsecutive
    <2> QED
      BY <2>1, <2>2
  <1> QED
    BY <1>1, IdleTypes DEF CountsAreSound, MissingPollsAreConsecutive

\* The poll has reset the count of the sandbox it works on.
LEMMA ResetIsSound ==
    ASSUME IInv, CountsAreSound, poll.pc \in {"add", "update"},
           records'[poll.cur].missingPolls = 0,
           records'[poll.cur].instance \in {NoInstance, VMName[poll.cur]},
           \A s \in Sandboxes \ {poll.cur} : records'[s] = records[s],
           poll'.pc \in {"broadcast", "reconcile"}, poll'.seen = poll.seen, poll'.cur = poll.cur,
           absentRun' = absentRun
    PROVE  CountsAreSound'
  <1>1. /\ absentRun \in [Sandboxes -> 0 .. missingPollThreshold] /\ poll.seen \subseteq Sandboxes
        /\ poll.cur \in Sandboxes
    BY DEF IInv, TypeOK, HistoryType, ThreadType, PollState
  <1>2. MissingPollsAreConsecutive'
    BY <1>1 DEF CountsAreSound, MissingPollsAreConsecutive, missingPollThreshold
  <1>3. \A s \in Sandboxes : /\ records'[s].instance \in {NoInstance, VMName[s]}
                             /\ records'[s].missingPolls # 0 => records'[s].instance # NoInstance
    BY DEF CountsAreSound
  <1>4. \A s \in poll'.seen : records'[s].missingPolls = 0
    BY <1>1 DEF CountsAreSound
  <1> QED
    BY <1>2, <1>3, <1>4 DEF CountsAreSound

LEMMA PollIsSound ==
    ASSUME OneVMPerSandbox, IInv, CountsAreSound, PollStep
    PROVE  CountsAreSound'
  <1>0. /\ records \in [Sandboxes -> Record(States)]
        /\ \A s \in Sandboxes : records[s].missingPolls \in Nat
        /\ absentRun \in [Sandboxes -> 0 .. missingPollThreshold]
        /\ poll \in PollState
        /\ poll.cur \in Sandboxes /\ poll.seen \subseteq Sandboxes /\ poll.todo \subseteq Sandboxes
    BY DEF IInv, TypeOK, RegistryType, Record, HistoryType, ThreadType, PollState
  <1>1. CASE PollList
    BY <1>0, <1>1 DEF PollList, CountsAreSound, MissingPollsAreConsecutive, PollState, registry, history
  <1>2. CASE PollGet
    <2>1. UNCHANGED <<records, absentRun>> /\ poll'.seen = poll.seen /\ poll'.cur = poll.cur
      BY <1>0, <1>2 DEF PollGet, PollState, registry, history
    <2>2. CASE poll' = [poll EXCEPT !.pc = "add"] /\ poll.cur \notin Tracked(records)
      <3>1. records[poll.cur].missingPolls = 0
        BY <1>0, <2>2, IdleTypes DEF Tracked, IInv, AbsentIsZero
      <3> QED
        BY <1>0, <1>2, <2>1, <2>2, <3>1 DEF PollGet, CountsAreSound, MissingPollsAreConsecutive, PollState
    <2>3. CASE poll' = [poll EXCEPT !.pc = "update", !.snap[poll.cur] = records[poll.cur]]
      BY <1>0, <1>2, <2>1, <2>3 DEF PollGet, CountsAreSound, MissingPollsAreConsecutive, PollState,
                                    SameIncarnation
    <2>4. CASE poll' = [poll EXCEPT !.pc = "reconcile"] /\ records[poll.cur].missingPolls = 0
      BY <1>0, <1>2, <2>1, <2>4 DEF PollGet, CountsAreSound, MissingPollsAreConsecutive, PollState
    <2> QED
      BY <1>2, <2>2, <2>3, <2>4 DEF PollGet, NeedsUpdate
  <1>3. CASE PollAdd
    <2>1. CASE ~CanAdd(records, poll.cur)
      BY <1>3, <2>1, IdleIsSound DEF PollAdd, PollReturnsError
    <2>2. CASE CanAdd(records, poll.cur)
      <3>1. PICK r \in Record(States) : /\ Replaced(poll.cur, r)
                                        /\ r.missingPolls = 0
                                        /\ r.instance = VMName[poll.cur]
        <4> DEFINE rec == Recovered(Keeper(poll.cur))
        <4>1. /\ rec \in Record(States) /\ rec.missingPolls = 0
              /\ rec.instance \in Instances /\ SandboxOf[rec.instance] = poll.cur
          BY <1>3, KeeperType DEF PollAdd, IInv
        <4> HIDE DEF rec
        <4>2. nextLease' \in Nat /\ records' = Store(records, poll.cur, rec, nextLease')
          BY <1>3, <2>2 DEF PollAdd, NextLease, IInv, TypeOK, RegistryType, rec
        <4> QED
          BY <1>0, <4>1, <4>2, StoreReplaces DEF OneVMPerSandbox
      <3>2. /\ records'[poll.cur].missingPolls = 0
            /\ records'[poll.cur].instance = VMName[poll.cur]
            /\ \A s \in Sandboxes \ {poll.cur} : records'[s] = records[s]
        BY <1>0, <3>1 DEF Replaced
      <3>3. /\ poll'.pc = "broadcast" /\ poll'.seen = poll.seen /\ poll'.cur = poll.cur
            /\ absentRun' = absentRun
        BY <1>0, <1>3, <2>2 DEF PollAdd, PollState
      <3> QED
        BY <1>3, <3>2, <3>3, ResetIsSound DEF PollAdd
    <2> QED
      BY <2>1, <2>2
  <1>4. CASE PollUpdate
    <2> DEFINE s == poll.cur
    <2>1. /\ records'[s].missingPolls = 0
          /\ records'[s].instance \in {NoInstance, VMName[s]}
          /\ \A t \in Sandboxes \ {s} : records'[t] = records[t]
      <3>1. CASE ReconcileAllowed(records[s], poll.snap[s])
        <4> DEFINE v == Keeper(s)
                   observed == ObservedState(poll.snap[s], poll.listed[v].state)
                   r == Reconciled(records[s], v, observed)
        <4>1. v = VMName[s]
          BY <1>4, KeeperType DEF PollUpdate, IInv, OneVMPerSandbox
        <4>2. records' = [records EXCEPT ![s] = r]
          BY <1>4, <3>1 DEF PollUpdate
        <4> HIDE DEF v, observed
        <4>3. r.missingPolls = 0 /\ r.instance = v
          BY <1>0 DEF Reconciled, Record
        <4> HIDE DEF r
        <4> QED
          BY <1>0, <4>1, <4>2, <4>3
      <3>2. CASE ~ReconcileAllowed(records[s], poll.snap[s])
        <4>1. records[s].missingPolls = 0
          BY <1>4, <3>2 DEF PollUpdate, CountsAreSound, SameIncarnation, ReconcileAllowed
        <4> QED
          BY <1>0, <1>4, <3>2, <4>1 DEF PollUpdate, CountsAreSound
      <3> QED
        BY <3>1, <3>2
    <2>2. /\ poll'.pc \in {"broadcast", "reconcile"} /\ poll'.seen = poll.seen /\ poll'.cur = poll.cur
          /\ absentRun' = absentRun
      BY <1>0, <1>4 DEF PollUpdate, PollState
    <2> QED
      BY <1>4, <2>1, <2>2, ResetIsSound DEF PollUpdate
  <1>5. CASE PollBroadcast
    BY <1>0, <1>5 DEF PollBroadcast, CountsAreSound, MissingPollsAreConsecutive, PollState, registry,
                      history
  <1>6. CASE PollAll
    <2>1. ASSUME NEW s \in Sandboxes
          PROVE  /\ s \in poll.seen => records[s].missingPolls = 0
                 /\ records[s].missingPolls <= absentRun[s]
      BY <1>0, <1>6, <2>1 DEF PollAll, CountsAreSound, MissingPollsAreConsecutive
    <2>2. ASSUME NEW s \in Sandboxes
          PROVE  absentRun'[s] = IF s \in poll.seen THEN 0 ELSE Saturate(absentRun[s] + 1)
      BY <1>6 DEF PollAll
    <2>3. ASSUME NEW s \in Sandboxes
          PROVE  /\ records[s].missingPolls <= absentRun'[s]
                 /\ s \notin poll.seen => Missed(records[s].missingPolls) <= absentRun'[s]
      BY <1>0, <2>1, <2>2 DEF Missed, Saturate, missingPollThreshold
    <2>4. poll'.pc = "missing" /\ \A s \in poll'.todo : s \in Sandboxes /\ s \notin poll.seen
      BY <1>6, IdleTypes DEF PollAll, PollState, Tracked
    <2>5. records' = records
      BY <1>6 DEF PollAll, registry
    <2> QED
      BY <2>3, <2>4, <2>5 DEF CountsAreSound, MissingPollsAreConsecutive
  <1>7. CASE PollConfirm \/ PollBroadcastDeleted
    <2>1. /\ UNCHANGED <<records, absentRun>> /\ poll'.todo = poll.todo
          /\ poll'.pc \in {"missing", "forget"}
          /\ poll.pc \in {"confirm", "deleted"}
      BY <1>0, <1>7 DEF PollConfirm, PollBroadcastDeleted, PollState, registry, history
    <2> QED
      BY <2>1 DEF CountsAreSound, MissingPollsAreConsecutive
  <1>8. CASE PollForget
    <2>1. /\ absentRun' = absentRun /\ poll'.todo = poll.todo /\ poll'.pc \in {"missing", "deleted"}
          /\ poll.cur \notin poll.todo
          /\ records'[poll.cur] \in {records[poll.cur], NoRecord}
          /\ \A s \in Sandboxes \ {poll.cur} : records'[s] = records[s]
      BY <1>0, <1>8 DEF PollForget, PollState, Delete, IInv, PollOnTrack
    <2> QED
      BY <1>0, <1>8, <2>1, IdleTypes DEF PollForget, CountsAreSound, MissingPollsAreConsecutive,
                                         missingPollThreshold
  <1>9. CASE PollExpired \/ PollDone \/ \E s \in Sandboxes : PollExpire(s)
    <2>1. /\ UNCHANGED <<records, absentRun>> /\ poll'.pc \in {"expire", "expireUpdate", "idle"}
          /\ poll'.pc = "idle" => poll'.seen = {}
      BY <1>0, <1>9, IdleTypes DEF PollExpired, PollDone, PollExpire, PollState, registry, history
    <2> QED
      BY <2>1 DEF CountsAreSound, MissingPollsAreConsecutive
  <1>10. CASE PollExpireUpdate
    <2>1. /\ absentRun' = absentRun /\ poll'.pc \in {"expire", "expireBroadcast"}
          /\ \A s \in Sandboxes : /\ records'[s].missingPolls = records[s].missingPolls
                                  /\ records'[s].instance = records[s].instance
      <3>1. absentRun' = absentRun /\ poll'.pc \in {"expire", "expireBroadcast"}
        BY <1>0, <1>10 DEF PollExpireUpdate, PollState, history
      <3>2. records' = records \/ records' = [records EXCEPT ![poll.cur].state = "deleting"]
        BY <1>10 DEF PollExpireUpdate
      <3>3. \A s \in Sandboxes : records[s] \in Record(States)
        BY <1>0
      <3>4. ASSUME NEW s \in Sandboxes, records' = [records EXCEPT ![poll.cur].state = "deleting"]
            PROVE  /\ records'[s].missingPolls = records[s].missingPolls
                   /\ records'[s].instance = records[s].instance
        <4>1. records'[s] = IF s = poll.cur THEN [records[s] EXCEPT !.state = "deleting"]
                                            ELSE records[s]
          BY <1>0, <3>4
        <4> QED
          BY <3>3, <4>1 DEF Record
      <3> QED
        BY <3>1, <3>2, <3>4
    <2> QED
      BY <2>1 DEF CountsAreSound, MissingPollsAreConsecutive
  <1>11. ASSUME NEW s \in Sandboxes, PollPick(s) PROVE CountsAreSound'
    BY <1>0, <1>11 DEF PollPick, CountsAreSound, MissingPollsAreConsecutive, PollState, registry,
                       history
  <1>12. ASSUME NEW s \in Sandboxes, PollMissing(s) PROVE CountsAreSound'
    <2>1. /\ absentRun' = absentRun /\ poll'.todo = poll.todo \ {s} /\ poll'.pc \in {"missing", "confirm"}
          /\ poll.pc = "missing" /\ s \in poll.todo
      BY <1>0, <1>12 DEF PollMissing, PollState, history
    <2>2. \A t \in Sandboxes \ {s} : records'[t] = records[t]
      BY <1>0, <1>12 DEF PollMissing
    <2>3. CASE ~SameIncarnation(records[s], poll.snap[s])
      <3>1. records' = records
        BY <1>12, <2>3 DEF PollMissing
      <3> QED
        BY <1>0, <2>1, <3>1 DEF CountsAreSound, MissingPollsAreConsecutive
    <2>4. CASE SameIncarnation(records[s], poll.snap[s])
      <3>1. /\ records'[s].missingPolls = Missed(records[s].missingPolls)
            /\ records'[s].instance = records[s].instance
        BY <1>0, <1>12, <2>4 DEF PollMissing, Record
      <3>2. records[s].instance # NoInstance
        BY <1>12, <2>4 DEF PollMissing, IInv, PollOnTrack, Committed, SameIncarnation
      <3> QED
        BY <1>0, <2>1, <2>2, <3>1, <3>2 DEF CountsAreSound, MissingPollsAreConsecutive
    <2> QED
      BY <2>3, <2>4
  <1>13. ASSUME NEW v \in Instances, PollTerminateDuplicate(v) PROVE CountsAreSound'
    <2>1. CASE PollReturnsError
      BY <1>13, <2>1, IdleIsSound DEF PollTerminateDuplicate, PollReturnsError, history
    <2>2. CASE ~PollReturnsError
      <3>1. /\ UNCHANGED <<records, absentRun>> /\ poll'.pc = poll.pc
            /\ poll'.seen = poll.seen /\ poll'.cur = poll.cur
            /\ poll.pc = "duplicates"
        BY <1>0, <1>13, <2>2 DEF PollTerminateDuplicate, PollState, history
      <3> QED
        BY <3>1 DEF CountsAreSound, MissingPollsAreConsecutive
    <2> QED
      BY <2>1, <2>2
  <1> QED
    BY <1>1, <1>2, <1>3, <1>4, <1>5, <1>6, <1>7, <1>8, <1>9, <1>10, <1>11, <1>12, <1>13 DEF PollStep

LEMMA InitCounts == Init => CountsAreSound
  BY IdleTypes DEF Init, NewRegistry, CountsAreSound, MissingPollsAreConsecutive

LEMMA StepCounts ==
    ASSUME OneVMPerSandbox, IInv, CountsAreSound, [Next]_vars
    PROVE  CountsAreSound'
  <1>1. CASE UNCHANGED vars
    BY <1>1 DEF vars, CountsAreSound, MissingPollsAreConsecutive
  <1>2. ASSUME NEW c \in Creates, CreateStep(c) PROVE CountsAreSound'
    BY <1>2, CreateFrame, GentleSteps, GentleIsSound
  <1>3. ASSUME NEW p \in Rpcs, RpcStep(p) PROVE CountsAreSound'
    BY <1>3, RpcFrame, GentleSteps, GentleIsSound
  <1>4. CASE PollStep
    BY <1>4, PollIsSound
  <1>5. CASE Environment
    <2>1. CASE Restart
      BY <2>1, IdleIsSound DEF Restart
    <2>2. CASE ~Restart
      BY <1>5, <2>2, EnvironmentFrame DEF CountsAreSound, MissingPollsAreConsecutive
    <2> QED
      BY <2>1, <2>2
  <1> QED
    BY <1>1, <1>2, <1>3, <1>4, <1>5 DEF Next

\* The registry step that loses an instance while the driver serves is the
\* confirmed forget of the reconciler.
LEMMA ReleaseIsForget ==
    ASSUME IInv, CountsAreSound, [Next]_vars, NEW s \in Sandboxes,
           records[s].instance # NoInstance, records'[s].instance = NoInstance, serving'
    PROVE  absentRun[s] = missingPollThreshold
  <1>0. records \in [Sandboxes -> Record(States)]
    BY DEF IInv, TypeOK, RegistryType
  <1>1. ~UNCHANGED records
    OBVIOUS
  <1>2. ~Emptied
    BY Zenon DEF Emptied
  <1>3. ASSUME NEW t \in Sandboxes, NEW r \in Record(States), Reserved(t, r) \/ Found(t, r) \/ Edited(t, r)
        PROVE  FALSE
    <2>1. CASE t # s
      BY <1>0, <1>3, <2>1 DEF Reserved, Found, Fresh, Edited, Replaced
    <2>2. CASE t = s /\ Edited(t, r)
      BY <1>0, <1>3, <2>2, InstancesAreNames DEF Edited, Replaced, Belongs, NoInstance
    <2>3. CASE t = s /\ Fresh(t, r)
      BY <2>3, IdleTypes DEF Fresh, IInv, AbsentIsZero
    <2> QED
      BY <1>3, <2>1, <2>2, <2>3 DEF Reserved, Found
  <1>4. ASSUME NEW t \in Sandboxes, Dropped(t) PROVE t = s
    BY <1>0, <1>4 DEF Dropped, Replaced
  <1>5. ASSUME NEW c \in Creates, CreateStep(c) PROVE FALSE
    BY <1>1, <1>3, <1>4, <1>5, CreateEffect DEF IInv, registry
  <1>6. ASSUME NEW p \in Rpcs, RpcStep(p) PROVE FALSE
    BY <1>1, <1>3, <1>6, RpcEffect DEF IInv, registry
  <1>7. CASE Environment
    BY <1>1, <1>2, <1>7, EnvironmentFrame DEF Restart, Emptied
  <1>8. CASE PollStep
    <2>1. s = poll.cur /\ ForgetAllowed(records[s], poll.snap[s])
      BY <1>1, <1>2, <1>3, <1>4, <1>8, PollEffect DEF IInv, registry
    <2>2. records[s].missingPolls >= missingPollThreshold
      BY <2>1 DEF ForgetAllowed
    <2>3. /\ records[s].missingPolls \in Nat
          /\ absentRun[s] \in 0 .. missingPollThreshold
          /\ records[s].missingPolls <= absentRun[s]
      BY <1>0 DEF IInv, TypeOK, HistoryType, Record, CountsAreSound, MissingPollsAreConsecutive
    <2> QED
      BY <2>2, <2>3 DEF missingPollThreshold
  <1>9. CASE UNCHANGED vars
    BY <1>1, <1>9 DEF vars
  <1> QED
    BY <1>5, <1>6, <1>7, <1>8, <1>9 DEF Next

\* MissingPolls counts real, consecutive, complete polls, for any number of
\* sandboxes and calls, provided no foreign VM carries a sandbox's annotations.
THEOREM CountsAreConsecutive ==
    ASSUME OneVMPerSandbox
    PROVE  Spec => []MissingPollsAreConsecutive
  <1>1. IInv /\ CountsAreSound /\ [Next]_vars => CountsAreSound'
    BY StepCounts
  <1>2. CountsAreSound => MissingPollsAreConsecutive
    BY DEF CountsAreSound
  <1> QED
    BY <1>1, <1>2, InitCounts, Invariance, PTL DEF Spec

\* Under the same proviso no step of a serving driver drops a committed
\* sandbox unless the three latest complete polls missed it: not a rollback,
\* not a late or failed call, not an expiry.
THEOREM ReleaseNeedsAbsence ==
    ASSUME OneVMPerSandbox
    PROVE  Spec => ReleasedOnlyAfterAbsence
  <1>1. IInv /\ CountsAreSound /\ [Next]_vars => CountsAreSound'
    BY StepCounts
  <1>2. IInv /\ CountsAreSound /\ [Next]_vars =>
          [\A s \in Sandboxes :
             /\ records[s].instance # NoInstance
             /\ records'[s].instance = NoInstance
             /\ serving'
             => absentRun[s] = missingPollThreshold]_vars
    BY ReleaseIsForget
  <1> QED
    BY <1>1, <1>2, InitCounts, Invariance, PTL DEF Spec, ReleasedOnlyAfterAbsence
=============================================================================
