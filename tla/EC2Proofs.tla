------------------------------ MODULE EC2Proofs ------------------------------
(***************************************************************************)
(* Proofs about the EC2 driver for every value of its constants.            *)
(***************************************************************************)
EXTENDS EC2Driver, TLAPS, WellFoundedInduction

-----------------------------------------------------------------------------
(* The parts of the inductive invariant that no run states.                 *)

Belongs(v, s) == v \in Instances /\ SandboxOf[v] = s

\* The reconciler works on what List answered, one sandbox of it at a time.
Reconciling == {"reconcile", "duplicates", "observe", "dropped", "add", "update", "broadcast", "blank"}
OneAtATime == {"duplicates", "observe", "dropped", "add", "update"}
PollOnTrack ==
    /\ \A v \in Instances : poll.listed[v].state \in ListedStates \cup {"unborn"}
    /\ poll.pc \in Reconciling => \A s \in poll.todo : Matches(s) # {}
    /\ poll.pc \in OneAtATime => Matches(poll.cur) # {}

\* Nobody calls a driver that does not serve yet.
NobodyCallsEarly == ~serving => \A c \in Creates : create[c] = IdleCreate

\* A create that launched and a request that listed have an instance of
\* their sandbox.
CallsHoldInstances ==
    /\ \A c \in Creates : create[c].pc \in {"launched", "compensate"}
                             => Belongs(create[c].instance, create[c].sandbox)
    /\ \A p \in Rpcs : rpc[p].pc = "add" => /\ Belongs(rpc[p].instance, rpc[p].sandbox)
                                            /\ rpc[p].found.state \in ListedStates

\* An absent entry is the zero record.
AbsentIsZero == \A s \in Sandboxes : records[s].lease = 0 => records[s] = NoRecord

-----------------------------------------------------------------------------
(* Lemmas about the operators the model is built from.                      *)

\* A nonempty set of naturals has a least element.
LEMMA LeastNatural ==
    ASSUME NEW T, T \subseteq Nat, T # {}
    PROVE  \E x \in T : \A y \in T : x <= y
  <1>1. PICK x \in T : \A y \in T : ~ (<<y, x>> \in OpToRel(<, Nat))
    BY WFMin, NatLessThanWellFounded, Zenon
  <1>2. \A y \in T : ~(y < x)
    BY <1>1, Zenon DEF OpToRel
  <1> QED
    BY <1>2

\* The sort of the reconciler is total on IDs and launch times, so the listed
\* instances of a sandbox have a first one, and the reconciler keeps it.
LEMMA KeeperIsListed ==
    ASSUME poll.listed \in [Instances -> Instance], NEW s, Matches(s) # {}
    PROVE  Keeper(s) \in Matches(s)
  <1> DEFINE times == {poll.listed[v].createdAt : v \in Matches(s)}
  <1>0. Matches(s) \subseteq Instances
    BY DEF Matches
  <1>1. \A v \in Matches(s) : poll.listed[v].createdAt \in Nat
    BY <1>0 DEF Instance
  <1>2. PICK t \in times : \A u \in times : t <= u
    <2>1. times \subseteq Nat /\ times # {}
      BY <1>1
    <2> HIDE DEF times
    <2> QED
      BY <2>1, LeastNatural, Zenon
  <1> DEFINE first == {v \in Matches(s) : poll.listed[v].createdAt = t}
  <1>3. first # {} /\ first \subseteq Nat
    BY <1>0, InstancesAreNames
  <1>4. PICK v \in first : \A w \in first : v <= w
    BY <1>3, LeastNatural
  <1>5. ASSUME NEW w \in Matches(s) PROVE Before(v, w)
    <2>0. /\ v \in Matches(s) /\ poll.listed[v].createdAt = t
          /\ t <= poll.listed[w].createdAt
          /\ poll.listed[v].createdAt \in Nat /\ poll.listed[w].createdAt \in Nat
      BY <1>1, <1>2
    <2>1. CASE poll.listed[w].createdAt = t
      BY <1>4, <2>0, <2>1 DEF Before
    <2>2. CASE poll.listed[w].createdAt # t
      BY <2>0, <2>2 DEF Before
    <2> QED
      BY <2>1, <2>2
  <1>6. \E u \in Matches(s) : \A w \in Matches(s) : Before(u, w)
    BY <1>5
  <1> QED
    BY <1>6, Zenon DEF Keeper

\* What the threads look like when they have nothing to do.
LEMMA IdleTypes ==
    /\ Unborn \in Instance /\ Unborn.state = "unborn"
    /\ IdleCreate \in CreateCall
    /\ IdleRpc \in RpcCallState
    /\ IdlePoll \in PollState
    /\ NoRecord \in Record(States)
    /\ NewRegistry \in [Sandboxes -> Record(States)]
    /\ IdleCreate.pc = "idle" /\ IdleRpc.pc = "idle"
    /\ IdlePoll.pc = "idle" /\ IdlePoll.seen = {} /\ IdlePoll.todo = {}
    /\ \A v \in Instances : IdlePoll.listed[v] = Unborn
    /\ NoRecord.instance = NoInstance /\ NoRecord.lease = 0 /\ NoRecord.missingPolls = 0
  <1>1. AnySandbox \in Sandboxes
    BY SandboxesFinite, Zenon DEF AnySandbox
  <1>2. Unborn \in Instance /\ Unborn.state = "unborn" /\ Unborn.token \in Tokens
    <2>1. (CHOOSE t \in Tokens : TRUE) \in Tokens
      BY TokensExist, Zenon
    <2> QED
      BY <2>1 DEF Unborn, Instance, InstanceStates, ZeroTime
  <1>3. NoRecord \in Record(States)
    BY DEF NoRecord, Record, NoInstance, ZeroTime
  <1>4. NewRegistry \in [Sandboxes -> Record(States)]
    BY <1>3 DEF NewRegistry
  <1>5. IdleCreate \in CreateCall
    BY <1>1, <1>2 DEF IdleCreate, CreateCall, ZeroTime
  <1>6. IdleRpc \in RpcCallState
    BY <1>1, <1>2 DEF IdleRpc, RpcCallState
  <1>7. IdlePoll \in PollState
    BY <1>1, <1>2, <1>4 DEF IdlePoll, PollState
  <1>8. /\ IdleCreate.pc = "idle" /\ IdleRpc.pc = "idle"
        /\ IdlePoll.pc = "idle" /\ IdlePoll.seen = {} /\ IdlePoll.todo = {}
        /\ \A v \in Instances : IdlePoll.listed[v] = Unborn
        /\ NoRecord.instance = NoInstance /\ NoRecord.lease = 0 /\ NoRecord.missingPolls = 0
    BY DEF IdleCreate, IdleRpc, IdlePoll, NoRecord
  <1> QED
    BY <1>2, <1>3, <1>4, <1>5, <1>6, <1>7, <1>8

\* The account's operators stay within the types, and a list shows only what
\* exists.
LEMMA AccountOperators ==
    ASSUME instances \in [Instances -> Instance]
    PROVE  /\ \A V : Terminated(V) \in [Instances -> Instance]
           /\ \A v, st \in InstanceStates :
                 [instances EXCEPT ![v].state = st] \in [Instances -> Instance]
           /\ Listed \in [Instances -> Instance]
           /\ \A v \in Instances : Listed[v].state \in ListedStates \cup {"unborn"}
  <1>1. ASSUME NEW V PROVE Terminated(V) \in [Instances -> Instance]
    <2>1. \A v \in Instances : [instances[v] EXCEPT !.state = "shutting-down"] \in Instance
      BY DEF Instance, InstanceStates, ListedStates
    <2> QED
      BY <2>1 DEF Terminated
  <1>2. ASSUME NEW v, NEW st \in InstanceStates
        PROVE  [instances EXCEPT ![v].state = st] \in [Instances -> Instance]
    BY DEF Instance
  <1>3. Listed \in [Instances -> Instance]
    BY IdleTypes DEF Listed
  <1>4. \A v \in Instances : Listed[v].state \in ListedStates \cup {"unborn"}
    BY IdleTypes DEF Listed, Exists
  <1> QED
    BY <1>1, <1>2, <1>3, <1>4

\* Every call to AWS leaves a well-formed account, whatever came of it.
LEMMA CallsKeepType ==
    ASSUME instances \in [Instances -> Instance],
           \/ \E V : TerminateAccepted(V) \/ TerminateFails(V)
           \/ \E v : StopAccepted(v)
    PROVE  instances' \in [Instances -> Instance]
  <1>1. \A v : [instances EXCEPT ![v].state = "stopping"] \in [Instances -> Instance]
    <2>1. "stopping" \in InstanceStates
      BY DEF InstanceStates, ListedStates
    <2> QED
      BY <2>1 DEF Instance
  <1> QED
    BY <1>1, AccountOperators DEF TerminateAccepted, TerminateFails, StopAccepted
-----------------------------------------------------------------------------
(* Type correctness.                                                        *)

LEMMA InitType == Init => TypeOK
  <1> SUFFICES ASSUME Init PROVE TypeOK
    OBVIOUS
  <1>1. instances \in [Instances -> Instance]
    BY IdleTypes, EnvironmentIsKnown DEF Init
  <1>2. now \in Nat /\ now >= Start
    BY LimitsArePositive DEF Init, Start
  <1>3. /\ records \in [Sandboxes -> Record(States)] /\ nextLease \in Nat /\ restarts \in Nat
        /\ create \in [Creates -> CreateCall] /\ rpc \in [Rpcs -> RpcCallState] /\ poll \in PollState
    BY IdleTypes DEF Init
  <1>4. serving \in BOOLEAN
    BY Zenon DEF Init
  <1>5. absentRun \in [Sandboxes -> 0 .. missingPollThreshold]
    BY DEF Init, missingPollThreshold
  <1>6. published \in [Sandboxes -> {"none", "sandbox", "deleted"}]
    BY DEF Init
  <1> QED
    BY <1>1, <1>2, <1>3, <1>4, <1>5, <1>6 DEF TypeOK

\* The registry operators stay within the types.
LEMMA RegistryOperators ==
    ASSUME NEW recs \in [Sandboxes -> Record(States)], NEW s
    PROVE  /\ \A rec \in Record(States), n \in Nat :
                 Store(recs, s, rec, n) \in [Sandboxes -> Record(States)]
           /\ Rollback(recs, s) \in [Sandboxes -> Record(States)]
           /\ Delete(recs, s) \in [Sandboxes -> Record(States)]
           /\ \A st \in States : [recs EXCEPT ![s].state = st] \in [Sandboxes -> Record(States)]
           /\ \A n \in Nat : [recs EXCEPT ![s].missingPolls = n] \in [Sandboxes -> Record(States)]
  <1>1. ASSUME NEW rec \in Record(States), NEW n \in Nat
        PROVE  Store(recs, s, rec, n) \in [Sandboxes -> Record(States)]
    <2>1. [rec EXCEPT !.lease = n] \in Record(States)
      BY DEF Record
    <2> QED
      BY <2>1 DEF Store
  <1>2. /\ Rollback(recs, s) \in [Sandboxes -> Record(States)]
        /\ Delete(recs, s) \in [Sandboxes -> Record(States)]
    BY IdleTypes DEF Rollback, Delete
  <1>3. \A st \in States : [recs EXCEPT ![s].state = st] \in [Sandboxes -> Record(States)]
    BY DEF Record
  <1>4. \A n \in Nat : [recs EXCEPT ![s].missingPolls = n] \in [Sandboxes -> Record(States)]
    BY DEF Record
  <1> QED
    BY <1>1, <1>2, <1>3, <1>4

\* What RunInstances may leave is an instance of the sandbox.
LEMMA LaunchResultType ==
    ASSUME TypeOK, NEW c \in Creates, NEW r \in LaunchResults(c)
    PROVE  /\ Belongs(r[1], create[c].sandbox)
           /\ r[2] \in Instance
           /\ r[2].state \in ListedStates
           /\ r[2] = instances[r[1]] \/ r[2].visible = ~ListsLag
  <1> DEFINE mine == {v \in Instances : SandboxOf[v] = create[c].sandbox}
             same == {v \in mine : Exists(v) /\ instances[v].token = create[c].token}
             new(v) == [state |-> "pending", createdAt |-> now, token |-> create[c].token,
                        visible |-> ~ListsLag]
  <1>1. /\ instances \in [Instances -> Instance] /\ now \in Nat /\ create[c] \in CreateCall
        /\ create[c].token \in Tokens
    BY DEF TypeOK, CreateCall
  <1>2. \A v : new(v) \in Instance
    BY <1>1, BoundsAreNumbers DEF Instance, InstanceStates, ListedStates
  <1>3. CASE same # {}
    <2>1. PICK v \in same : r = <<v, instances[v]>>
      BY <1>3, Zenon DEF LaunchResults
    <2> QED
      BY <1>1, <2>1 DEF Belongs, Exists
  <1>4. CASE same = {}
    <2>1. PICK v \in mine : r = <<v, new(v)>>
      BY <1>4, Zenon DEF LaunchResults
    <2> QED
      BY <1>1, <1>2, <2>1 DEF Belongs, ListedStates
  <1> QED
    BY <1>3, <1>4

LEMMA CreateType ==
    ASSUME TypeOK, NEW c \in Creates, CreateStep(c)
    PROVE  TypeOK'
  <1>0. /\ records \in [Sandboxes -> Record(States)] /\ nextLease \in Nat /\ now \in Nat
        /\ instances \in [Instances -> Instance]
        /\ create \in [Creates -> CreateCall] /\ create[c] \in CreateCall
        /\ create[c].sandbox \in Sandboxes
    BY DEF TypeOK, CreateCall
  <1>1. ASSUME NEW s \in Sandboxes, NEW t \in Tokens, CreateReserve(c, s, t) PROVE TypeOK'
    <2>1. nextLease' \in Nat
      BY <1>0, <1>1 DEF CreateReserve, NextLease
    <2>2. [NoRecord EXCEPT !.state = "launching", !.createdAt = now] \in Record(States)
      BY <1>0, IdleTypes DEF Record, States
    <2>3. records' \in [Sandboxes -> Record(States)]
      BY <1>0, <1>1, <2>1, <2>2, RegistryOperators DEF CreateReserve
    <2>4. create' \in [Creates -> CreateCall]
      BY <1>0, <1>1, <2>1 DEF CreateReserve, CreateCall
    <2> QED
      BY <1>1, <2>1, <2>3, <2>4 DEF CreateReserve, TypeOK
  <1>2. CASE CreateLaunchRefused(c) \/ CreateLaunchFails(c)
    <2>1. create' \in [Creates -> CreateCall]
      <3>1. create' = [create EXCEPT ![c].pc = "rollback"]
        BY <1>2 DEF CreateLaunchRefused, CreateLaunchFails
      <3> QED
        BY <1>0, <3>1 DEF CreateCall
    <2> QED
      BY <1>2, <2>1 DEF CreateLaunchRefused, CreateLaunchFails, TypeOK, registry
  <1>3. CASE CreateLaunch(c)
    <2>1. PICK r \in LaunchResults(c) :
             /\ instances' = [instances EXCEPT ![r[1]] = r[2]]
             /\ create' = [create EXCEPT ![c] = [@ EXCEPT !.pc = "launched", !.instance = r[1],
                          !.state = r[2].state,
                          !.createdAt = IF r[2].createdAt = ZeroTime THEN create[c].createdAt ELSE r[2].createdAt]]
      BY <1>3, Zenon DEF CreateLaunch
    <2>2. r[1] \in Instances /\ r[2] \in Instance /\ r[2].state \in ListedStates
          /\ r[2].createdAt \in Nat
      BY LaunchResultType DEF Belongs, Instance
    <2>3. create' \in [Creates -> CreateCall]
      <3>1. ASSUME NEW v \in Instances, NEW st \in ListedStates, NEW t \in Nat
            PROVE  [create EXCEPT ![c] = [@ EXCEPT !.pc = "launched", !.instance = v, !.state = st,
                                                   !.createdAt = t]] \in [Creates -> CreateCall]
        BY <1>0 DEF CreateCall
      <3>2. (IF r[2].createdAt = ZeroTime THEN create[c].createdAt ELSE r[2].createdAt) \in Nat
        BY <1>0, <2>2 DEF CreateCall
      <3> QED
        BY <2>1, <2>2, <3>1, <3>2
    <2>4. instances' \in [Instances -> Instance]
      BY <1>0, <2>1, <2>2
    <2> QED
      BY <1>3, <2>3, <2>4 DEF CreateLaunch, TypeOK, registry
  <1>4. CASE CreateCommit(c)
    <2> DEFINE s == create[c].sandbox
               r == [records[s] EXCEPT !.instance = create[c].instance, !.state = create[c].state,
                                       !.createdAt = create[c].createdAt]
    <2>1. r \in Record(States)
      <3>1. records[s] \in Record(States)
        BY <1>0
      <3> QED
        BY <1>0, <3>1 DEF Record, States, CreateCall
    <2>2. records' = [records EXCEPT ![s] = r] \/ records' = records
      BY <1>4 DEF CreateCommit
    <2> HIDE DEF r
    <2>3. records' \in [Sandboxes -> Record(States)]
      BY <1>0, <2>1, <2>2
    <2>4. create' \in [Creates -> CreateCall]
      BY <1>0, <1>4 DEF CreateCommit, CreateCall
    <2> QED
      BY <1>4, <2>3, <2>4 DEF CreateCommit, TypeOK
  <1>5. CASE CreateCompensate(c)
    <2>1. create' \in [Creates -> CreateCall]
      BY <1>0, <1>5 DEF CreateCompensate, CreateCall
    <2>2. instances' \in [Instances -> Instance]
      BY <1>0, <1>5, CallsKeepType DEF CreateCompensate
    <2> QED
      BY <1>5, <2>1, <2>2 DEF CreateCompensate, TypeOK, registry
  <1>6. CASE CreateRollback(c) \/ CreateBroadcast(c)
    <2>1. create' \in [Creates -> CreateCall]
      BY <1>0, <1>6, IdleTypes DEF CreateRollback, CreateBroadcast
    <2>2. records' \in [Sandboxes -> Record(States)]
      BY <1>0, <1>6, RegistryOperators DEF CreateRollback, CreateBroadcast, registry
    <2>3. published' \in [Sandboxes -> {"none", "sandbox", "deleted"}]
      BY <1>6 DEF CreateRollback, CreateBroadcast, TypeOK
    <2> QED
      BY <1>6, <2>1, <2>2, <2>3 DEF CreateRollback, CreateBroadcast, TypeOK, registry
  <1> QED
    BY <1>1, <1>2, <1>3, <1>4, <1>5, <1>6 DEF CreateStep

\* A request that is resolved ends or goes on to its call.
LEMMA ResolvedType ==
    ASSUME TypeOK, NEW p \in Rpcs, NEW s \in Sandboxes,
           NEW v \in Instances \cup {NoInstance}, Resolved(p, s, v)
    PROVE  rpc' \in [Rpcs -> RpcCallState]
  <1>0. rpc \in [Rpcs -> RpcCallState] /\ rpc[p].op \in {"get", "stop", "delete"}
    BY DEF TypeOK, RpcCallState
  <1>1. [IdleRpc EXCEPT !.pc = "call", !.op = rpc[p].op, !.sandbox = s, !.instance = v] \in RpcCallState
    BY <1>0, IdleTypes DEF RpcCallState
  <1>2. IdleRpc \in RpcCallState
    BY IdleTypes
  <1> QED
    BY <1>0, <1>1, <1>2 DEF Resolved

\* The record a listed instance gets.
LEMMA RecordType ==
    ASSUME NEW v \in Instances, NEW i \in Instance, i.state \in ListedStates
    PROVE  /\ recordFromInstance(v, i) \in Record(States)
           /\ recordFromInstance(v, i).instance = v
           /\ recordFromInstance(v, i).missingPolls = 0
  BY IdleTypes DEF recordFromInstance, NoRecord, Record, States, Instance

LEMMA RpcType ==
    ASSUME TypeOK, CallsHoldInstances, NEW p \in Rpcs, RpcStep(p)
    PROVE  TypeOK'
  <1>0. /\ records \in [Sandboxes -> Record(States)] /\ nextLease \in Nat
        /\ instances \in [Instances -> Instance]
        /\ rpc \in [Rpcs -> RpcCallState] /\ rpc[p] \in RpcCallState
        /\ rpc[p].sandbox \in Sandboxes /\ rpc[p].instance \in Instances \cup {NoInstance}
        /\ rpc[p].target \subseteq Sandboxes
    BY DEF TypeOK, RpcCallState
  <1>1. ASSUME NEW T \in Targets, NEW op \in Ops, RpcStart(p, op, T) PROVE TypeOK'
    <2>1. rpc' = [rpc EXCEPT ![p] = [@ EXCEPT !.pc = "resolve", !.op = op, !.target = T]]
      BY <1>1 DEF RpcStart
    <2>2. T \subseteq Sandboxes /\ op \in {"get", "stop", "delete"}
      BY NamesAreShared, OpsAreKnown DEF Targets
    <2>3. rpc' \in [Rpcs -> RpcCallState]
      BY <1>0, <2>1, <2>2 DEF RpcCallState
    <2> QED
      BY <1>1, <2>3 DEF RpcStart, TypeOK, registry
  <1>2. CASE ResolveRegistry(p)
    <2>1. \A s \in Sandboxes : records[s].instance \in Instances \cup {NoInstance}
      BY <1>0 DEF Record
    <2>2. CASE Return(p)
      <3>1. rpc' \in [Rpcs -> RpcCallState]
        BY <1>0, <2>2, IdleTypes DEF Return
      <3> QED
        BY <1>2, <3>1 DEF ResolveRegistry, TypeOK, registry
    <2>3. CASE rpc' = [rpc EXCEPT ![p].pc = "list"]
      <3>1. rpc' \in [Rpcs -> RpcCallState]
        BY <1>0, <2>3 DEF RpcCallState
      <3> QED
        BY <1>2, <3>1 DEF ResolveRegistry, TypeOK, registry
    <2>4. ASSUME NEW s \in rpc[p].target, Resolved(p, s, records[s].instance) PROVE TypeOK'
      <3>1. s \in Sandboxes /\ records[s].instance \in Instances \cup {NoInstance}
        BY <1>0, <2>1
      <3>2. rpc' \in [Rpcs -> RpcCallState]
        BY <2>4, <3>1, ResolvedType
      <3> QED
        BY <1>2, <3>2 DEF ResolveRegistry, TypeOK, registry
    <2> QED
      BY <1>2, <2>2, <2>3, <2>4 DEF ResolveRegistry
  <1>3. CASE ResolveList(p)
    <2>1. CASE Return(p)
      <3>1. rpc' \in [Rpcs -> RpcCallState]
        BY <1>0, <2>1, IdleTypes DEF Return
      <3> QED
        BY <1>3, <3>1 DEF ResolveList, TypeOK, registry
    <2>2. ASSUME NEW v \in Instances,
                 rpc' = [rpc EXCEPT ![p] = [@ EXCEPT !.pc = "add", !.instance = v,
                                           !.sandbox = SandboxOf[v], !.target = {}, !.found = Listed[v]]]
          PROVE  TypeOK'
      <3>1. Listed[v] \in Instance /\ SandboxOf[v] \in Sandboxes
        BY <1>0, AccountOperators, InstancesAreTagged
      <3>2. rpc' \in [Rpcs -> RpcCallState]
        BY <1>0, <2>2, <3>1 DEF RpcCallState
      <3> QED
        BY <1>3, <3>2 DEF ResolveList, TypeOK, registry
    <2> QED
      BY <1>3, <2>1, <2>2 DEF ResolveList
  <1>4. CASE ResolveAdd(p)
    <2>1. rpc' \in [Rpcs -> RpcCallState]
      BY <1>0, <1>4, ResolvedType DEF ResolveAdd
    <2>2. rpc[p].instance \in Instances /\ rpc[p].found \in Instance /\ rpc[p].found.state \in ListedStates
      BY <1>0, <1>4 DEF ResolveAdd, CallsHoldInstances, Belongs, RpcCallState
    <2>3. recordFromInstance(rpc[p].instance, rpc[p].found) \in Record(States)
      BY <2>2, RecordType
    <2>4. records' \in [Sandboxes -> Record(States)] /\ nextLease' \in Nat
      <3>1. CASE UNCHANGED registry
        BY <1>0, <3>1 DEF registry
      <3>2. CASE ~UNCHANGED registry
        <4>1. nextLease' = nextLease + 1
              /\ records' = Store(records, rpc[p].sandbox,
                                  recordFromInstance(rpc[p].instance, rpc[p].found), nextLease')
          BY <1>4, <3>2, Zenon DEF ResolveAdd, NextLease
        <4>2. nextLease' \in Nat
          BY <1>0, <4>1
        <4> QED
          BY <1>0, <2>3, <4>1, <4>2, RegistryOperators
      <3> QED
        BY <3>1, <3>2
    <2> QED
      BY <1>4, <2>1, <2>4 DEF ResolveAdd, TypeOK
  <1>5. CASE RpcCall(p)
    <2>1. rpc' \in [Rpcs -> RpcCallState]
      BY <1>0, <1>5 DEF RpcCall, RpcCallState
    <2>2. instances' \in [Instances -> Instance]
      BY <1>0, <1>5, CallsKeepType DEF RpcCall
    <2> QED
      BY <1>5, <2>1, <2>2 DEF RpcCall, TypeOK, registry
  <1>6. CASE RpcCallFails(p)
    <2>1. rpc' \in [Rpcs -> RpcCallState]
      BY <1>0, <1>6, IdleTypes DEF RpcCallFails, Return
    <2>2. instances' \in [Instances -> Instance]
      BY <1>0, <1>6, CallsKeepType DEF RpcCallFails
    <2> QED
      BY <1>6, <2>1, <2>2 DEF RpcCallFails, TypeOK, registry
  <1>7. CASE RpcUpdate(p)
    <2>1. rpc' \in [Rpcs -> RpcCallState]
      BY <1>0, <1>7 DEF RpcUpdate, RpcCallState
    <2>2. RequestedState(rpc[p].op) \in States
      BY DEF RequestedState, States, ListedStates
    <2>3. records' \in [Sandboxes -> Record(States)]
      <3>1. \/ records' = [records EXCEPT ![rpc[p].sandbox].state = RequestedState(rpc[p].op)]
            \/ records' = records
        BY <1>7 DEF RpcUpdate
      <3>2. \A s \in Sandboxes, st \in States :
               [records EXCEPT ![s].state = st] \in [Sandboxes -> Record(States)]
        BY <1>0 DEF Record
      <3>3. [records EXCEPT ![rpc[p].sandbox].state = RequestedState(rpc[p].op)]
              \in [Sandboxes -> Record(States)]
        BY <1>0, <2>2, <3>2
      <3> QED
        BY <1>0, <3>1, <3>3
    <2> QED
      BY <1>7, <2>1, <2>3 DEF RpcUpdate, TypeOK
  <1>8. CASE RpcBroadcast(p)
    <2>1. rpc' \in [Rpcs -> RpcCallState]
      BY <1>0, <1>8, IdleTypes DEF RpcBroadcast, Return
    <2>2. published' \in [Sandboxes -> {"none", "sandbox", "deleted"}]
      BY <1>8 DEF RpcBroadcast, TypeOK
    <2> QED
      BY <1>8, <2>1, <2>2 DEF RpcBroadcast, TypeOK, registry
  <1> QED
    BY <1>1, <1>2, <1>3, <1>4, <1>5, <1>6, <1>7, <1>8 DEF RpcStep

\* A poll that fails goes back to sleep, or takes an unserving process down.
LEMMA PollErrorType ==
    ASSUME TypeOK, PollReturnsError
    PROVE  /\ poll' \in PollState
           /\ records' \in [Sandboxes -> Record(States)]
           /\ nextLease' \in Nat
           /\ published' \in [Sandboxes -> {"none", "sandbox", "deleted"}]
  BY IdleTypes DEF PollReturnsError, TypeOK

\* What the reconciler keeps is an instance of the sandbox it is working on.
LEMMA KeeperType ==
    ASSUME TypeOK, PollOnTrack, poll.pc \in OneAtATime
    PROVE  /\ poll.cur \in Sandboxes
           /\ Belongs(Keeper(poll.cur), poll.cur)
           /\ poll.listed[Keeper(poll.cur)] \in Instance
           /\ poll.listed[Keeper(poll.cur)].state \in ListedStates
           /\ Recovered(Keeper(poll.cur)) \in Record(States)
           /\ Recovered(Keeper(poll.cur)).instance = Keeper(poll.cur)
           /\ Recovered(Keeper(poll.cur)).missingPolls = 0
  <1> DEFINE v == Keeper(poll.cur)
             r == recordFromInstance(v, poll.listed[v])
  <1>1. poll.cur \in Sandboxes /\ poll.listed \in [Instances -> Instance]
    BY DEF TypeOK, PollState
  <1>2. v \in Matches(poll.cur)
    BY <1>1, KeeperIsListed DEF PollOnTrack
  <1> HIDE DEF v
  <1>3. v \in Instances /\ SandboxOf[v] = poll.cur /\ poll.listed[v].state # "unborn"
    BY <1>2 DEF Matches
  <1>4. poll.listed[v] \in Instance /\ poll.listed[v].state \in ListedStates
    BY <1>1, <1>3 DEF PollOnTrack
  <1>5. r \in Record(States) /\ r.instance = v /\ r.missingPolls = 0
    BY <1>3, <1>4, RecordType
  <1>6. now - MaxInstanceAge - 1 \in Nat
    BY LimitsArePositive DEF TypeOK, Start
  <1>7. Recovered(v) \in {r, [r EXCEPT !.createdAt = now - MaxInstanceAge - 1]}
    BY DEF Recovered
  <1> HIDE DEF r
  <1>8. Recovered(v) \in Record(States) /\ Recovered(v).instance = v /\ Recovered(v).missingPolls = 0
    BY <1>5, <1>6, <1>7 DEF Record
  <1> QED
    BY <1>1, <1>3, <1>4, <1>8 DEF Belongs, v

LEMMA PollType ==
    ASSUME TypeOK, PollOnTrack, PollStep
    PROVE  TypeOK'
  <1>0. /\ records \in [Sandboxes -> Record(States)] /\ nextLease \in Nat
        /\ instances \in [Instances -> Instance]
        /\ poll \in PollState /\ poll.cur \in Sandboxes /\ poll.todo \subseteq Sandboxes
        /\ published \in [Sandboxes -> {"none", "sandbox", "deleted"}]
        /\ absentRun \in [Sandboxes -> 0 .. missingPollThreshold]
    BY DEF TypeOK, PollState
  <1>1. CASE PollList
    <2>1. poll' \in PollState
      BY <1>0, <1>1, AccountOperators DEF PollList, PollState
    <2> QED
      BY <1>1, <2>1 DEF PollList, TypeOK, registry
  <1>2. CASE PollTerminateDuplicates
    <2>1. instances' \in [Instances -> Instance]
      BY <1>0, <1>2, CallsKeepType DEF PollTerminateDuplicates
    <2>2. /\ poll' \in PollState /\ nextLease' \in Nat
          /\ records' \in [Sandboxes -> Record(States)]
          /\ published' \in [Sandboxes -> {"none", "sandbox", "deleted"}]
      BY <1>0, <1>2, PollErrorType DEF PollTerminateDuplicates, PollState
    <2> QED
      BY <1>2, <2>1, <2>2 DEF PollTerminateDuplicates, TypeOK
  <1>3. CASE PollDrop
    <2>1. poll' \in PollState
      BY <1>0, <1>3 DEF PollDrop, PollState
    <2>2. records' \in [Sandboxes -> Record(States)]
      BY <1>0, <1>3, RegistryOperators DEF PollDrop
    <2> QED
      BY <1>3, <2>1, <2>2 DEF PollDrop, TypeOK
  <1>4. CASE PollGet
    <2>1. \/ poll' = [poll EXCEPT !.pc = "add"] \/ poll' = [poll EXCEPT !.pc = "reconcile"]
          \/ poll' = [poll EXCEPT !.pc = "update", !.snap[poll.cur] = records[poll.cur]]
      BY <1>4 DEF PollGet
    <2>2. poll' \in PollState
      <3>1. [poll EXCEPT !.pc = "add"] \in PollState /\ [poll EXCEPT !.pc = "reconcile"] \in PollState
        BY <1>0 DEF PollState
      <3>2. [poll EXCEPT !.pc = "update", !.snap[poll.cur] = records[poll.cur]] \in PollState
        <4>1. records[poll.cur] \in Record(States)
          BY <1>0
        <4> QED
          BY <1>0, <4>1 DEF PollState
      <3> QED
        BY <2>1, <3>1, <3>2
    <2> QED
      BY <1>4, <2>2 DEF PollGet, TypeOK, registry
  <1>5. CASE PollAdd
    <2>1. /\ poll' \in PollState /\ nextLease' \in Nat
          /\ records' \in [Sandboxes -> Record(States)]
          /\ published' \in [Sandboxes -> {"none", "sandbox", "deleted"}]
      <3>1. CASE PollReturnsError
        BY <3>1, PollErrorType
      <3>2. CASE ~PollReturnsError
        <4>1. /\ nextLease' = nextLease + 1
              /\ records' = Store(records, poll.cur, Recovered(Keeper(poll.cur)), nextLease')
              /\ poll' = [poll EXCEPT !.pc = "broadcast"] /\ UNCHANGED published
          BY <1>5, <3>2, Zenon DEF PollAdd, NextLease
        <4>2. nextLease' \in Nat /\ Recovered(Keeper(poll.cur)) \in Record(States)
          BY <1>0, <1>5, <4>1, KeeperType DEF PollAdd, OneAtATime
        <4>3. records' \in [Sandboxes -> Record(States)]
          BY <1>0, <4>1, <4>2, RegistryOperators
        <4>4. poll' \in PollState
          BY <1>0, <4>1 DEF PollState
        <4> QED
          BY <1>0, <4>1, <4>2, <4>3, <4>4
      <3> QED
        BY <3>1, <3>2
    <2> QED
      BY <1>5, <2>1 DEF PollAdd, TypeOK
  <1>6. CASE PollUpdate
    <2> DEFINE s == poll.cur
               v == Keeper(s)
               r == Reconciled(records[s], v, poll.listed[v])
    <2>1. v \in Instances /\ poll.listed[v] \in Instance /\ poll.listed[v].state \in ListedStates
      BY <1>6, KeeperType DEF PollUpdate, OneAtATime, Belongs
    <2> HIDE DEF v
    <2>2. r \in Record(States)
      <3>1. records[s] \in Record(States)
        BY <1>0
      <3> QED
        BY <2>1, <3>1 DEF Reconciled, Record, States, Instance
    <2>3. records' = [records EXCEPT ![s] = r] \/ records' = records
      BY <1>6 DEF PollUpdate, v
    <2> HIDE DEF r
    <2>4. records' \in [Sandboxes -> Record(States)]
      BY <1>0, <2>2, <2>3
    <2>5. poll' \in PollState
      BY <1>0, <1>6, IdleTypes DEF PollUpdate, PollState
    <2> QED
      BY <1>6, <2>4, <2>5 DEF PollUpdate, TypeOK
  <1>7. CASE PollBroadcast \/ PollBroadcastDeleted
    <2>1. poll' \in PollState
      BY <1>0, <1>7 DEF PollBroadcast, PollBroadcastDeleted, PollState
    <2>2. published' \in [Sandboxes -> {"none", "sandbox", "deleted"}]
      BY <1>0, <1>7 DEF PollBroadcast, PollBroadcastDeleted
    <2> QED
      BY <1>7, <2>1, <2>2 DEF PollBroadcast, PollBroadcastDeleted, TypeOK, registry
  <1>8. CASE PollAll
    <2>1. {s \in Tracked(records) : records[s].instance # NoInstance /\ s \notin poll.seen}
              \subseteq Sandboxes
      BY DEF Tracked
    <2>2. poll' \in PollState
      BY <1>8, <2>1, IdleTypes DEF PollAll, PollState
    <2>3. absentRun' \in [Sandboxes -> 0 .. missingPollThreshold]
      BY <1>0, <1>8 DEF PollAll, Saturate, missingPollThreshold
    <2> QED
      BY <1>8, <2>2, <2>3 DEF PollAll, TypeOK, registry
  <1>9. CASE PollForget
    <2>1. poll' \in PollState
      BY <1>0, <1>9 DEF PollForget, PollState
    <2>2. records' \in [Sandboxes -> Record(States)]
      BY <1>0, <1>9, RegistryOperators DEF PollForget
    <2> QED
      BY <1>9, <2>1, <2>2 DEF PollForget, TypeOK
  <1>10. CASE PollExpired
    <2>1. poll' \in PollState
      <3>1. \A M : [s \in Sandboxes |-> IF s \in M THEN records[s] ELSE NoRecord]
                       \in [Sandboxes -> Record(States)]
        BY <1>0, IdleTypes
      <3>2. {s \in Expired(records, now) : /\ records[s].instance # NoInstance
                                           /\ records[s].state # "shutting-down"} \subseteq Sandboxes
        BY DEF Expired, Tracked
      <3> QED
        BY <1>10, <3>1, <3>2, IdleTypes DEF PollExpired, PollState
    <2> QED
      BY <1>10, <2>1 DEF PollExpired, TypeOK, registry
  <1>11. CASE PollExpireUpdate
    <2>1. poll' \in PollState
      BY <1>0, <1>11 DEF PollExpireUpdate, PollState
    <2>2. "shutting-down" \in States
      BY DEF States, ListedStates
    <2>3. records' \in [Sandboxes -> Record(States)]
      BY <1>0, <1>11, <2>2, RegistryOperators DEF PollExpireUpdate
    <2> QED
      BY <1>11, <2>1, <2>3 DEF PollExpireUpdate, TypeOK
  <1>12. CASE PollDone
    <2>1. poll' \in PollState
      BY <1>12, IdleTypes DEF PollDone
    <2>2. serving' \in BOOLEAN
      BY <1>12, Zenon DEF PollDone
    <2> QED
      BY <1>12, <2>1, <2>2 DEF PollDone, TypeOK, registry
  <1>13. ASSUME NEW s \in Sandboxes, PollPick(s) PROVE TypeOK'
    <2>1. Duplicates(s) \subseteq Instances
      BY DEF Duplicates, Matches
    <2>2. poll' \in PollState
      BY <1>0, <1>13, <2>1 DEF PollPick, PollState
    <2> QED
      BY <1>13, <2>2 DEF PollPick, TypeOK, registry
  <1>14. ASSUME NEW s \in Sandboxes, PollMissing(s) PROVE TypeOK'
    <2>1. poll' \in PollState
      BY <1>0, <1>14 DEF PollMissing, PollState
    <2>2. records[s].missingPolls \in Nat
      BY <1>0 DEF Record
    <2>3. Missed(records[s].missingPolls) \in Nat
      BY <2>2 DEF Missed, Saturate, missingPollThreshold
    <2>4. records' \in [Sandboxes -> Record(States)]
      BY <1>0, <1>14, <2>3, RegistryOperators DEF PollMissing
    <2> QED
      BY <1>14, <2>1, <2>4 DEF PollMissing, TypeOK
  <1>15. ASSUME NEW s \in Sandboxes, PollExpire(s) PROVE TypeOK'
    <2>1. \/ poll' = [poll EXCEPT !.todo = @ \ {s}, !.cur = s, !.pc = "expireUpdate", !.snap[s] = NoRecord]
          \/ poll' = [poll EXCEPT !.todo = @ \ {s}, !.snap[s] = NoRecord]
      BY <1>15 DEF PollExpire
    <2>2. poll' \in PollState
      <3>1. [poll EXCEPT !.todo = @ \ {s}, !.snap[s] = NoRecord] \in PollState
        BY <1>0, IdleTypes DEF PollState
      <3>2. [poll EXCEPT !.todo = @ \ {s}, !.cur = s, !.pc = "expireUpdate", !.snap[s] = NoRecord]
              \in PollState
        BY <1>0, IdleTypes DEF PollState
      <3> QED
        BY <2>1, <3>1, <3>2
    <2>3. instances' \in [Instances -> Instance]
      BY <1>0, <1>15, CallsKeepType DEF PollExpire
    <2> QED
      BY <1>15, <2>2, <2>3 DEF PollExpire, TypeOK, registry
  <1> QED
    BY <1>1, <1>2, <1>3, <1>4, <1>5, <1>6, <1>7, <1>8, <1>9, <1>10, <1>11, <1>12, <1>13, <1>14,
       <1>15 DEF PollStep

LEMMA EnvironmentType ==
    ASSUME TypeOK, Environment
    PROVE  TypeOK'
  <1>0. instances \in [Instances -> Instance]
    BY DEF TypeOK
  <1>1. CASE Tick
    BY <1>1, LimitsArePositive DEF Tick, TypeOK, Start, registry
  <1>2. CASE Restart
    <2>1. /\ records' \in [Sandboxes -> Record(States)] /\ nextLease' \in Nat /\ restarts' \in Nat
          /\ create' \in [Creates -> CreateCall] /\ rpc' \in [Rpcs -> RpcCallState]
          /\ poll' \in PollState
      BY <1>2, IdleTypes DEF Restart, TypeOK
    <2>2. serving' \in BOOLEAN
      BY <1>2, Zenon DEF Restart
    <2>3. /\ published' \in [Sandboxes -> {"none", "sandbox", "deleted"}]
          /\ absentRun' \in [Sandboxes -> 0 .. missingPollThreshold]
      BY <1>2 DEF Restart, missingPollThreshold
    <2> QED
      BY <1>2, <2>1, <2>2, <2>3 DEF Restart, TypeOK
  <1>3. ASSUME NEW v \in Instances, InstanceChanges(v) \/ Settles(v) \/ Appears(v) PROVE TypeOK'
    <2>1. instances' \in [Instances -> Instance]
      <3>1. CASE Appears(v)
        BY <1>0, <3>1 DEF Appears, Instance
      <3>2. CASE InstanceChanges(v) \/ Settles(v)
        <4>1. PICK st \in InstanceStates : instances' = [instances EXCEPT ![v].state = st]
          BY <3>2, EnvironmentIsKnown DEF InstanceChanges, Settles, InstanceStates, ListedStates
        <4> QED
          BY <1>0, <4>1 DEF Instance
      <3> QED
        BY <1>3, <3>1, <3>2
    <2> QED
      BY <1>3, <2>1 DEF InstanceChanges, Settles, Appears, TypeOK, registry
  <1> QED
    BY <1>1, <1>2, <1>3 DEF Environment

-----------------------------------------------------------------------------
(* Who may change what.                                                     *)

LEMMA CreateFrame ==
    ASSUME NEW c \in Creates, CreateStep(c)
    PROVE  UNCHANGED <<rpc, poll, serving, absentRun>>
  BY DEF CreateStep, CreateReserve, CreateLaunchRefused, CreateLaunch, CreateLaunchFails,
         CreateCommit, CreateCompensate, CreateRollback, CreateBroadcast

LEMMA RpcFrame ==
    ASSUME NEW p \in Rpcs, RpcStep(p)
    PROVE  UNCHANGED <<create, poll, serving, absentRun>>
  BY DEF RpcStep, RpcStart, ResolveRegistry, ResolveList, ResolveAdd, RpcCall, RpcCallFails,
         RpcUpdate, RpcBroadcast

LEMMA PollFrame ==
    ASSUME PollStep
    PROVE  /\ UNCHANGED <<create, rpc>>
           /\ PollDone \/ UNCHANGED serving
           /\ PollAll \/ UNCHANGED absentRun
  BY DEF PollStep, PollList, PollTerminateDuplicates, PollDrop, PollGet, PollAdd, PollUpdate,
         PollBroadcast, PollAll, PollForget, PollBroadcastDeleted, PollExpired, PollExpireUpdate,
         PollDone, PollPick, PollMissing, PollExpire

LEMMA EnvironmentFrame ==
    ASSUME Environment
    PROVE  Restart \/ UNCHANGED <<records, nextLease, create, rpc, poll, serving, absentRun>>
  BY DEF Environment, Tick, InstanceChanges, Settles, Appears, registry

-----------------------------------------------------------------------------
(* The reconciler stays on track.                                           *)

\* What it knows of a sandbox depends on the list of the poll only.
LEMMA MatchesFrame ==
    ASSUME poll'.listed = poll.listed
    PROVE  \A s : Matches(s)' = Matches(s)
  BY DEF Matches

LEMMA PollOnTrackStep ==
    ASSUME TypeOK, PollOnTrack, Next
    PROVE  PollOnTrack'
  <1>0. poll \in PollState /\ poll.cur \in Sandboxes /\ instances \in [Instances -> Instance]
    BY DEF TypeOK, PollState
  <1>1. ASSUME poll' = poll PROVE PollOnTrack'
    BY <1>1, MatchesFrame DEF PollOnTrack
  <1>2. ASSUME poll' = IdlePoll PROVE PollOnTrack'
    BY <1>2, IdleTypes DEF PollOnTrack, Reconciling, OneAtATime
  <1>3. ASSUME NEW c \in Creates, CreateStep(c) PROVE PollOnTrack'
    BY <1>1, <1>3, CreateFrame
  <1>4. ASSUME NEW p \in Rpcs, RpcStep(p) PROVE PollOnTrack'
    BY <1>1, <1>4, RpcFrame
  <1>5. CASE Environment
    BY <1>1, <1>2, <1>5, EnvironmentFrame DEF Restart
  <1>6. CASE PollStep
    \* The list is kept, fewer sandboxes are to do, and the current one stays
    \* current or comes from those to do.
    <2> DEFINE Goes == /\ poll'.listed = poll.listed
                       /\ poll'.pc \in Reconciling => poll.pc \in Reconciling /\ poll'.todo \subseteq poll.todo
                       /\ poll'.pc \in OneAtATime =>
                             \/ poll'.cur \in poll.todo /\ poll.pc \in Reconciling
                             \/ poll'.cur = poll.cur /\ poll.pc \in OneAtATime
    <2>0. ASSUME Goes PROVE PollOnTrack'
      <3>1. \A s : Matches(s)' = Matches(s)
        BY <2>0, MatchesFrame
      <3> QED
        BY <2>0, <3>1 DEF PollOnTrack
    <2>1. CASE PollList
      <3>1. /\ poll'.pc = "reconcile" /\ poll'.listed = Listed
            /\ poll'.todo = {s \in Sandboxes : Mentions(Listed, s)}
        BY <1>0, <2>1 DEF PollList, PollState
      <3>2. \A v \in Instances : poll'.listed[v].state \in ListedStates \cup {"unborn"}
        BY <1>0, <3>1, AccountOperators
      <3>3. \A s \in poll'.todo : Matches(s)' # {}
        BY <3>1 DEF Matches, Mentions
      <3> QED
        BY <3>1, <3>2, <3>3 DEF PollOnTrack, OneAtATime
    <2>2. CASE PollTerminateDuplicates
      <3>1. CASE poll' = [poll EXCEPT !.pc = "observe", !.dups = {}]
        BY <1>0, <2>0, <2>2, <3>1 DEF PollTerminateDuplicates, PollState, Reconciling, OneAtATime
      <3> QED
        BY <1>2, <2>2, <3>1 DEF PollTerminateDuplicates, PollReturnsError
    <2>3. CASE PollAdd
      <3>1. CASE poll' = [poll EXCEPT !.pc = "broadcast"]
        BY <1>0, <2>0, <2>3, <3>1 DEF PollAdd, PollState, Reconciling, OneAtATime
      <3> QED
        BY <1>2, <2>3, <3>1 DEF PollAdd, PollReturnsError
    <2>4. CASE PollAll
      <3>1. poll'.pc = "missing" /\ poll'.listed = IdlePoll.listed
        BY <2>4 DEF PollAll, IdlePoll
      <3> QED
        BY <3>1, IdleTypes DEF PollOnTrack, Reconciling, OneAtATime
    <2>5. CASE PollExpired
      <3>1. poll'.pc = "expire" /\ poll'.listed = IdlePoll.listed
        BY <2>5 DEF PollExpired, IdlePoll
      <3> QED
        BY <3>1, IdleTypes DEF PollOnTrack, Reconciling, OneAtATime
    <2>6. CASE PollDone
      BY <1>2, <2>6 DEF PollDone
    <2>7. ASSUME NEW s \in Sandboxes, PollPick(s) PROVE PollOnTrack'
      <3>1. /\ poll'.listed = poll.listed /\ poll'.todo \subseteq poll.todo /\ poll'.cur = s
            /\ poll.pc \in Reconciling /\ s \in poll.todo
        BY <1>0, <2>7 DEF PollPick, PollState, Reconciling
      <3> QED
        BY <2>0, <3>1
    <2>8. CASE PollDrop
      BY <1>0, <2>0, <2>8 DEF PollDrop, PollState, Reconciling, OneAtATime
    <2>9. CASE PollGet
      <3>1. \/ poll' = [poll EXCEPT !.pc = "add"] \/ poll' = [poll EXCEPT !.pc = "reconcile"]
            \/ poll' = [poll EXCEPT !.pc = "update", !.snap[poll.cur] = records[poll.cur]]
        BY <2>9 DEF PollGet
      <3>2. /\ poll'.listed = poll.listed /\ poll'.todo = poll.todo /\ poll'.cur = poll.cur
        BY <1>0, <3>1 DEF PollState
      <3> QED
        BY <2>0, <2>9, <3>2 DEF PollGet, Reconciling, OneAtATime
    <2>10. CASE PollUpdate
      BY <1>0, <2>0, <2>10 DEF PollUpdate, PollState, Reconciling, OneAtATime
    <2>11. CASE PollBroadcast \/ PollBroadcastDeleted
      BY <1>0, <2>0, <2>11 DEF PollBroadcast, PollBroadcastDeleted, PollState, Reconciling, OneAtATime
    <2>12. CASE PollForget \/ PollExpireUpdate
      <3>1. /\ poll'.listed = poll.listed
            /\ poll'.pc \in {"deleted", "expireBroadcast", "expireBlank"}
        BY <1>0, <2>12 DEF PollForget, PollExpireUpdate, PollState
      <3> QED
        BY <2>0, <3>1 DEF Reconciling, OneAtATime
    <2>13. ASSUME NEW s \in Sandboxes, PollMissing(s) \/ PollExpire(s) PROVE PollOnTrack'
      <3>1. CASE PollMissing(s)
        BY <1>0, <2>0, <3>1 DEF PollMissing, PollState, Reconciling, OneAtATime
      <3>2. CASE PollExpire(s)
        <4>1. \/ poll' = [poll EXCEPT !.todo = @ \ {s}, !.cur = s, !.pc = "expireUpdate", !.snap[s] = NoRecord]
              \/ poll' = [poll EXCEPT !.todo = @ \ {s}, !.snap[s] = NoRecord]
          BY <3>2 DEF PollExpire
        <4>2. poll'.listed = poll.listed /\ poll'.pc \in {"expire", "expireUpdate"}
          BY <1>0, <3>2, <4>1 DEF PollExpire, PollState
        <4> QED
          BY <2>0, <4>2 DEF Reconciling, OneAtATime
      <3> QED
        BY <2>13, <3>1, <3>2
    <2> QED
      BY <1>6, <2>1, <2>2, <2>3, <2>4, <2>5, <2>6, <2>7, <2>8, <2>9, <2>10, <2>11, <2>12, <2>13
         DEF PollStep
  <1> QED
    BY <1>3, <1>4, <1>5, <1>6 DEF Next

-----------------------------------------------------------------------------
(* The threads hold what they need.                                         *)

LEMMA NobodyCallsEarlyStep ==
    ASSUME TypeOK, NobodyCallsEarly, Next
    PROVE  NobodyCallsEarly'
  <1>1. ASSUME NEW c \in Creates, CreateStep(c) PROVE serving
    <2>1. ~serving => create[c].pc = "idle"
      BY IdleTypes, Zenon DEF NobodyCallsEarly
    <2> QED
      BY <1>1, <2>1 DEF CreateStep, CreateReserve, CreateLaunchRefused, CreateLaunch,
                        CreateLaunchFails, CreateCommit, CreateCompensate, CreateRollback,
                        CreateBroadcast
  <1>2. ASSUME NEW c \in Creates, CreateStep(c) PROVE NobodyCallsEarly'
    BY <1>1, <1>2, CreateFrame DEF NobodyCallsEarly
  <1>3. ASSUME NEW p \in Rpcs, RpcStep(p) PROVE NobodyCallsEarly'
    BY <1>3, RpcFrame DEF NobodyCallsEarly
  <1>4. CASE PollStep
    BY <1>4, PollFrame DEF NobodyCallsEarly, PollDone
  <1>5. CASE Environment
    BY <1>5, EnvironmentFrame DEF NobodyCallsEarly, Restart
  <1> QED
    BY <1>2, <1>3, <1>4, <1>5 DEF Next

LEMMA CallsHoldInstancesStep ==
    ASSUME TypeOK, CallsHoldInstances, Next
    PROVE  CallsHoldInstances'
  <1>0. /\ create \in [Creates -> CreateCall] /\ rpc \in [Rpcs -> RpcCallState]
        /\ instances \in [Instances -> Instance]
    BY DEF TypeOK
  <1> DEFINE FineCreate(k) == k.pc \in {"launched", "compensate"} => Belongs(k.instance, k.sandbox)
             FineRpc(r) == r.pc = "add" => Belongs(r.instance, r.sandbox) /\ r.found.state \in ListedStates
  <1>1. ASSUME NEW c \in Creates, CreateStep(c) PROVE CallsHoldInstances'
    <2>0. create[c] \in CreateCall
      BY <1>0
    <2>1. \A d \in Creates \ {c} : create'[d] = create[d]
      BY <1>0, <1>1 DEF CreateStep, CreateReserve, CreateLaunchRefused, CreateLaunch, CreateLaunchFails,
           CreateCommit, CreateCompensate, CreateRollback, CreateBroadcast
    <2>2. FineCreate(create[c])
      BY DEF CallsHoldInstances
    <2>3. CASE CreateLaunch(c)
      <3>1. PICK r \in LaunchResults(c) :
               create' = [create EXCEPT ![c] = [@ EXCEPT !.pc = "launched", !.instance = r[1],
                          !.state = r[2].state,
                          !.createdAt = IF r[2].createdAt = ZeroTime THEN create[c].createdAt
                                        ELSE r[2].createdAt]]
        BY <2>3, Zenon DEF CreateLaunch
      <3>2. Belongs(r[1], create[c].sandbox)
        BY LaunchResultType
      <3>3. create'[c].instance = r[1] /\ create'[c].sandbox = create[c].sandbox
        BY <1>0, <2>0, <3>1 DEF CreateCall
      <3> QED
        BY <1>1, <2>1, <3>2, <3>3, CreateFrame DEF CallsHoldInstances
    <2>4. CASE CreateCommit(c)
      <3>1. create[c].pc = "launched" /\ create'[c].instance = create[c].instance
            /\ create'[c].sandbox = create[c].sandbox
        BY <1>0, <2>0, <2>4 DEF CreateCommit, CreateCall
      <3> QED
        BY <1>1, <2>1, <2>2, <3>1, CreateFrame DEF CallsHoldInstances
    <2>5. CASE ~CreateLaunch(c) /\ ~CreateCommit(c)
      <3>1. create'[c].pc \notin {"launched", "compensate"}
        <4>1. CASE \E s \in Sandboxes, t \in Tokens : CreateReserve(c, s, t)
          BY <1>0, <2>0, <4>1 DEF CreateReserve, CreateCall
        <4>2. CASE CreateLaunchRefused(c) \/ CreateLaunchFails(c) \/ CreateCompensate(c)
          BY <1>0, <2>0, <4>2 DEF CreateLaunchRefused, CreateLaunchFails, CreateCompensate, CreateCall
        <4>3. CASE CreateRollback(c) \/ CreateBroadcast(c)
          BY <1>0, <4>3, IdleTypes DEF CreateRollback, CreateBroadcast
        <4> QED
          BY <1>1, <2>5, <4>1, <4>2, <4>3 DEF CreateStep
      <3> QED
        BY <1>1, <2>1, <3>1, CreateFrame DEF CallsHoldInstances
    <2> QED
      BY <2>3, <2>4, <2>5
  <1>2. ASSUME NEW p \in Rpcs, RpcStep(p) PROVE CallsHoldInstances'
    <2>0. rpc[p] \in RpcCallState
      BY <1>0
    <2>1. \A q \in Rpcs \ {p} : rpc'[q] = rpc[q]
      BY <1>0, <1>2 DEF RpcStep, RpcStart, ResolveRegistry, ResolveList, ResolveAdd, RpcCall,
           RpcCallFails, RpcUpdate, RpcBroadcast, Return, Resolved
    <2>2. ASSUME FineRpc(rpc'[p]) PROVE CallsHoldInstances'
      BY <1>2, <2>1, <2>2, RpcFrame DEF CallsHoldInstances
    <2>3. ASSUME NEW s, NEW v, Resolved(p, s, v) PROVE rpc'[p].pc # "add"
      BY <1>0, <2>0, <2>3, IdleTypes DEF Resolved, RpcCallState
    <2>4. ASSUME Return(p) PROVE rpc'[p].pc # "add"
      BY <1>0, <2>4, IdleTypes DEF Return
    <2>5. ASSUME ResolveList(p), ~Return(p) PROVE FineRpc(rpc'[p])
      <3>1. PICK v \in Instances :
               /\ Listed[v].state \notin {"unborn", "terminated"}
               /\ rpc' = [rpc EXCEPT ![p] = [@ EXCEPT !.pc = "add", !.instance = v,
                                             !.sandbox = SandboxOf[v], !.target = {}, !.found = Listed[v]]]
        BY <2>5 DEF ResolveList
      <3>2. Listed[v].state \in ListedStates
        BY <1>0, <3>1, AccountOperators
      <3>3. rpc'[p].instance = v /\ rpc'[p].sandbox = SandboxOf[v] /\ rpc'[p].found = Listed[v]
        BY <1>0, <2>0, <3>1 DEF RpcCallState
      <3> QED
        BY <3>2, <3>3 DEF Belongs
    <2>6. CASE ResolveRegistry(p)
      <3>1. CASE rpc' = [rpc EXCEPT ![p].pc = "list"]
        BY <1>0, <2>0, <2>2, <3>1 DEF RpcCallState
      <3> QED
        BY <2>2, <2>3, <2>4, <2>6, <3>1 DEF ResolveRegistry
    <2>7. CASE ResolveList(p) \/ ResolveAdd(p)
      BY <2>2, <2>3, <2>4, <2>5, <2>7 DEF ResolveAdd
    <2>8. CASE RpcCall(p) \/ RpcCallFails(p) \/ RpcUpdate(p) \/ RpcBroadcast(p)
      <3>1. rpc'[p].pc # "add"
        BY <1>0, <2>0, <2>4, <2>8 DEF RpcCall, RpcCallFails, RpcUpdate, RpcBroadcast, RpcCallState
      <3> QED
        BY <2>2, <3>1
    <2>9. ASSUME NEW T \in Targets, NEW op \in Ops, RpcStart(p, op, T) PROVE CallsHoldInstances'
      <3>1. rpc'[p].pc # "add"
        BY <1>0, <2>0, <2>9 DEF RpcStart, RpcCallState
      <3> QED
        BY <2>2, <3>1
    <2> QED
      BY <1>2, <2>6, <2>7, <2>8, <2>9 DEF RpcStep
  <1>3. CASE PollStep
    BY <1>3, PollFrame DEF CallsHoldInstances
  <1>4. CASE Environment
    BY <1>4, EnvironmentFrame, IdleTypes DEF CallsHoldInstances, Restart
  <1> QED
    BY <1>1, <1>2, <1>3, <1>4 DEF Next

-----------------------------------------------------------------------------
(* What a step does to the registry, whoever takes it.                      *)

Replaced(s, r) == records' = [records EXCEPT ![s] = r]

\* A new record under a new lease.
Fresh(s, r) == /\ records[s].lease = 0
               /\ nextLease' = nextLease + 1
               /\ r.lease = nextLease'
               /\ r.missingPolls = 0
               /\ Replaced(s, r)
Reserved(s, r) == CanReserve(records, s) /\ Fresh(s, r) /\ r.instance = NoInstance
Found(s, r) == Fresh(s, r) /\ Belongs(r.instance, s)

\* A record changes under its lease and never loses its instance.
Edited(s, r) == /\ records[s].lease # 0
                /\ UNCHANGED nextLease
                /\ r.lease = records[s].lease
                /\ r.instance = records[s].instance \/ Belongs(r.instance, s)
                /\ Replaced(s, r)
KeepsCount(s, r) == r.missingPolls = records[s].missingPolls

Dropped(s) == UNCHANGED nextLease /\ Replaced(s, NoRecord)

Emptied == records' = NewRegistry /\ nextLease' = 0 /\ ~serving'

LEMMA StoreReplaces ==
    ASSUME NEW s \in Sandboxes, NEW rec \in Record(States), NEW n \in Nat,
           records \in [Sandboxes -> Record(States)], records' = Store(records, s, rec, n)
    PROVE  \E r \in Record(States) : /\ Replaced(s, r)
                                     /\ r.lease = n
                                     /\ r.instance = rec.instance
                                     /\ r.missingPolls = rec.missingPolls
  <1> DEFINE r == [rec EXCEPT !.lease = n]
  <1>1. r \in Record(States) /\ r.lease = n /\ r.instance = rec.instance
        /\ r.missingPolls = rec.missingPolls
    BY DEF Record
  <1>2. Replaced(s, r)
    BY DEF Store, Replaced
  <1> QED
    BY <1>1, <1>2

\* A write of a state, by whatever call.
LEMMA StateEdit ==
    ASSUME records \in [Sandboxes -> Record(States)], NEW s \in Sandboxes, NEW st \in States,
           records[s].lease # 0, records' = [records EXCEPT ![s].state = st], UNCHANGED nextLease
    PROVE  \E r \in Record(States) : Edited(s, r) /\ KeepsCount(s, r)
  <1> DEFINE r == [records[s] EXCEPT !.state = st]
  <1>1. /\ r \in Record(States) /\ r.lease = records[s].lease /\ r.instance = records[s].instance
        /\ r.missingPolls = records[s].missingPolls
    BY DEF Record
  <1>2. Replaced(s, r)
    BY DEF Replaced
  <1> HIDE DEF r
  <1> QED
    BY <1>1, <1>2 DEF Edited, KeepsCount

LEMMA CreateEffect ==
    ASSUME TypeOK, CallsHoldInstances, NEW c \in Creates, CreateStep(c)
    PROVE  \/ UNCHANGED registry
           \/ \E s \in Sandboxes, r \in Record(States) :
                 Reserved(s, r) \/ (Edited(s, r) /\ KeepsCount(s, r))
           \/ \E s \in Sandboxes : Dropped(s) /\ records[s].instance = NoInstance
  <1>0. /\ create[c] \in CreateCall /\ create[c].sandbox \in Sandboxes
        /\ records \in [Sandboxes -> Record(States)] /\ nextLease \in Nat /\ now \in Nat
    BY DEF TypeOK, CreateCall
  <1>1. ASSUME NEW s \in Sandboxes, NEW t \in Tokens, CreateReserve(c, s, t)
        PROVE  \E r \in Record(States) : Reserved(s, r)
    <2> DEFINE rec == [NoRecord EXCEPT !.state = "launching", !.createdAt = now]
    <2>1. rec \in Record(States) /\ rec.instance = NoInstance /\ rec.missingPolls = 0
      BY <1>0, IdleTypes DEF Record, States
    <2>2. /\ nextLease' = nextLease + 1 /\ records' = Store(records, s, rec, nextLease')
          /\ CanReserve(records, s)
      BY <1>1 DEF CreateReserve, NextLease
    <2>3. nextLease' \in Nat
      BY <1>0, <2>2
    <2> HIDE DEF rec
    <2>4. PICK r \in Record(States) : /\ Replaced(s, r) /\ r.lease = nextLease'
                                      /\ r.instance = NoInstance /\ r.missingPolls = 0
      BY <1>0, <2>1, <2>2, <2>3, StoreReplaces
    <2> QED
      BY <2>2, <2>4 DEF Reserved, Fresh, CanReserve, Tracked
  <1>2. CASE CreateCommit(c)
    <2> DEFINE s == create[c].sandbox
               r == [records[s] EXCEPT !.instance = create[c].instance, !.state = create[c].state,
                                       !.createdAt = create[c].createdAt]
    <2>1. CASE ~CommitAllowed(records[s])
      BY <1>2, <2>1 DEF CreateCommit, registry
    <2>2. CASE CommitAllowed(records[s])
      <3>1. records[s].lease # 0 /\ records[s] \in Record(States)
        BY <1>0, <2>2 DEF CommitAllowed
      <3>2. Belongs(create[c].instance, s)
        BY <1>2 DEF CreateCommit, CallsHoldInstances
      <3>3. /\ r \in Record(States) /\ r.lease = records[s].lease /\ r.instance = create[c].instance
            /\ r.missingPolls = records[s].missingPolls
        BY <1>0, <3>1 DEF Record, States, CreateCall
      <3>4. Replaced(s, r) /\ UNCHANGED nextLease
        BY <1>2, <2>2 DEF CreateCommit, Replaced
      <3> HIDE DEF r
      <3> QED
        BY <1>0, <3>1, <3>2, <3>3, <3>4 DEF Edited, KeepsCount
    <2> QED
      BY <2>1, <2>2
  <1>3. CASE CreateRollback(c)
    BY <1>0, <1>3 DEF CreateRollback, Rollback, Dropped, Replaced, registry
  <1>4. CASE CreateLaunchRefused(c) \/ CreateLaunch(c) \/ CreateLaunchFails(c)
             \/ CreateCompensate(c) \/ CreateBroadcast(c)
    BY <1>4 DEF CreateLaunchRefused, CreateLaunch, CreateLaunchFails, CreateCompensate,
                CreateBroadcast
  <1> QED
    BY <1>1, <1>2, <1>3, <1>4 DEF CreateStep

LEMMA RpcEffect ==
    ASSUME TypeOK, CallsHoldInstances, NEW p \in Rpcs, RpcStep(p)
    PROVE  \/ UNCHANGED registry
           \/ \E s \in Sandboxes, r \in Record(States) :
                 Found(s, r) \/ (Edited(s, r) /\ KeepsCount(s, r))
  <1>0. /\ records \in [Sandboxes -> Record(States)] /\ nextLease \in Nat
        /\ rpc[p] \in RpcCallState /\ rpc[p].sandbox \in Sandboxes /\ rpc[p].found \in Instance
    BY DEF TypeOK, RpcCallState
  <1>1. CASE ResolveAdd(p)
    <2> DEFINE s == rpc[p].sandbox
               rec == recordFromInstance(rpc[p].instance, rpc[p].found)
    <2>1. CASE ~CanAdd(records, s)
      BY <1>1, <2>1 DEF ResolveAdd
    <2>2. CASE CanAdd(records, s)
      <3>1. Belongs(rpc[p].instance, s) /\ rpc[p].found.state \in ListedStates
        BY <1>1 DEF CallsHoldInstances, ResolveAdd
      <3>2. rec \in Record(States) /\ rec.instance = rpc[p].instance /\ rec.missingPolls = 0
        BY <1>0, <3>1, RecordType DEF Belongs
      <3>3. nextLease' = nextLease + 1 /\ records' = Store(records, s, rec, nextLease')
        BY <1>1, <2>2 DEF ResolveAdd, NextLease
      <3> HIDE DEF rec
      <3>4. nextLease' \in Nat
        BY <1>0, <3>3
      <3>5. PICK r \in Record(States) : /\ Replaced(s, r) /\ r.lease = nextLease'
                                        /\ r.instance = rec.instance /\ r.missingPolls = 0
        BY <1>0, <3>2, <3>3, <3>4, StoreReplaces
      <3>6. Found(s, r)
        BY <1>0, <2>2, <3>1, <3>2, <3>3, <3>5 DEF Found, Fresh, CanAdd, Tracked
      <3> QED
        BY <1>0, <3>6
    <2> QED
      BY <2>1, <2>2
  <1>2. CASE RpcUpdate(p)
    <2> DEFINE s == rpc[p].sandbox
    <2>1. CASE s \notin Tracked(records)
      BY <1>2, <2>1 DEF RpcUpdate, registry
    <2>2. CASE s \in Tracked(records)
      <3>1. RequestedState(rpc[p].op) \in States
        BY DEF RequestedState, States, ListedStates
      <3>2. /\ records' = [records EXCEPT ![s].state = RequestedState(rpc[p].op)]
            /\ UNCHANGED nextLease /\ records[s].lease # 0
        BY <1>2, <2>2 DEF RpcUpdate, Tracked
      <3> QED
        BY <1>0, <3>1, <3>2, StateEdit
    <2> QED
      BY <2>1, <2>2
  <1>3. CASE ResolveRegistry(p) \/ ResolveList(p) \/ RpcCall(p) \/ RpcCallFails(p) \/ RpcBroadcast(p)
    BY <1>3 DEF ResolveRegistry, ResolveList, RpcCall, RpcCallFails, RpcBroadcast
  <1>4. CASE \E T \in Targets, op \in Ops : RpcStart(p, op, T)
    BY <1>4 DEF RpcStart
  <1> QED
    BY <1>1, <1>2, <1>3, <1>4 DEF RpcStep

\* The reconciler releases a sandbox when its list shows it terminated, or
\* when it has been missing for too long.
SawItTerminated(s) == /\ PollDrop
                      /\ Belongs(Keeper(s), s)
                      /\ poll.listed[Keeper(s)].state = "terminated"

LEMMA PollEffect ==
    ASSUME TypeOK, PollOnTrack, PollStep
    PROVE  \/ UNCHANGED registry
           \/ \E s \in Sandboxes, r \in Record(States) : Found(s, r) \/ Edited(s, r)
           \/ \E s \in Sandboxes : /\ Dropped(s) /\ s = poll.cur
                                   /\ PollForget \/ SawItTerminated(s)
           \/ Emptied /\ ~serving
  <1>0. /\ records \in [Sandboxes -> Record(States)] /\ nextLease \in Nat
        /\ poll.cur \in Sandboxes
    BY DEF TypeOK, PollState
  <1>1. ASSUME PollReturnsError, UNCHANGED serving
        PROVE  UNCHANGED registry \/ (Emptied /\ ~serving)
    BY <1>1 DEF PollReturnsError, registry, Emptied
  <1>2. CASE PollAdd
    <2> DEFINE s == poll.cur
               rec == Recovered(Keeper(s))
    <2>1. CASE ~CanAdd(records, s)
      BY <1>1, <1>2, <2>1 DEF PollAdd
    <2>2. CASE CanAdd(records, s)
      <3>1. Belongs(Keeper(s), s) /\ rec \in Record(States) /\ rec.instance = Keeper(s)
            /\ rec.missingPolls = 0
        BY <1>2, KeeperType DEF PollAdd, OneAtATime
      <3>2. nextLease' = nextLease + 1 /\ records' = Store(records, s, rec, nextLease')
        BY <1>2, <2>2 DEF PollAdd, NextLease
      <3> HIDE DEF rec
      <3>3. nextLease' \in Nat
        BY <1>0, <3>2
      <3>4. PICK r \in Record(States) : /\ Replaced(s, r) /\ r.lease = nextLease'
                                        /\ r.instance = rec.instance /\ r.missingPolls = 0
        BY <1>0, <3>1, <3>2, <3>3, StoreReplaces
      <3>5. Found(s, r)
        BY <1>0, <2>2, <3>1, <3>2, <3>4 DEF Found, Fresh, CanAdd, Tracked
      <3> QED
        BY <1>0, <3>5
    <2> QED
      BY <2>1, <2>2
  <1>3. CASE PollUpdate
    <2> DEFINE s == poll.cur
               v == Keeper(s)
               r == Reconciled(records[s], v, poll.listed[v])
    <2>1. CASE s \notin Tracked(records)
      BY <1>3, <2>1 DEF PollUpdate, registry
    <2>2. CASE s \in Tracked(records)
      <3>1. records[s].lease # 0 /\ records[s] \in Record(States)
        BY <1>0, <2>2 DEF Tracked
      <3>2. Belongs(v, s) /\ poll.listed[v] \in Instance /\ poll.listed[v].state \in ListedStates
        BY <1>3, KeeperType DEF PollUpdate, OneAtATime
      <3> HIDE DEF v
      <3>3. r \in Record(States) /\ r.lease = records[s].lease /\ r.instance = v
        BY <3>1, <3>2 DEF Reconciled, Record, States, Instance, Belongs
      <3>4. Replaced(s, r) /\ UNCHANGED nextLease
        BY <1>3, <2>2 DEF PollUpdate, Replaced, v
      <3> HIDE DEF r
      <3> QED
        BY <1>0, <3>1, <3>2, <3>3, <3>4 DEF Edited
    <2> QED
      BY <2>1, <2>2
  <1>4. ASSUME NEW s \in Sandboxes, PollMissing(s)
        PROVE  UNCHANGED registry \/ \E r \in Record(States) : Edited(s, r)
    <2> DEFINE r == [records[s] EXCEPT !.missingPolls = Missed(records[s].missingPolls)]
    <2>1. CASE s \notin Tracked(records)
      BY <1>4, <2>1 DEF PollMissing, registry
    <2>2. CASE s \in Tracked(records)
      <3>1. records[s].lease # 0
        BY <2>2 DEF Tracked
      <3>2. records[s] \in Record(States) /\ records[s].missingPolls \in Nat
        BY <1>0 DEF Record
      <3>3. Missed(records[s].missingPolls) \in Nat
        BY <3>2 DEF Missed, Saturate, missingPollThreshold
      <3>4. r \in Record(States) /\ r.lease = records[s].lease /\ r.instance = records[s].instance
        BY <3>2, <3>3 DEF Record
      <3>5. Replaced(s, r) /\ UNCHANGED nextLease
        BY <1>4, <2>2 DEF PollMissing, Replaced
      <3> HIDE DEF r
      <3> QED
        BY <3>1, <3>4, <3>5 DEF Edited
    <2> QED
      BY <2>1, <2>2
  <1>5. CASE PollForget
    BY <1>0, <1>5 DEF PollForget, Delete, Dropped, Replaced
  <1>6. CASE PollDrop
    <2>1. Belongs(Keeper(poll.cur), poll.cur)
      BY <1>6, KeeperType DEF PollDrop, OneAtATime
    <2> QED
      BY <1>0, <1>6, <2>1 DEF PollDrop, Delete, Dropped, Replaced, SawItTerminated
  <1>7. CASE PollExpireUpdate
    <2> DEFINE s == poll.cur
    <2>1. CASE s \notin Tracked(records)
      BY <1>7, <2>1 DEF PollExpireUpdate, registry
    <2>2. CASE s \in Tracked(records)
      <3>1. /\ records' = [records EXCEPT ![s].state = "shutting-down"]
            /\ UNCHANGED nextLease /\ records[s].lease # 0
            /\ "shutting-down" \in States
        BY <1>7, <2>2 DEF PollExpireUpdate, Tracked, States, ListedStates
      <3> QED
        BY <1>0, <3>1, StateEdit
    <2> QED
      BY <2>1, <2>2
  <1>8. CASE PollTerminateDuplicates
    BY <1>1, <1>8 DEF PollTerminateDuplicates, registry
  <1>9. CASE PollList \/ PollGet \/ PollBroadcast \/ PollAll \/ PollBroadcastDeleted
             \/ PollExpired \/ PollDone \/ \E s \in Sandboxes : PollPick(s) \/ PollExpire(s)
    BY <1>9 DEF PollList, PollGet, PollBroadcast, PollAll, PollBroadcastDeleted, PollExpired,
                PollDone, PollPick, PollExpire
  <1> QED
    BY <1>2, <1>3, <1>4, <1>5, <1>6, <1>7, <1>8, <1>9 DEF PollStep

\* Every step is one of five registry steps.
LEMMA RegistryEffect ==
    ASSUME TypeOK, PollOnTrack, CallsHoldInstances, Next
    PROVE  \/ UNCHANGED registry
           \/ \E s \in Sandboxes, r \in Record(States) : Reserved(s, r) \/ Found(s, r) \/ Edited(s, r)
           \/ \E s \in Sandboxes : Dropped(s)
           \/ Emptied
  <1>1. ASSUME NEW c \in Creates, CreateStep(c)
        PROVE  \/ UNCHANGED registry
               \/ \E s \in Sandboxes, r \in Record(States) : Reserved(s, r) \/ Edited(s, r)
               \/ \E s \in Sandboxes : Dropped(s)
    BY <1>1, CreateEffect, Zenon
  <1>2. ASSUME NEW p \in Rpcs, RpcStep(p)
        PROVE  \/ UNCHANGED registry
               \/ \E s \in Sandboxes, r \in Record(States) : Found(s, r) \/ Edited(s, r)
    BY <1>2, RpcEffect, Zenon
  <1>3. CASE PollStep
    BY <1>3, PollEffect, Zenon
  <1>4. CASE Environment
    BY <1>4, EnvironmentFrame DEF Restart, Emptied, registry
  <1> QED
    BY <1>1, <1>2, <1>3, <1>4 DEF Next

LEMMA AbsentIsZeroStep ==
    ASSUME TypeOK, PollOnTrack, CallsHoldInstances, AbsentIsZero, Next
    PROVE  AbsentIsZero'
  <1>0. records \in [Sandboxes -> Record(States)] /\ nextLease \in Nat
    BY DEF TypeOK
  <1>1. CASE UNCHANGED registry
    BY <1>1 DEF AbsentIsZero, registry
  <1>2. ASSUME NEW s \in Sandboxes, NEW r \in Record(States),
               Reserved(s, r) \/ Found(s, r) \/ Edited(s, r)
        PROVE  AbsentIsZero'
    <2>1. r.lease # 0 /\ Replaced(s, r)
      BY <1>0, <1>2 DEF Reserved, Found, Fresh, Edited
    <2> QED
      BY <1>0, <2>1 DEF Replaced, AbsentIsZero
  <1>3. ASSUME NEW s \in Sandboxes, Dropped(s) PROVE AbsentIsZero'
    BY <1>0, <1>3 DEF Dropped, Replaced, AbsentIsZero
  <1>4. CASE Emptied
    BY <1>4 DEF Emptied, NewRegistry, AbsentIsZero
  <1> QED
    BY <1>1, <1>2, <1>3, <1>4, RegistryEffect

-----------------------------------------------------------------------------
(* The inductive invariant and what follows from it.                        *)

IInv == /\ TypeOK
        /\ PollOnTrack
        /\ NobodyCallsEarly
        /\ CallsHoldInstances
        /\ AbsentIsZero

LEMMA InitIInv == Init => IInv
  <1> SUFFICES ASSUME Init PROVE IInv
    OBVIOUS
  <1>1. TypeOK
    BY InitType
  <1>2. PollOnTrack
    BY IdleTypes DEF Init, PollOnTrack, Reconciling, OneAtATime
  <1>3. NobodyCallsEarly /\ CallsHoldInstances
    BY IdleTypes DEF Init, NobodyCallsEarly, CallsHoldInstances
  <1>4. AbsentIsZero
    BY IdleTypes DEF Init, NewRegistry, AbsentIsZero
  <1> QED
    BY <1>1, <1>2, <1>3, <1>4 DEF IInv

LEMMA StepIInv == IInv /\ [Next]_vars => IInv'
  <1> SUFFICES ASSUME IInv, [Next]_vars PROVE IInv'
    OBVIOUS
  <1>1. CASE Next
    <2>1. TypeOK'
      BY <1>1, CreateType, RpcType, PollType, EnvironmentType DEF IInv, Next
    <2>2. PollOnTrack'
      BY <1>1, PollOnTrackStep DEF IInv
    <2>3. NobodyCallsEarly' /\ CallsHoldInstances'
      BY <1>1, NobodyCallsEarlyStep, CallsHoldInstancesStep DEF IInv
    <2>4. AbsentIsZero'
      BY <1>1, AbsentIsZeroStep DEF IInv
    <2> QED
      BY <2>1, <2>2, <2>3, <2>4 DEF IInv
  <1>2. CASE UNCHANGED vars
    <2>1. TypeOK'
      BY <1>2 DEF IInv, vars, TypeOK, registry
    <2>2. PollOnTrack'
      BY <1>2, MatchesFrame DEF IInv, vars, PollOnTrack
    <2>3. NobodyCallsEarly' /\ CallsHoldInstances' /\ AbsentIsZero'
      BY <1>2 DEF IInv, vars, NobodyCallsEarly, CallsHoldInstances, AbsentIsZero
    <2> QED
      BY <2>1, <2>2, <2>3 DEF IInv
  <1> QED
    BY <1>1, <1>2

\* The inductive invariant holds in every reachable state: besides the types,
\* the reconciler works on instances its list mentions, nobody is served
\* before the first poll, a call that launched or listed holds an instance of
\* its sandbox, and an absent record is the zero record.
THEOREM EC2Invariance == Spec => []IInv
  BY InitIInv, StepIInv, PTL DEF Spec

\* Every variable of the driver keeps its type, whatever the number of
\* sandboxes, instances and concurrent calls.
THEOREM EC2TypeOK == Spec => []TypeOK
  <1>1. IInv => TypeOK
    BY DEF IInv
  <1> QED
    BY <1>1, EC2Invariance, PTL

-----------------------------------------------------------------------------
(* The driver implements the lease registry.                                *)

\* The instance counts as this module does.
LEMMA SameCardinality == \A S : Registry!Cardinality(S) = Cardinality(S)
  BY Zenon DEF Registry!Cardinality, Cardinality, Registry!IsFiniteSet, IsFiniteSet

LEMMA SlotsOfRegistry ==
    ASSUME TypeOK
    PROVE  Registry!Occupied = Tracked(records)
  BY DEF Registry!Occupied, Slot, Tracked

LEMMA RefinesInit == Init => Registry!Init
  <1> SUFFICES ASSUME Init PROVE Registry!Init
    OBVIOUS
  <1>1. \A s \in Sandboxes : Slot(records[s]) = Registry!Free
    BY IdleTypes DEF Init, NewRegistry, Slot, Registry!Free
  <1> QED
    BY <1>1 DEF Init, Registry!Init

LEMMA RefinesStep ==
    ASSUME IInv, Next
    PROVE  [Registry!Next]_<<[s \in Sandboxes |-> Slot(records[s])], nextLease>>
  <1> DEFINE slot == [s \in Sandboxes |-> Slot(records[s])]
  <1>0. records \in [Sandboxes -> Record(States)] /\ nextLease \in Nat
    BY DEF IInv, TypeOK
  <1>1. CASE UNCHANGED registry
    BY <1>1 DEF registry
  <1>2. ASSUME NEW s \in Sandboxes, NEW r \in Record(States), Replaced(s, r)
        PROVE  slot' = [slot EXCEPT ![s] = Slot(r)]
    BY <1>0, <1>2 DEF Replaced
  <1>3. ASSUME NEW s \in Sandboxes, NEW r \in Record(States), Fresh(s, r)
        PROVE  Registry!Occupy(s, IF r.instance = NoInstance THEN "reserved" ELSE "bound")
    <2>1. slot[s] = Registry!Free
      BY <1>3 DEF Fresh, Slot, Registry!Free
    <2>2. Slot(r) = [phase |-> IF r.instance = NoInstance THEN "reserved" ELSE "bound",
                     lease |-> nextLease + 1]
      BY <1>0, <1>3 DEF Fresh, Slot
    <2>3. slot' = [slot EXCEPT ![s] = Slot(r)] /\ nextLease' = nextLease + 1
      BY <1>2, <1>3 DEF Fresh
    <2> QED
      BY <2>1, <2>2, <2>3 DEF Registry!Occupy
  <1>4. ASSUME NEW s \in Sandboxes, NEW r \in Record(States), Reserved(s, r)
        PROVE  Registry!Reserve(s)
    <2>1. Registry!Occupy(s, "reserved")
      BY <1>3, <1>4 DEF Reserved
    <2>2. Cardinality(Registry!Occupied) < MaxInstances
      BY <1>4, SlotsOfRegistry DEF Reserved, CanReserve, IInv
    <2> QED
      BY <2>1, <2>2, SameCardinality DEF Registry!Reserve
  <1>5. ASSUME NEW s \in Sandboxes, NEW r \in Record(States), Found(s, r)
        PROVE  Registry!Recover(s)
    <2>1. r.instance # NoInstance
      BY <1>5, InstancesAreNames DEF Found, Belongs, NoInstance
    <2> QED
      BY <1>3, <1>5, <2>1 DEF Found, Registry!Recover
  <1>6. ASSUME NEW s \in Sandboxes, NEW r \in Record(States), Edited(s, r)
        PROVE  Registry!Bind(s) \/ UNCHANGED <<slot, nextLease>>
    <2>1. slot' = [slot EXCEPT ![s] = Slot(r)] /\ nextLease' = nextLease
      BY <1>2, <1>6 DEF Edited
    <2>2. CASE r.instance = records[s].instance
      <3>1. Slot(r) = slot[s]
        BY <1>6, <2>2 DEF Edited, Slot
      <3> QED
        BY <2>1, <3>1
    <2>3. CASE r.instance # records[s].instance
      <3>1. r.instance # NoInstance
        BY <1>6, <2>3, InstancesAreNames DEF Edited, Belongs, NoInstance
      <3>2. Slot(r) = [slot[s] EXCEPT !.phase = "bound"]
        BY <1>6, <3>1 DEF Edited, Slot
      <3>3. CASE records[s].instance = NoInstance
        <4>1. slot[s].phase = "reserved"
          BY <1>6, <3>3 DEF Edited, Slot
        <4> QED
          BY <2>1, <3>2, <4>1 DEF Registry!Bind
      <3>4. CASE records[s].instance # NoInstance
        <4>1. Slot(r) = slot[s]
          BY <1>6, <3>1, <3>4 DEF Edited, Slot
        <4> QED
          BY <2>1, <4>1
      <3> QED
        BY <3>3, <3>4
    <2> QED
      BY <2>2, <2>3
  <1>7. ASSUME NEW s \in Sandboxes, Dropped(s)
        PROVE  Registry!Release(s) \/ UNCHANGED <<slot, nextLease>>
    <2>1. slot' = [slot EXCEPT ![s] = Slot(NoRecord)] /\ nextLease' = nextLease
      BY <1>2, <1>7, IdleTypes DEF Dropped
    <2>2. Slot(NoRecord) = Registry!Free
      BY IdleTypes DEF Slot, Registry!Free
    <2>3. CASE records[s].lease = 0
      <3>1. slot[s] = Slot(NoRecord)
        BY <2>3 DEF IInv, AbsentIsZero
      <3> QED
        BY <2>1, <3>1
    <2>4. CASE records[s].lease # 0
      <3>1. slot[s].phase # "free"
        BY <2>4 DEF Slot
      <3> QED
        BY <2>1, <2>2, <3>1 DEF Registry!Release
    <2> QED
      BY <2>3, <2>4
  <1>8. CASE Emptied
    <2>1. \A s \in Sandboxes : Slot(NewRegistry[s]) = Registry!Free
      BY IdleTypes DEF NewRegistry, Slot, Registry!Free
    <2> QED
      BY <1>8, <2>1 DEF Emptied, Registry!Next, Registry!Crash
  <1> QED
    BY <1>1, <1>4, <1>5, <1>6, <1>7, <1>8, RegistryEffect DEF IInv, Registry!Next

\* The driver implements the lease registry although it writes by sandbox ID:
\* a create is admitted below the capacity limit only, a slot keeps its lease
\* from occupation to release, and a bound slot never falls back to reserved.
THEOREM EC2ImplementsRegistry == Spec => ImplementsLeaseRegistry
  <1>1. IInv /\ [Next]_vars => [Registry!Next]_<<[s \in Sandboxes |-> Slot(records[s])], nextLease>>
    BY RefinesStep DEF vars
  <1> QED
    BY <1>1, RefinesInit, EC2Invariance, PTL DEF Spec, ImplementsLeaseRegistry, Registry!Spec

-----------------------------------------------------------------------------
(* Missing polls are counted right.                                         *)

\* Where a counter of missing polls stands while a poll is under way: a
\* sandbox the list mentions has none once the reconciler is through with it,
\* and one it did not mention has room for one more.
CountsAreSound ==
    /\ MissingPollsAreConsecutive
    /\ poll.pc = "idle" => poll.seen = {}
    /\ poll.pc \in Reconciling =>
          \A s \in poll.seen : \/ records[s].missingPolls = 0
                               \/ s = poll.cur /\ poll.pc \in {"duplicates", "observe", "update"}
    /\ poll.pc \in {"missing", "forget", "deleted"} =>
          \A s \in poll.todo : Missed(records[s].missingPolls) <= absentRun[s]
    /\ poll.pc = "forget" => absentRun[poll.cur] = missingPollThreshold

\* A step that leaves every counter alone or takes it back to 0.
Gentle == \A s \in Sandboxes :
             records'[s].missingPolls = 0 \/ records'[s].missingPolls = records[s].missingPolls

LEMMA GentleEffects ==
    ASSUME TypeOK
    PROVE  /\ UNCHANGED registry => Gentle
           /\ \A s \in Sandboxes, r \in Record(States) :
                 Reserved(s, r) \/ Found(s, r) \/ (Edited(s, r) /\ KeepsCount(s, r)) => Gentle
           /\ \A s \in Sandboxes : Dropped(s) => Gentle
           /\ Emptied => Gentle
  <1>0. records \in [Sandboxes -> Record(States)]
    BY DEF TypeOK
  <1>1. UNCHANGED registry => Gentle
    BY DEF registry, Gentle
  <1>2. ASSUME NEW s \in Sandboxes, NEW r \in Record(States),
               Reserved(s, r) \/ Found(s, r) \/ (Edited(s, r) /\ KeepsCount(s, r))
        PROVE  Gentle
    BY <1>0, <1>2 DEF Reserved, Found, Fresh, Edited, KeepsCount, Replaced, Gentle
  <1>3. ASSUME NEW s \in Sandboxes, Dropped(s) PROVE Gentle
    BY <1>0, <1>3, IdleTypes DEF Dropped, Replaced, Gentle
  <1>4. Emptied => Gentle
    BY IdleTypes DEF Emptied, NewRegistry, Gentle
  <1> QED
    BY <1>1, <1>2, <1>3, <1>4

\* The numbers the counters are compared by.
LEMMA CountTypes ==
    ASSUME TypeOK
    PROVE  /\ \A s \in Sandboxes : /\ records[s].missingPolls \in Nat
                                   /\ absentRun[s] \in 0 .. 3
           /\ poll.cur \in Sandboxes /\ poll.todo \subseteq Sandboxes /\ poll.seen \subseteq Sandboxes
           /\ poll \in PollState
  BY DEF TypeOK, Record, PollState, missingPollThreshold

\* A step that keeps the poll where it is.
LEMMA GentleIsSound ==
    ASSUME TypeOK, TypeOK', CountsAreSound, Gentle, UNCHANGED <<poll, absentRun>>
    PROVE  CountsAreSound'
  <1>1. \A s \in Sandboxes : records[s].missingPolls \in Nat /\ absentRun[s] \in 0 .. 3
    BY CountTypes
  <1>2. \A s \in Sandboxes : /\ records'[s].missingPolls \in Nat
                             /\ records'[s].missingPolls <= records[s].missingPolls
                             /\ Missed(records'[s].missingPolls) <= Missed(records[s].missingPolls)
                             /\ Missed(records'[s].missingPolls) \in Nat
                             /\ Missed(records[s].missingPolls) \in Nat
    BY <1>1 DEF Gentle, Missed, Saturate, missingPollThreshold
  <1>3. poll.todo \subseteq Sandboxes /\ poll.seen \subseteq Sandboxes
    BY CountTypes
  <1>4. MissingPollsAreConsecutive'
    BY <1>1, <1>2 DEF CountsAreSound, MissingPollsAreConsecutive
  <1>5. poll.pc \in Reconciling => \A s \in poll.seen :
           \/ records'[s].missingPolls = 0
           \/ s = poll.cur /\ poll.pc \in {"duplicates", "observe", "update"}
    BY <1>3 DEF CountsAreSound, Gentle
  <1>6. poll.pc \in {"missing", "forget", "deleted"} =>
           \A s \in poll.todo : Missed(records'[s].missingPolls) <= absentRun[s]
    <2>1. \A s \in poll.todo : /\ absentRun[s] \in Nat
                               /\ Missed(records'[s].missingPolls) <= Missed(records[s].missingPolls)
                               /\ Missed(records'[s].missingPolls) \in Nat
                               /\ Missed(records[s].missingPolls) \in Nat
      BY <1>1, <1>2, <1>3
    <2> HIDE DEF Missed
    <2> QED
      BY <2>1 DEF CountsAreSound
  <1> QED
    BY <1>4, <1>5, <1>6 DEF CountsAreSound

LEMMA InitCounts == Init => CountsAreSound
  BY IdleTypes DEF Init, NewRegistry, CountsAreSound, MissingPollsAreConsecutive, Reconciling

\* A poll that is back to sleep or in its last part.
LEMMA RestIsSound ==
    ASSUME TypeOK, MissingPollsAreConsecutive, Gentle, UNCHANGED absentRun,
           poll'.pc \in {"idle", "expire", "expireUpdate", "expireBroadcast", "expireBlank"},
           poll'.pc = "idle" => poll'.seen = {}
    PROVE  CountsAreSound'
  <1>1. MissingPollsAreConsecutive'
    BY CountTypes DEF Gentle, MissingPollsAreConsecutive
  <1> QED
    BY <1>1 DEF CountsAreSound, Reconciling

\* A step within the first part of the poll.
LEMMA ReconcilingIsSound ==
    ASSUME TypeOK, MissingPollsAreConsecutive, Gentle, UNCHANGED absentRun,
           poll'.pc \in Reconciling,
           \A s \in poll'.seen : \/ records'[s].missingPolls = 0
                                 \/ s = poll'.cur /\ poll'.pc \in {"duplicates", "observe", "update"}
    PROVE  CountsAreSound'
  <1>1. MissingPollsAreConsecutive'
    BY CountTypes DEF Gentle, MissingPollsAreConsecutive
  <1> QED
    BY <1>1 DEF CountsAreSound, Reconciling

LEMMA PollIsSound ==
    ASSUME IInv, TypeOK', CountsAreSound, PollStep
    PROVE  CountsAreSound'
  <1>0. /\ TypeOK /\ PollOnTrack /\ MissingPollsAreConsecutive
        /\ records \in [Sandboxes -> Record(States)]
        /\ absentRun \in [Sandboxes -> 0 .. missingPollThreshold]
        /\ \A s \in Sandboxes : records[s].missingPolls \in Nat /\ absentRun[s] \in 0 .. 3
        /\ poll.cur \in Sandboxes /\ poll.todo \subseteq Sandboxes /\ poll.seen \subseteq Sandboxes
        /\ poll \in PollState
    BY CountTypes DEF IInv, CountsAreSound, TypeOK
  <1>1. ASSUME PollReturnsError PROVE Gentle
    BY <1>1, IdleTypes DEF PollReturnsError, Gentle, NewRegistry
  <1>2. ASSUME UNCHANGED registry PROVE Gentle
    BY <1>0, <1>2, GentleEffects
  <1>3. CASE PollList
    <2>1. poll'.pc = "reconcile" /\ poll'.seen = {}
      BY <1>0, <1>3 DEF PollList, PollState, CountsAreSound
    <2> QED
      BY <1>0, <1>2, <1>3, <2>1, ReconcilingIsSound DEF PollList, Reconciling
  <1>4. CASE PollTerminateDuplicates
    <2>1. CASE PollReturnsError
      BY <1>0, <1>1, <1>4, <2>1, IdleTypes, RestIsSound DEF PollTerminateDuplicates, PollReturnsError
    <2>2. CASE ~PollReturnsError
      <3>1. /\ poll'.pc = "observe" /\ poll'.seen = poll.seen /\ poll'.cur = poll.cur
            /\ poll.pc = "duplicates" /\ UNCHANGED registry /\ UNCHANGED absentRun
        BY <1>0, <1>4, <2>2 DEF PollTerminateDuplicates, PollState, registry
      <3>2. \A s \in poll.seen : records'[s].missingPolls = 0 \/ s = poll.cur
        BY <3>1 DEF CountsAreSound, Reconciling, registry
      <3> QED
        BY <1>0, <1>2, <3>1, <3>2, ReconcilingIsSound DEF Reconciling
    <2> QED
      BY <2>1, <2>2
  <1>5. CASE PollDrop
    <2>1. /\ poll'.pc \in {"dropped", "reconcile"} /\ poll'.seen = poll.seen
          /\ poll'.cur = poll.cur /\ poll.pc = "observe"
      BY <1>0, <1>5 DEF PollDrop, PollState
    <2>2. Dropped(poll.cur)
      BY <1>5 DEF PollDrop, Delete, Dropped, Replaced
    <2>3. Gentle
      BY <1>0, <2>2, GentleEffects
    <2>4. \A s \in poll.seen : records'[s].missingPolls = 0
      <3>1. records'[poll.cur] = NoRecord
        BY <1>0, <2>2 DEF Dropped, Replaced
      <3>2. \A s \in poll.seen : records[s].missingPolls = 0 \/ s = poll.cur
        BY <2>1 DEF CountsAreSound, Reconciling
      <3> QED
        BY <1>0, <2>3, <3>1, <3>2, IdleTypes DEF Gentle
    <2> QED
      BY <1>0, <1>5, <2>1, <2>3, <2>4, ReconcilingIsSound DEF PollDrop, Reconciling
  <1>6. CASE PollGet
    <2>0. /\ poll'.seen = poll.seen /\ poll'.cur = poll.cur /\ poll.pc = "observe"
          /\ UNCHANGED registry /\ UNCHANGED absentRun
          /\ \/ poll'.pc = "update"
             \/ poll'.pc = "add" /\ poll.cur \notin Tracked(records)
             \/ poll'.pc = "reconcile" /\ records[poll.cur].missingPolls = 0
      <3>1. \/ poll' = [poll EXCEPT !.pc = "add"] /\ poll.cur \notin Tracked(records)
            \/ poll' = [poll EXCEPT !.pc = "reconcile"] /\ records[poll.cur].missingPolls = 0
            \/ poll' = [poll EXCEPT !.pc = "update", !.snap[poll.cur] = records[poll.cur]]
        BY <1>6 DEF PollGet, NeedsUpdate
      <3> QED
        BY <1>0, <1>6, <3>1 DEF PollGet, PollState
    <2>1. \A s \in poll.seen : records'[s].missingPolls = 0 \/ s = poll.cur
      BY <2>0 DEF CountsAreSound, Reconciling, registry
    <2>2. poll.cur \notin Tracked(records) => records'[poll.cur].missingPolls = 0
      BY <1>0, <2>0, IdleTypes DEF Tracked, IInv, AbsentIsZero, registry
    <2>3. \A s \in poll'.seen : \/ records'[s].missingPolls = 0
                                \/ s = poll'.cur /\ poll'.pc \in {"duplicates", "observe", "update"}
      BY <2>0, <2>1, <2>2 DEF registry
    <2> QED
      BY <1>0, <1>2, <2>0, <2>3, ReconcilingIsSound DEF Reconciling
  <1>7. CASE PollAdd
    <2>1. CASE PollReturnsError
      BY <1>0, <1>1, <1>7, <2>1, IdleTypes, RestIsSound DEF PollAdd, PollReturnsError
    <2>2. CASE ~PollReturnsError
      <3>1. /\ poll'.pc = "broadcast" /\ poll'.seen = poll.seen /\ poll.pc = "add"
            /\ UNCHANGED absentRun /\ nextLease' = nextLease + 1
        BY <1>0, <1>7, <2>2 DEF PollAdd, PollState, NextLease
      <3>2. Gentle
        <4>1. records' = Store(records, poll.cur, Recovered(Keeper(poll.cur)), nextLease')
          BY <1>7, <2>2, Zenon DEF PollAdd
        <4>2. Recovered(Keeper(poll.cur)) \in Record(States)
              /\ Recovered(Keeper(poll.cur)).missingPolls = 0
          BY <1>0, <1>7, KeeperType DEF PollAdd, OneAtATime
        <4>3. nextLease' \in Nat
          BY <3>1 DEF IInv, TypeOK
        <4>4. PICK r \in Record(States) : Replaced(poll.cur, r) /\ r.missingPolls = 0
          BY <1>0, <4>1, <4>2, <4>3, StoreReplaces
        <4> QED
          BY <1>0, <4>4 DEF Replaced, Gentle
      <3>3. \A s \in poll.seen : records'[s].missingPolls = 0
        BY <1>0, <3>1, <3>2 DEF CountsAreSound, Reconciling, Gentle
      <3> QED
        BY <1>0, <3>1, <3>2, <3>3, ReconcilingIsSound DEF Reconciling
    <2> QED
      BY <2>1, <2>2
  <1>8. CASE PollUpdate
    <2> DEFINE s == poll.cur
               v == Keeper(s)
               r == Reconciled(records[s], v, poll.listed[v])
    <2>1. /\ poll'.pc \in {"reconcile", "broadcast", "blank"} /\ poll'.seen = poll.seen
          /\ poll.pc = "update" /\ UNCHANGED absentRun
      BY <1>0, <1>8 DEF PollUpdate, PollState
    <2>2. records'[s].missingPolls = 0 /\ \A t \in Sandboxes \ {s} : records'[t] = records[t]
      <3>1. CASE s \notin Tracked(records)
        <4>1. records' = records /\ records[s] = NoRecord
          BY <1>0, <1>8, <3>1 DEF PollUpdate, Tracked, IInv, AbsentIsZero
        <4> QED
          BY <4>1, IdleTypes
      <3>2. CASE s \in Tracked(records)
        <4>1. records' = [records EXCEPT ![s] = r]
          BY <1>8, <3>2 DEF PollUpdate
        <4>2. r.missingPolls = 0
          <5>1. records[s] \in Record(States)
            BY <1>0
          <5> QED
            BY <5>1 DEF Reconciled, Record
        <4> HIDE DEF r
        <4> QED
          BY <1>0, <4>1, <4>2
      <3> QED
        BY <3>1, <3>2
    <2>3. Gentle
      BY <1>0, <2>2 DEF Gentle
    <2>4. \A t \in poll.seen : records'[t].missingPolls = 0
      BY <1>0, <2>1, <2>2 DEF CountsAreSound, Reconciling
    <2> QED
      BY <1>0, <2>1, <2>3, <2>4, ReconcilingIsSound DEF Reconciling
  <1>9. CASE PollBroadcast
    <2>1. UNCHANGED registry /\ UNCHANGED absentRun
      BY <1>9 DEF PollBroadcast
    <2>2. CASE poll.pc \in {"broadcast", "blank"}
      <3>1. poll'.pc = "reconcile" /\ poll'.seen = poll.seen
        BY <1>0, <1>9, <2>2 DEF PollBroadcast, PollState
      <3>2. \A s \in poll.seen : records'[s].missingPolls = 0
        BY <2>1, <2>2 DEF CountsAreSound, Reconciling, registry
      <3> QED
        BY <1>0, <1>2, <2>1, <3>1, <3>2, ReconcilingIsSound DEF Reconciling
    <2>3. CASE poll.pc \notin {"broadcast", "blank"}
      <3>1. poll'.pc = "expire"
        BY <1>0, <1>9, <2>3 DEF PollBroadcast, PollState
      <3> QED
        BY <1>0, <1>2, <2>1, <3>1, RestIsSound
    <2> QED
      BY <2>2, <2>3
  <1>10. CASE PollAll
    <2> DEFINE missing == {s \in Tracked(records) : records[s].instance # NoInstance /\ s \notin poll.seen}
    <2>1. /\ poll'.pc = "missing" /\ poll'.todo = missing
          /\ records' = records /\ poll.pc = "reconcile"
      BY <1>10 DEF PollAll, IdlePoll, registry
    <2>2. \A s \in Sandboxes : absentRun'[s] = IF s \in poll.seen THEN 0 ELSE Saturate(absentRun[s] + 1)
      BY <1>10 DEF PollAll
    <2>3. \A s \in poll.seen : records[s].missingPolls = 0
      BY <2>1 DEF CountsAreSound, Reconciling
    <2>4. MissingPollsAreConsecutive'
      BY <1>0, <2>1, <2>2, <2>3 DEF MissingPollsAreConsecutive, Saturate, missingPollThreshold
    <2>5. \A s \in missing : Missed(records[s].missingPolls) <= absentRun'[s]
      BY <1>0, <2>2 DEF MissingPollsAreConsecutive, Missed, Saturate, missingPollThreshold, Tracked
    <2> QED
      BY <2>1, <2>4, <2>5 DEF CountsAreSound, Reconciling
  <1>11. CASE PollForget
    <2>1. /\ poll'.pc = "deleted" /\ poll'.todo = poll.todo /\ poll.pc = "forget" /\ UNCHANGED absentRun
      BY <1>0, <1>11 DEF PollForget, PollState
    <2>2. Gentle
      BY <1>0, <1>11, GentleEffects DEF PollForget, Delete, Dropped, Replaced
    <2>3. \A s \in Sandboxes : /\ records'[s].missingPolls \in Nat
                               /\ records'[s].missingPolls <= records[s].missingPolls
      BY <1>0, <2>2 DEF Gentle
    <2>4. MissingPollsAreConsecutive'
      BY <1>0, <2>1, <2>3 DEF MissingPollsAreConsecutive
    <2>5. \A s \in poll.todo : Missed(records'[s].missingPolls) <= absentRun[s]
      <3>1. \A s \in poll.todo : Missed(records[s].missingPolls) <= absentRun[s]
        BY <2>1 DEF CountsAreSound
      <3> QED
        BY <1>0, <2>3, <3>1 DEF Missed, Saturate, missingPollThreshold
    <2> QED
      BY <2>1, <2>4, <2>5 DEF CountsAreSound, Reconciling
  <1>12. CASE PollBroadcastDeleted
    <2>1. /\ UNCHANGED registry /\ UNCHANGED absentRun /\ poll'.todo = poll.todo /\ poll'.seen = poll.seen
          /\ \/ poll.pc = "dropped" /\ poll'.pc = "reconcile"
             \/ poll.pc = "deleted" /\ poll'.pc = "missing"
      BY <1>0, <1>12 DEF PollBroadcastDeleted, PollState
    <2>2. records' = records
      BY <2>1 DEF registry
    <2>3. MissingPollsAreConsecutive'
      BY <1>0, <2>1, <2>2 DEF MissingPollsAreConsecutive
    <2> QED
      BY <2>1, <2>2, <2>3 DEF CountsAreSound, Reconciling
  <1>13. CASE PollExpired
    <2>1. poll'.pc = "expire" /\ UNCHANGED registry /\ UNCHANGED absentRun
      BY <1>13 DEF PollExpired, IdlePoll
    <2> QED
      BY <1>0, <1>2, <2>1, RestIsSound
  <1>14. CASE PollExpireUpdate
    <2>1. poll'.pc \in {"expireBroadcast", "expireBlank"} /\ UNCHANGED absentRun
      BY <1>0, <1>14 DEF PollExpireUpdate, PollState
    <2>2. \A s \in Sandboxes : records'[s].missingPolls = records[s].missingPolls
      BY <1>0, <1>14 DEF PollExpireUpdate, Record
    <2>3. Gentle
      BY <2>2 DEF Gentle
    <2> QED
      BY <1>0, <2>1, <2>3, RestIsSound
  <1>15. CASE PollDone
    <2>1. UNCHANGED registry /\ UNCHANGED absentRun /\ poll' = IdlePoll
      BY <1>15 DEF PollDone
    <2> QED
      BY <1>0, <1>2, <2>1, IdleTypes, RestIsSound
  <1>16. ASSUME NEW s \in Sandboxes, PollPick(s) PROVE CountsAreSound'
    <2>1. /\ poll'.pc \in {"observe", "duplicates"} /\ poll'.seen = poll.seen \cup {s} /\ poll'.cur = s
          /\ poll.pc = "reconcile" /\ UNCHANGED registry /\ UNCHANGED absentRun
      BY <1>0, <1>16 DEF PollPick, PollState
    <2>2. \A t \in poll.seen : records'[t].missingPolls = 0
      BY <2>1 DEF CountsAreSound, Reconciling, registry
    <2> QED
      BY <1>0, <1>2, <2>1, <2>2, ReconcilingIsSound DEF Reconciling
  <1>17. ASSUME NEW s \in Sandboxes, PollMissing(s) PROVE CountsAreSound'
    <2> DEFINE n == Missed(records[s].missingPolls)
    <2>1. /\ poll'.todo = poll.todo \ {s} /\ poll'.cur = s /\ poll.pc = "missing" /\ s \in poll.todo
          /\ poll'.pc \in {"missing", "forget"} /\ absentRun' = absentRun
          /\ poll'.pc = "forget" => s \in Tracked(records) /\ n >= missingPollThreshold
      BY <1>0, <1>17 DEF PollMissing, PollState
    <2>2. n <= absentRun[s] /\ n \in Nat
      BY <1>0, <2>1 DEF CountsAreSound, Missed, Saturate, missingPollThreshold
    <2>3. /\ \A t \in Sandboxes \ {s} : records'[t] = records[t]
          /\ records'[s].missingPolls = n \/ records'[s].missingPolls = records[s].missingPolls
      BY <1>0, <1>17 DEF PollMissing, Record
    <2> HIDE DEF n
    <2>4. MissingPollsAreConsecutive'
      BY <1>0, <2>1, <2>2, <2>3 DEF MissingPollsAreConsecutive
    <2>5. \A t \in poll'.todo : Missed(records'[t].missingPolls) <= absentRun'[t]
      <3>1. ASSUME NEW t \in poll'.todo
            PROVE  Missed(records'[t].missingPolls) <= absentRun'[t]
        <4>1. t \in poll.todo /\ records'[t] = records[t]
          BY <1>0, <2>1, <2>3
        <4> QED
          BY <2>1, <4>1 DEF CountsAreSound
      <3> QED
        BY <3>1
    <2>6. poll'.pc = "forget" => absentRun'[s] = missingPollThreshold
      BY <1>0, <2>1, <2>2 DEF missingPollThreshold
    <2> QED
      BY <2>1, <2>4, <2>5, <2>6 DEF CountsAreSound, Reconciling
  <1>18. ASSUME NEW s \in Sandboxes, PollExpire(s) PROVE CountsAreSound'
    <2>1. \/ poll' = [poll EXCEPT !.todo = @ \ {s}, !.cur = s, !.pc = "expireUpdate", !.snap[s] = NoRecord]
          \/ poll' = [poll EXCEPT !.todo = @ \ {s}, !.snap[s] = NoRecord]
      BY <1>18 DEF PollExpire
    <2>2. poll'.pc \in {"expire", "expireUpdate"} /\ UNCHANGED registry /\ UNCHANGED absentRun
      BY <1>0, <1>18, <2>1 DEF PollExpire, PollState
    <2> QED
      BY <1>0, <1>2, <2>2, RestIsSound
  <1> QED
    BY <1>3, <1>4, <1>5, <1>6, <1>7, <1>8, <1>9, <1>10, <1>11, <1>12, <1>13, <1>14, <1>15, <1>16,
       <1>17, <1>18 DEF PollStep

LEMMA StepCounts == IInv /\ IInv' /\ CountsAreSound /\ [Next]_vars => CountsAreSound'
  <1> SUFFICES ASSUME IInv, IInv', CountsAreSound, [Next]_vars PROVE CountsAreSound'
    OBVIOUS
  <1>0. TypeOK /\ TypeOK' /\ CallsHoldInstances
    BY DEF IInv
  <1>1. ASSUME NEW c \in Creates, CreateStep(c) PROVE CountsAreSound'
    <2>1. Gentle
      BY <1>0, <1>1, CreateEffect, GentleEffects
    <2> QED
      BY <1>0, <1>1, <2>1, CreateFrame, GentleIsSound
  <1>2. ASSUME NEW p \in Rpcs, RpcStep(p) PROVE CountsAreSound'
    <2>1. Gentle
      BY <1>0, <1>2, RpcEffect, GentleEffects
    <2> QED
      BY <1>0, <1>2, <2>1, RpcFrame, GentleIsSound
  <1>3. CASE PollStep
    BY <1>0, <1>3, PollIsSound
  <1>4. CASE Environment
    <2>1. CASE Restart
      <3>1. /\ poll' = IdlePoll /\ records' = NewRegistry
            /\ absentRun' = [s \in Sandboxes |-> 0]
        BY <2>1 DEF Restart
      <3> QED
        BY <3>1, IdleTypes DEF NewRegistry, CountsAreSound, MissingPollsAreConsecutive, Reconciling
    <2>2. CASE ~Restart
      <3>1. UNCHANGED registry /\ UNCHANGED <<poll, absentRun>>
        BY <1>4, <2>2, EnvironmentFrame DEF registry
      <3>2. Gentle
        BY <1>0, <3>1, GentleEffects
      <3> QED
        BY <1>0, <3>1, <3>2, GentleIsSound
    <2> QED
      BY <2>1, <2>2
  <1>5. CASE UNCHANGED vars
    <2>1. UNCHANGED registry /\ UNCHANGED <<poll, absentRun>>
      BY <1>5 DEF vars, registry
    <2>2. Gentle
      BY <1>0, <2>1, GentleEffects
    <2> QED
      BY <1>0, <2>1, <2>2, GentleIsSound
  <1> QED
    BY <1>1, <1>2, <1>3, <1>4, <1>5 DEF Next

\* MissingPolls counts real, consecutive, complete polls, for any number of
\* sandboxes, instances and calls, whatever AWS lists or forgets.
THEOREM EC2CountsAreConsecutive == Spec => []MissingPollsAreConsecutive
  <1>1. CountsAreSound => MissingPollsAreConsecutive
    BY DEF CountsAreSound
  <1> QED
    BY <1>1, InitCounts, StepCounts, EC2Invariance, PTL DEF Spec

-----------------------------------------------------------------------------
(* A committed sandbox is released for cause.                               *)

LEMMA ReleaseIsObserved ==
    ASSUME IInv, CountsAreSound, [Next]_vars, NEW s \in Sandboxes, Releases(s)
    PROVE  \/ absentRun[s] = missingPollThreshold
           \/ \E v \in Instances : SandboxOf[v] = s /\ SeenTerminated(v)
  <1>0. /\ records \in [Sandboxes -> Record(States)] /\ TypeOK /\ PollOnTrack /\ CallsHoldInstances
        /\ records[s].instance # NoInstance /\ records'[s].instance = NoInstance /\ serving'
    BY DEF IInv, TypeOK, Releases
  <1>1. ~UNCHANGED records
    BY <1>0
  <1>2. ~Emptied
    BY <1>0, Zenon DEF Emptied
  <1>3. ASSUME NEW t \in Sandboxes, NEW r \in Record(States), Reserved(t, r) \/ Found(t, r) \/ Edited(t, r)
        PROVE  FALSE
    <2>1. CASE t # s
      BY <1>0, <1>3, <2>1 DEF Reserved, Found, Fresh, Edited, Replaced
    <2>2. CASE t = s /\ Edited(t, r)
      BY <1>0, <1>3, <2>2, InstancesAreNames DEF Edited, Replaced, Belongs, NoInstance
    <2>3. CASE t = s /\ Fresh(t, r)
      BY <1>0, <2>3, IdleTypes DEF Fresh, IInv, AbsentIsZero
    <2> QED
      BY <1>3, <2>1, <2>2, <2>3 DEF Reserved, Found
  <1>4. ASSUME NEW t \in Sandboxes, Dropped(t) PROVE t = s
    BY <1>0, <1>4 DEF Dropped, Replaced
  <1>5. ASSUME NEW c \in Creates, CreateStep(c) PROVE FALSE
    BY <1>0, <1>1, <1>3, <1>4, <1>5, CreateEffect DEF registry
  <1>6. ASSUME NEW p \in Rpcs, RpcStep(p) PROVE FALSE
    BY <1>0, <1>1, <1>3, <1>6, RpcEffect DEF registry
  <1>7. CASE Environment
    BY <1>0, <1>1, <1>7, EnvironmentFrame DEF Restart
  <1>8. CASE PollStep
    <2>1. s = poll.cur /\ (PollForget \/ SawItTerminated(s))
      BY <1>0, <1>1, <1>2, <1>3, <1>4, <1>8, PollEffect DEF registry
    <2>2. CASE PollForget
      BY <2>1, <2>2 DEF PollForget, CountsAreSound
    <2>3. CASE SawItTerminated(s)
      BY <2>3 DEF SawItTerminated, Belongs, SeenTerminated
    <2> QED
      BY <2>1, <2>2, <2>3
  <1>9. CASE UNCHANGED vars
    BY <1>1, <1>9 DEF vars
  <1> QED
    BY <1>5, <1>6, <1>7, <1>8, <1>9 DEF Next

\* No step of a serving driver drops a committed sandbox unless the three
\* latest complete polls missed it or the latest list shows an instance of it
\* terminated: not a rollback, not a late or failed call, not an expiry.
THEOREM EC2ReleaseNeedsObservation == Spec => ReleasedOnlyWhenObserved
  <1>1. IInv /\ CountsAreSound /\ [Next]_vars =>
          [\A s \in Sandboxes :
             Releases(s) => \/ absentRun[s] = missingPollThreshold
                            \/ \E v \in Instances : SandboxOf[v] = s /\ SeenTerminated(v)]_vars
    BY ReleaseIsObserved
  <1> QED
    BY <1>1, InitCounts, StepCounts, EC2Invariance, PTL DEF Spec, ReleasedOnlyWhenObserved
-----------------------------------------------------------------------------
(* The driver starts reconciled.                                            *)

\* AWS lists whatever exists, and no instance comes back to life by itself.
LiveStates == {"pending", "running", "stopping", "stopped"}
ListsAreComplete == /\ ListsLag = FALSE
                    /\ \A i \in Leftovers : i.state \in ListedStates => i.visible
NobodyRevives == \A e \in InstanceEvents : e[2] \in LiveStates => e[1] \in LiveStates

AllAreVisible == \A v \in Instances : Exists(v) => instances[v].visible

\* The sandbox of a live instance is still to be looked at, is being looked
\* at, or is tracked.
Covered(v) == \/ SandboxOf[v] \in poll.todo \cup Tracked(records)
              \/ SandboxOf[v] = poll.cur /\ poll.pc \in {"duplicates", "observe", "add"}

FirstPart == /\ Tracked(records) \subseteq poll.seen
             /\ \A v \in Instances : Alive(v) => poll.listed[v].state \in LiveStates /\ Covered(v)
             /\ poll.pc \in {"duplicates", "observe", "add"} => poll.cur \in poll.seen
             /\ poll.pc = "duplicates" => poll.dups = Duplicates(poll.cur)
             /\ poll.pc = "observe" =>
                  \A v \in Instances : Alive(v) /\ SandboxOf[v] = poll.cur => v = Keeper(poll.cur)
LiveAreTracked == \A v \in Instances : Alive(v) => SandboxOf[v] \in Tracked(records)

\* What holds before the server listens: nobody calls, the first poll starts
\* from an empty registry, tracks what it finds, and so has nothing to forget.
StartingUp == /\ \A p \in Rpcs : rpc[p] = IdleRpc
              /\ poll.pc = "idle" => Tracked(records) = {}
              /\ poll.pc \in Reconciling => FirstPart
              /\ poll.pc \notin Reconciling \cup {"idle"} => LiveAreTracked
              /\ poll.pc = "missing" => poll.todo = {}
              /\ poll.pc \notin {"forget", "deleted"}
StartInv == AllAreVisible /\ (~serving => StartingUp)

\* Nothing comes into being and nothing comes back to life.
Withers == \A v \in Instances :
             /\ Alive(v)' => Alive(v)
             /\ Exists(v)' => Exists(v) /\ (instances[v].visible => instances'[v].visible)

\* No call but RunInstances brings an instance up, whether it is accepted,
\* refused or its answer lost.
LEMMA CallsWither ==
    ASSUME instances \in [Instances -> Instance],
           \/ UNCHANGED instances
           \/ \E V : TerminateAccepted(V) \/ TerminateFails(V)
           \/ \E v : StopAccepted(v)
    PROVE  Withers
  <1>1. CASE UNCHANGED instances
    BY <1>1 DEF Withers, Alive, Exists
  <1>2. ASSUME NEW V, TerminateAccepted(V) PROVE Withers
    <2>1. /\ \A v \in V : Exists(v)
          /\ \A v \in Instances :
               instances'[v] = IF v \in V /\ instances[v].state # "terminated"
                                 THEN [instances[v] EXCEPT !.state = "shutting-down"]
                                 ELSE instances[v]
      BY <1>2 DEF TerminateAccepted, Terminated
    <2>2. ASSUME NEW v \in Instances
          PROVE  /\ instances'[v] = instances[v] \/ (Exists(v) /\ instances'[v].state = "shutting-down")
                 /\ instances'[v].visible = instances[v].visible
      BY <2>1, <2>2 DEF Instance
    <2> QED
      BY <2>2 DEF Withers, Alive, Exists
  <1>3. ASSUME NEW v, StopAccepted(v) PROVE Withers
    <2>1. CASE instances[v].state = "running"
      <3>1. \A w \in Instances :
               /\ instances'[w].visible = instances[w].visible
               /\ \/ instances'[w] = instances[w]
                  \/ instances[w].state = "running" /\ instances'[w].state = "stopping"
        BY <1>3, <2>1 DEF StopAccepted, Instance
      <3> QED
        BY <3>1 DEF Withers, Alive, Exists, ListedStates
    <2>2. CASE instances[v].state # "running"
      BY <1>1, <1>3, <2>2 DEF StopAccepted
    <2> QED
      BY <2>1, <2>2
  <1> QED
    BY <1>1, <1>2, <1>3 DEF TerminateFails

LEMMA EnvironmentWithers ==
    ASSUME TypeOK, NobodyRevives, Environment
    PROVE  Withers
  <1>0. instances \in [Instances -> Instance]
    BY DEF TypeOK
  <1>1. CASE Tick \/ Restart
    BY <1>1 DEF Tick, Restart, Withers, Alive, Exists
  <1>2. ASSUME NEW v \in Instances, InstanceChanges(v) \/ Settles(v) PROVE Withers
    <2>1. PICK from \in ListedStates, to \in ListedStates \cup {"gone"} :
                 /\ instances[v].state = from /\ instances' = [instances EXCEPT ![v].state = to]
                 /\ to \in LiveStates => from \in LiveStates
      <3>1. CASE InstanceChanges(v)
        <4>1. PICK e \in InstanceEvents :
                     instances[v].state = e[1] /\ instances' = [instances EXCEPT ![v].state = e[2]]
          BY <3>1 DEF InstanceChanges
        <4>2. e[1] \in ListedStates /\ e[2] \in ListedStates
          BY EnvironmentIsKnown
        <4> QED
          BY <4>1, <4>2 DEF NobodyRevives
      <3>2. CASE Settles(v)
        <4>1. \/ instances[v].state = "stopping" /\ instances' = [instances EXCEPT ![v].state = "stopped"]
              \/ instances[v].state = "shutting-down"
                 /\ instances' = [instances EXCEPT ![v].state = "terminated"]
              \/ instances[v].state = "terminated" /\ instances' = [instances EXCEPT ![v].state = "gone"]
          <5>1. PICK e \in {<<"stopping", "stopped">>, <<"shutting-down", "terminated">>,
                             <<"terminated", "gone">>} :
                       instances[v].state = e[1] /\ instances' = [instances EXCEPT ![v].state = e[2]]
            BY <3>2 DEF Settles
          <5>2. \/ e[1] = "stopping" /\ e[2] = "stopped"
                \/ e[1] = "shutting-down" /\ e[2] = "terminated"
                \/ e[1] = "terminated" /\ e[2] = "gone"
            OBVIOUS
          <5> QED
            BY <5>1, <5>2
        <4> QED
          BY <4>1 DEF ListedStates, LiveStates
      <3> QED
        BY <1>2, <3>1, <3>2
    <2>2. \A w \in Instances :
             /\ instances'[w].visible = instances[w].visible
             /\ \/ instances'[w] = instances[w]
                \/ instances[w].state = from /\ instances'[w].state = to
      BY <1>0, <2>1 DEF Instance
    <2> QED
      BY <2>1, <2>2 DEF Withers, Alive, Exists, LiveStates, ListedStates
  <1>3. ASSUME NEW v \in Instances, Appears(v) PROVE Withers
    <2>1. \A w \in Instances :
             /\ instances'[w].state = instances[w].state
             /\ instances[w].visible => instances'[w].visible
      BY <1>0, <1>3 DEF Appears, Instance
    <2> QED
      BY <2>1 DEF Withers, Alive, Exists
  <1> QED
    BY <1>1, <1>2, <1>3 DEF Environment

LEMMA PollWithers ==
    ASSUME instances \in [Instances -> Instance], PollStep
    PROVE  Withers
  <1>1. \/ UNCHANGED instances
        \/ TerminateAccepted(poll.dups) \/ TerminateFails(poll.dups)
        \/ \E s \in Sandboxes : \/ TerminateAccepted({poll.snap[s].instance})
                                \/ TerminateFails({poll.snap[s].instance})
    BY DEF PollStep, PollList, PollTerminateDuplicates, PollDrop, PollGet, PollAdd, PollUpdate,
           PollBroadcast, PollAll, PollForget, PollBroadcastDeleted, PollExpired,
           PollExpireUpdate, PollDone, PollPick, PollMissing, PollExpire
  <1> QED
    BY <1>1, CallsWither

\* Of all steps only a launch brings an instance into being, and then AWS
\* lists it at once.
LEMMA VisibleStep ==
    ASSUME ListsAreComplete, NobodyRevives, TypeOK, AllAreVisible, [Next]_vars
    PROVE  AllAreVisible'
  <1>0. instances \in [Instances -> Instance]
    BY DEF TypeOK
  <1>1. ASSUME Withers PROVE AllAreVisible'
    BY <1>1 DEF Withers, AllAreVisible, Exists
  <1>2. ASSUME NEW c \in Creates, CreateLaunch(c) PROVE AllAreVisible'
    <2>1. PICK r \in LaunchResults(c) : instances' = [instances EXCEPT ![r[1]] = r[2]]
      BY <1>2 DEF CreateLaunch
    <2>2. r[2] = instances[r[1]] \/ r[2].visible
      BY LaunchResultType DEF ListsAreComplete
    <2>3. \A v \in Instances : instances'[v] = instances[v] \/ instances'[v].visible
      BY <1>0, <2>1, <2>2
    <2> QED
      BY <2>3 DEF AllAreVisible, Exists
  <1>3. ASSUME NEW c \in Creates, CreateStep(c), ~CreateLaunch(c) PROVE AllAreVisible'
    <2>1. UNCHANGED instances \/ TerminateFails({create[c].instance})
      BY <1>3 DEF CreateStep, CreateReserve, CreateLaunchRefused, CreateLaunchFails, CreateCommit,
                  CreateCompensate, CreateRollback, CreateBroadcast
    <2> QED
      BY <1>0, <1>1, <2>1, CallsWither
  <1>4. ASSUME NEW p \in Rpcs, RpcStep(p) PROVE AllAreVisible'
    <2>1. \/ UNCHANGED instances
          \/ StopAccepted(rpc[p].instance)
          \/ TerminateAccepted({rpc[p].instance}) \/ TerminateFails({rpc[p].instance})
      BY <1>4 DEF RpcStep, RpcStart, ResolveRegistry, ResolveList, ResolveAdd, RpcCall,
                  RpcCallFails, RpcUpdate, RpcBroadcast
    <2> QED
      BY <1>0, <1>1, <2>1, CallsWither
  <1>5. CASE PollStep
    BY <1>0, <1>1, <1>5, PollWithers
  <1>6. CASE Environment
    BY <1>1, <1>6, EnvironmentWithers
  <1>7. CASE UNCHANGED vars
    BY <1>7 DEF vars, AllAreVisible, Exists
  <1> QED
    BY <1>2, <1>3, <1>4, <1>5, <1>6, <1>7 DEF Next

\* What the reconciler makes of a sandbox depends on the list of the poll only.
LEMMA KeeperFrame ==
    ASSUME poll'.listed = poll.listed
    PROVE  \A s : Keeper(s)' = Keeper(s) /\ Duplicates(s)' = Duplicates(s)
  <1> DEFINE K(L, s) == CHOOSE v \in {w \in Instances : SandboxOf[w] = s /\ L[w].state # "unborn"} :
                          \A w \in {u \in Instances : SandboxOf[u] = s /\ L[u].state # "unborn"} :
                             \/ L[v].createdAt < L[w].createdAt
                             \/ L[v].createdAt = L[w].createdAt /\ v <= w
  <1>1. \A s : Keeper(s) = K(poll.listed, s)
    BY DEF Keeper, Matches, Before
  <1>2. \A s : Keeper(s)' = K(poll'.listed, s)
    BY DEF Keeper, Matches, Before
  <1> HIDE DEF K
  <1>3. \A s : Keeper(s)' = Keeper(s)
    BY <1>1, <1>2
  <1> QED
    BY <1>3, MatchesFrame DEF Duplicates

\* The first part of the poll goes on: its list stays what it was.
LEMMA FirstPartGoesOn ==
    ASSUME StartingUp, poll.pc \in Reconciling, Withers, UNCHANGED rpc,
           poll'.listed = poll.listed, poll'.pc \in Reconciling,
           Tracked(records)' \subseteq poll'.seen,
           \A v \in Instances : Alive(v)' => Covered(v)',
           poll'.pc \in {"duplicates", "observe", "add"} => poll'.cur \in poll'.seen,
           poll'.pc = "duplicates" => poll'.dups = Duplicates(poll'.cur),
           poll'.pc = "observe" =>
             \A v \in Instances : Alive(v)' /\ SandboxOf[v] = poll'.cur => v = Keeper(poll'.cur)
    PROVE  StartingUp'
  <1>1. \A s : Keeper(s)' = Keeper(s) /\ Duplicates(s)' = Duplicates(s)
    BY KeeperFrame
  <1>2. (\A p \in Rpcs : rpc[p] = IdleRpc)'
    BY DEF StartingUp
  <1>3. \A v \in Instances : Alive(v)' => poll'.listed[v].state \in LiveStates
    BY DEF StartingUp, FirstPart, Withers
  <1>4. FirstPart'
    BY <1>1, <1>3 DEF FirstPart
  <1> QED
    BY <1>2, <1>4 DEF StartingUp, Reconciling

\* The last part of the poll: whatever lives is tracked, and stays so.
LEMMA LastPartGoesOn ==
    ASSUME StartingUp, UNCHANGED rpc, LiveAreTracked',
           poll'.pc \in {"missing", "expire", "expireUpdate", "expireBroadcast", "expireBlank"},
           poll'.pc = "missing" => poll'.todo = {}
    PROVE  StartingUp'
  BY DEF StartingUp, Reconciling

\* Back to the beginning.
LEMMA StartsOver ==
    ASSUME \A p \in Rpcs : rpc'[p] = IdleRpc, poll' = IdlePoll, records' = NewRegistry
    PROVE  StartingUp'
  BY IdleTypes DEF StartingUp, Tracked, NewRegistry, Reconciling

\* While the driver starts, only the reconciler and AWS act.
LEMMA OnlyThePollActs ==
    ASSUME NobodyCallsEarly, StartingUp, ~serving, Next
    PROVE  PollStep \/ Environment
  <1>1. ASSUME NEW c \in Creates, CreateStep(c) PROVE FALSE
    <2>1. create[c].pc = "idle"
      BY IdleTypes DEF NobodyCallsEarly
    <2> QED
      BY <1>1, <2>1 DEF CreateStep, CreateReserve, CreateLaunchRefused, CreateLaunch,
                        CreateLaunchFails, CreateCommit, CreateCompensate, CreateRollback,
                        CreateBroadcast
  <1>2. ASSUME NEW p \in Rpcs, RpcStep(p) PROVE FALSE
    <2>1. rpc[p].pc = "idle"
      BY IdleTypes DEF StartingUp
    <2> QED
      BY <1>2, <2>1 DEF RpcStep, RpcStart, ResolveRegistry, ResolveList, ResolveAdd, RpcCall,
                        RpcCallFails, RpcUpdate, RpcBroadcast
  <1> QED
    BY <1>1, <1>2 DEF Next

\* The first poll finds every live instance: it picks each sandbox the list
\* mentions, terminates all instances but the oldest, drops a sandbox only if
\* the oldest is terminated, and then nothing of it lives; and it tracks the
\* others before it looks for those that are missing.
LEMMA PollStartsUp ==
    ASSUME TypeOK, PollOnTrack, AllAreVisible, StartingUp, ~serving, PollStep, ~serving'
    PROVE  StartingUp'
  <1>0. /\ poll \in PollState /\ poll.cur \in Sandboxes
        /\ instances \in [Instances -> Instance]
        /\ records \in [Sandboxes -> Record(States)] /\ nextLease \in Nat
    BY DEF TypeOK, PollState
  <1>1. Withers /\ UNCHANGED rpc
    BY <1>0, PollWithers, PollFrame
  <1>2. \A p \in Rpcs : rpc'[p] = IdleRpc
    BY <1>1 DEF StartingUp
  <1>3. ASSUME PollReturnsError PROVE StartingUp'
    BY <1>2, <1>3, StartsOver DEF PollReturnsError
  <1>4. CASE PollList
    <2>1. /\ poll'.pc = "reconcile" /\ poll'.listed = Listed
          /\ poll'.todo = {s \in Sandboxes : Mentions(Listed, s)}
          /\ poll.pc = "idle" /\ records' = records /\ instances' = instances
      BY <1>0, <1>4 DEF PollList, PollState, registry
    <2>2. Tracked(records)' = {}
      BY <2>1 DEF StartingUp, Tracked
    <2>3. ASSUME NEW v \in Instances, Alive(v)'
          PROVE  poll'.listed[v].state \in LiveStates /\ Covered(v)'
      <3>1. Exists(v) /\ instances[v].visible /\ instances[v].state \in LiveStates
        BY <2>1, <2>3 DEF Alive, Exists, LiveStates, ListedStates, AllAreVisible
      <3>2. Listed[v] = instances[v]
        BY <3>1 DEF Listed
      <3>3. SandboxOf[v] \in Sandboxes /\ Mentions(Listed, SandboxOf[v])
        BY <3>1, <3>2, InstancesAreTagged DEF Mentions, LiveStates
      <3> QED
        BY <2>1, <3>1, <3>2, <3>3 DEF Covered
    <2>4. FirstPart'
      BY <2>1, <2>2, <2>3 DEF FirstPart
    <2> QED
      BY <1>2, <2>1, <2>4 DEF StartingUp, Reconciling
  <1>5. CASE PollTerminateDuplicates
    <2>1. CASE PollReturnsError
      BY <1>3, <2>1
    <2>2. CASE ~PollReturnsError
      <3>1. /\ poll'.pc = "observe" /\ poll'.listed = poll.listed /\ poll'.todo = poll.todo
            /\ poll'.seen = poll.seen /\ poll'.cur = poll.cur
            /\ poll.pc = "duplicates" /\ records' = records
            /\ TerminateAccepted(poll.dups)
        BY <1>0, <1>5, <2>2 DEF PollTerminateDuplicates, PollState
      <3>2. FirstPart /\ poll.dups = Duplicates(poll.cur)
        BY <3>1 DEF StartingUp, FirstPart, Reconciling
      <3>3. \A v \in Instances : Alive(v)' => Alive(v) /\ v \notin poll.dups
        <4>1. \A v \in poll.dups : v \in Instances =>
                 instances'[v].state = "terminated" \/ instances'[v].state = "shutting-down"
          BY <1>0, <3>1 DEF TerminateAccepted, Terminated, Instance
        <4> QED
          BY <1>1, <4>1 DEF Withers, Alive
      <3>4. ASSUME NEW v \in Instances, Alive(v)', SandboxOf[v] = poll.cur
            PROVE  v = Keeper(poll.cur)
        <4>1. Alive(v) /\ v \notin Duplicates(poll.cur) /\ poll.listed[v].state \in LiveStates
          BY <3>2, <3>3, <3>4 DEF FirstPart
        <4> QED
          BY <3>4, <4>1 DEF Duplicates, Matches, LiveStates
      <3>5. \A v \in Instances : Alive(v)' => Covered(v)'
        BY <3>1, <3>2, <3>3 DEF FirstPart, Covered, Tracked
      <3>6. Tracked(records)' \subseteq poll'.seen
        BY <3>1, <3>2 DEF FirstPart, Tracked
      <3> QED
        <4>1. Keeper(poll'.cur) = Keeper(poll.cur)
          BY <3>1
        <4>2. poll'.cur \in poll'.seen
          BY <3>1, <3>2 DEF FirstPart
        <4> QED
          BY <1>1, <3>1, <3>4, <3>5, <3>6, <4>1, <4>2, FirstPartGoesOn DEF Reconciling
    <2> QED
      BY <2>1, <2>2
  <1>6. CASE PollDrop
    <2>1. /\ poll'.pc \in {"dropped", "reconcile"} /\ poll'.listed = poll.listed
          /\ poll'.todo = poll.todo /\ poll'.seen = poll.seen /\ poll'.cur = poll.cur
          /\ poll.pc = "observe" /\ poll.listed[Keeper(poll.cur)].state = "terminated"
          /\ records' = [records EXCEPT ![poll.cur] = NoRecord]
      BY <1>0, <1>6 DEF PollDrop, PollState, Delete
    <2>2. FirstPart
      BY <2>1 DEF StartingUp, Reconciling
    <2>3. Tracked(records)' = Tracked(records) \ {poll.cur}
      BY <1>0, <2>1, IdleTypes DEF Tracked
    <2>4. ASSUME NEW v \in Instances, Alive(v)' PROVE Covered(v)'
      <3>1. Alive(v) /\ poll.listed[v].state \in LiveStates /\ Covered(v)
        BY <1>1, <2>2, <2>4 DEF Withers, FirstPart
      <3>2. SandboxOf[v] # poll.cur
        BY <2>1, <2>2, <3>1 DEF FirstPart, LiveStates
      <3> QED
        BY <2>1, <2>3, <3>1, <3>2 DEF Covered
    <2> QED
      BY <1>1, <2>1, <2>2, <2>3, <2>4, FirstPartGoesOn DEF FirstPart, Reconciling
  <1>7. CASE PollGet
    <2>1. /\ poll'.listed = poll.listed /\ poll'.todo = poll.todo /\ poll'.seen = poll.seen
          /\ poll'.cur = poll.cur /\ poll.pc = "observe" /\ records' = records
          /\ \/ poll'.pc = "add"
             \/ poll'.pc \in {"update", "reconcile"} /\ poll.cur \in Tracked(records)
      <3>1. \/ poll' = [poll EXCEPT !.pc = "add"]
            \/ poll.cur \in Tracked(records) /\ poll' = [poll EXCEPT !.pc = "reconcile"]
            \/ poll.cur \in Tracked(records)
               /\ poll' = [poll EXCEPT !.pc = "update", !.snap[poll.cur] = records[poll.cur]]
        BY <1>7 DEF PollGet
      <3>2. poll.pc = "observe" /\ records' = records
        BY <1>7 DEF PollGet, registry
      <3> QED
        BY <1>0, <3>1, <3>2 DEF PollState
    <2>2. FirstPart
      BY <2>1 DEF StartingUp, Reconciling
    <2>3. \A v \in Instances : Alive(v)' => Covered(v)'
      BY <1>1, <2>1, <2>2 DEF Withers, FirstPart, Covered, Tracked
    <2> QED
      BY <1>1, <2>1, <2>2, <2>3, FirstPartGoesOn DEF FirstPart, Tracked, Reconciling
  <1>8. CASE PollAdd
    <2>1. CASE PollReturnsError
      BY <1>3, <2>1
    <2>2. CASE ~PollReturnsError
      <3>1. /\ poll'.pc = "broadcast" /\ poll'.listed = poll.listed /\ poll'.todo = poll.todo
            /\ poll'.seen = poll.seen /\ poll'.cur = poll.cur /\ poll.pc = "add"
            /\ nextLease' = nextLease + 1
        BY <1>0, <1>8, <2>2 DEF PollAdd, PollState, NextLease
      <3>2. PICK r \in Record(States) : records' = [records EXCEPT ![poll.cur] = r] /\ r.lease # 0
        <4>1. Recovered(Keeper(poll.cur)) \in Record(States)
          BY <1>8, KeeperType DEF PollAdd, OneAtATime
        <4>2. records' = Store(records, poll.cur, Recovered(Keeper(poll.cur)), nextLease')
          BY <1>8, <2>2, Zenon DEF PollAdd
        <4>3. nextLease' \in Nat /\ nextLease' # 0
          BY <1>0, <3>1
        <4>4. PICK r \in Record(States) : Replaced(poll.cur, r) /\ r.lease = nextLease'
          BY <1>0, <4>1, <4>2, <4>3, StoreReplaces
        <4> QED
          BY <4>3, <4>4 DEF Replaced
      <3>3. Tracked(records)' = Tracked(records) \cup {poll.cur}
        BY <1>0, <3>2 DEF Tracked
      <3>4. FirstPart
        BY <3>1 DEF StartingUp, Reconciling
      <3>5. \A v \in Instances : Alive(v)' => Covered(v)'
        BY <1>1, <3>1, <3>3, <3>4 DEF Withers, FirstPart, Covered
      <3> QED
        BY <1>1, <3>1, <3>3, <3>4, <3>5, FirstPartGoesOn DEF FirstPart, Reconciling
    <2> QED
      BY <2>1, <2>2
  <1>9. CASE PollUpdate
    <2>1. /\ poll'.pc \in {"reconcile", "broadcast", "blank"} /\ poll'.listed = poll.listed
          /\ poll'.todo = poll.todo /\ poll'.seen = poll.seen /\ poll'.cur = poll.cur
          /\ poll.pc = "update"
      BY <1>0, <1>9 DEF PollUpdate, PollState
    <2>2. Tracked(records)' = Tracked(records)
      BY <1>0, <1>9 DEF PollUpdate, Reconciled, Tracked, Record
    <2>3. FirstPart
      BY <2>1 DEF StartingUp, Reconciling
    <2>4. \A v \in Instances : Alive(v)' => Covered(v)'
      BY <1>1, <2>1, <2>2, <2>3 DEF Withers, FirstPart, Covered
    <2> QED
      BY <1>1, <2>1, <2>2, <2>3, <2>4, FirstPartGoesOn DEF FirstPart, Reconciling
  <1>10. CASE PollBroadcast \/ PollBroadcastDeleted
    <2>1. /\ poll'.listed = poll.listed /\ poll'.todo = poll.todo /\ poll'.seen = poll.seen
          /\ poll'.cur = poll.cur /\ records' = records
          /\ \/ poll.pc \in {"broadcast", "blank", "dropped"} /\ poll'.pc = "reconcile"
             \/ poll.pc \in {"expireBroadcast", "expireBlank"} /\ poll'.pc = "expire"
      <3>1. poll.pc # "deleted"
        BY DEF StartingUp
      <3>2. \/ poll.pc \in {"broadcast", "blank", "dropped"}
               /\ poll' = [poll EXCEPT !.pc = "reconcile"]
            \/ poll.pc \in {"expireBroadcast", "expireBlank"}
               /\ poll' = [poll EXCEPT !.pc = "expire"]
        BY <1>10, <3>1 DEF PollBroadcast, PollBroadcastDeleted
      <3>3. records' = records
        BY <1>10 DEF PollBroadcast, PollBroadcastDeleted, registry
      <3> QED
        BY <1>0, <3>2, <3>3 DEF PollState
    <2>2. CASE poll'.pc = "reconcile"
      <3>1. FirstPart /\ poll.pc \in Reconciling
        BY <2>1, <2>2 DEF StartingUp, Reconciling
      <3>2. \A v \in Instances : Alive(v)' => Covered(v)'
        BY <1>1, <2>1, <2>2, <3>1 DEF Withers, FirstPart, Covered, Tracked
      <3> QED
        BY <1>1, <2>1, <2>2, <3>1, <3>2, FirstPartGoesOn DEF FirstPart, Tracked, Reconciling
    <2>3. CASE poll'.pc = "expire"
      <3>1. LiveAreTracked
        BY <2>1, <2>3 DEF StartingUp, Reconciling
      <3> QED
        BY <1>1, <2>1, <2>3, <3>1, LastPartGoesOn DEF Withers, LiveAreTracked, Tracked
    <2> QED
      BY <2>1, <2>2, <2>3
  <1>11. CASE PollAll
    <2>1. /\ poll.pc = "reconcile" /\ poll.todo = {} /\ records' = records
          /\ poll'.pc = "missing"
          /\ poll'.todo = {s \in Tracked(records) : records[s].instance # NoInstance
                                                    /\ s \notin poll.seen}
      BY <1>11 DEF PollAll, IdlePoll, registry
    <2>2. FirstPart
      BY <2>1 DEF StartingUp, Reconciling
    <2>3. poll'.todo = {}
      BY <2>1, <2>2 DEF FirstPart
    <2>4. LiveAreTracked'
      BY <1>1, <2>1, <2>2 DEF Withers, FirstPart, Covered, LiveAreTracked, Tracked
    <2> QED
      BY <1>1, <2>1, <2>3, <2>4, LastPartGoesOn
  <1>12. CASE PollExpired \/ \E s \in Sandboxes : PollExpire(s)
    <2>1. /\ poll.pc \in {"missing", "expire"} /\ poll'.pc \in {"expire", "expireUpdate"}
          /\ records' = records
      <3>1. CASE PollExpired
        BY <3>1 DEF PollExpired, IdlePoll, registry
      <3>2. ASSUME NEW s \in Sandboxes, PollExpire(s)
            PROVE  poll.pc = "expire" /\ poll'.pc \in {"expire", "expireUpdate"} /\ records' = records
        <4>1. \/ poll' = [poll EXCEPT !.todo = @ \ {s}, !.cur = s, !.pc = "expireUpdate", !.snap[s] = NoRecord]
              \/ poll' = [poll EXCEPT !.todo = @ \ {s}, !.snap[s] = NoRecord]
          BY <3>2 DEF PollExpire
        <4>2. poll.pc = "expire" /\ records' = records
          BY <3>2 DEF PollExpire, registry
        <4> QED
          BY <1>0, <4>1, <4>2 DEF PollState
      <3> QED
        BY <1>12, <3>1, <3>2
    <2>2. LiveAreTracked
      BY <2>1 DEF StartingUp, Reconciling
    <2> QED
      BY <1>1, <2>1, <2>2, LastPartGoesOn DEF Withers, LiveAreTracked, Tracked
  <1>13. CASE PollExpireUpdate
    <2>1. poll.pc = "expireUpdate" /\ poll'.pc \in {"expireBroadcast", "expireBlank"}
      BY <1>0, <1>13 DEF PollExpireUpdate, PollState
    <2>2. Tracked(records)' = Tracked(records)
      BY <1>0, <1>13 DEF PollExpireUpdate, Tracked, Record
    <2>3. LiveAreTracked
      BY <2>1 DEF StartingUp, Reconciling
    <2> QED
      BY <1>1, <2>1, <2>2, <2>3, LastPartGoesOn DEF Withers, LiveAreTracked
  <1>14. ASSUME NEW s \in Sandboxes, PollPick(s) PROVE StartingUp'
    <2>1. /\ poll'.listed = poll.listed /\ poll'.todo = poll.todo \ {s}
          /\ poll'.seen = poll.seen \cup {s} /\ poll'.cur = s /\ poll'.dups = Duplicates(s)
          /\ poll'.pc = IF Duplicates(s) = {} THEN "observe" ELSE "duplicates"
          /\ poll.pc = "reconcile" /\ records' = records
      BY <1>0, <1>14 DEF PollPick, PollState, registry
    <2>2. FirstPart
      BY <2>1 DEF StartingUp, Reconciling
    <2>3. \A v \in Instances : Alive(v)' => Covered(v)'
      BY <1>1, <2>1, <2>2 DEF Withers, FirstPart, Covered, Tracked
    <2>4. ASSUME NEW v \in Instances, Alive(v)', SandboxOf[v] = s, Duplicates(s) = {}
          PROVE  v = Keeper(s)
      <3>1. poll.listed[v].state \in LiveStates
        BY <1>1, <2>2, <2>4 DEF Withers, FirstPart
      <3> QED
        BY <2>4, <3>1 DEF Duplicates, Matches, LiveStates
    <2>5. Keeper(s)' = Keeper(s) /\ Duplicates(s)' = Duplicates(s)
      BY <2>1, KeeperFrame
    <2> QED
      BY <1>1, <2>1, <2>2, <2>3, <2>4, <2>5, FirstPartGoesOn DEF FirstPart, Tracked, Reconciling
  <1>15. CASE PollDone
    BY <1>15 DEF PollDone
  <1>16. CASE PollForget \/ \E s \in Sandboxes : PollMissing(s)
    BY <1>16 DEF PollForget, PollMissing, StartingUp
  <1> QED
    BY <1>4, <1>5, <1>6, <1>7, <1>8, <1>9, <1>10, <1>11, <1>12, <1>13, <1>14, <1>15, <1>16
       DEF PollStep

LEMMA InitStart == ListsAreComplete /\ Init => StartInv
  <1> SUFFICES ASSUME ListsAreComplete, Init PROVE StartInv
    OBVIOUS
  <1>1. AllAreVisible
    BY IdleTypes DEF Init, ListsAreComplete, AllAreVisible, Exists, ListedStates
  <1>2. StartingUp
    BY IdleTypes DEF Init, StartingUp, Tracked, NewRegistry, Reconciling
  <1> QED
    BY <1>1, <1>2 DEF StartInv

LEMMA StepStart ==
    ASSUME ListsAreComplete, NobodyRevives
    PROVE  IInv /\ StartInv /\ [Next]_vars => StartInv'
  <1> SUFFICES ASSUME IInv, StartInv, [Next]_vars PROVE StartInv'
    OBVIOUS
  <1>0. TypeOK /\ PollOnTrack /\ NobodyCallsEarly
    BY DEF IInv
  <1>1. AllAreVisible'
    BY <1>0, VisibleStep DEF StartInv
  <1>2. ASSUME ~serving' PROVE StartingUp'
    <2>1. CASE Restart
      BY <2>1, StartsOver DEF Restart
    <2>2. CASE ~Restart /\ Next
      <3>1. ~serving
        <4>1. UNCHANGED serving \/ PollDone
          BY <2>2, CreateFrame, RpcFrame, PollFrame, EnvironmentFrame DEF Next
        <4> QED
          BY <1>2, <4>1 DEF PollDone
      <3>2. PollStep \/ Environment
        BY <1>0, <2>2, <3>1, OnlyThePollActs DEF StartInv
      <3>3. CASE PollStep
        BY <1>0, <1>2, <3>1, <3>3, PollStartsUp DEF StartInv
      <3>4. CASE Environment
        <4>1. Withers /\ UNCHANGED <<records, rpc, poll>>
          BY <1>0, <2>2, <3>4, EnvironmentWithers, EnvironmentFrame
        <4>2. \A s : Keeper(s)' = Keeper(s) /\ Duplicates(s)' = Duplicates(s)
          BY <4>1, KeeperFrame
        <4> QED
          BY <3>1, <4>1, <4>2
             DEF StartInv, StartingUp, FirstPart, LiveAreTracked, Covered, Tracked, Withers
      <3> QED
        BY <3>2, <3>3, <3>4
    <2>3. CASE UNCHANGED vars
      <3>1. \A s : Keeper(s)' = Keeper(s) /\ Duplicates(s)' = Duplicates(s)
        BY <2>3, KeeperFrame DEF vars
      <3> QED
        BY <1>2, <2>3, <3>1
           DEF vars, StartInv, StartingUp, FirstPart, LiveAreTracked, Covered, Tracked, Alive
    <2> QED
      BY <2>1, <2>2, <2>3
  <1> QED
    BY <1>1, <1>2 DEF StartInv

\* When the server begins to listen, also after a crash at any point, every
\* live instance is tracked, whatever earlier lives left behind, provided
\* DescribeInstances lists what exists and no instance revives.
THEOREM EC2StartsReconciled ==
    ASSUME ListsAreComplete, NobodyRevives
    PROVE  Spec => StartsReconciled
  <1>1. StartInv /\ [Next]_vars =>
          [~serving /\ serving' =>
             \A v \in Instances : Alive(v) => SandboxOf[v] \in Tracked(records)]_vars
    <2> SUFFICES ASSUME StartInv, Next, ~serving, serving'
                 PROVE  \A v \in Instances : Alive(v) => SandboxOf[v] \in Tracked(records)
      OBVIOUS
    <2>1. PollDone
      BY CreateFrame, RpcFrame, PollFrame, EnvironmentFrame DEF Next, Restart
    <2> QED
      BY <2>1 DEF PollDone, StartInv, StartingUp, LiveAreTracked, Reconciling
  <1>2. IInv /\ StartInv /\ [Next]_vars => StartInv'
    BY StepStart
  <1>3. Init => StartInv
    BY InitStart
  <1> QED
    BY <1>1, <1>2, <1>3, EC2Invariance, PTL DEF Spec, StartsReconciled
=============================================================================
