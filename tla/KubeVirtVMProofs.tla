-------------------------- MODULE KubeVirtVMProofs --------------------------
(***************************************************************************)
(* Proofs about the VMs of the KubeVirt driver: a serving driver accounts  *)
(* for every VM that is not going away, and no record escapes the age      *)
(* limit.  Both compare the registry with the cluster, so both need to     *)
(* know what the first poll has made of the VMs of earlier lives.          *)
(***************************************************************************)
EXTENDS KubeVirtProofs

\* Kubernetes does not take a deletion back.
NobodyRevives == \A e \in VMEvents : e[1] = "Terminating" => e[2] = "Terminating"

Held(s) == records[s].instance # NoInstance

-----------------------------------------------------------------------------
(* What a step does to the cluster and to the instances on record.          *)

\* Nothing comes into being, and nothing comes back to life.
Wanes == \A v \in Instances :
            Exists(vms, v)' => Exists(vms, v) /\ vms'[v].createdAt = vms[v].createdAt
NothingRevives == \A v \in Instances : Alive(v)' => Alive(v)

\* No provider call but Launch brings a VM up, whether it succeeds or fails.
LEMMA CallsWane ==
    ASSUME vms \in [Instances -> VM],
           UNCHANGED vms \/ \E v : vms' = Terminate(vms, v)
    PROVE  Wanes /\ NothingRevives
  <1>1. CASE UNCHANGED vms
    BY <1>1 DEF Wanes, NothingRevives, Alive, Exists
  <1>2. ASSUME NEW v, Exists(vms, v), vms' = [vms EXCEPT ![v].state = "Terminating"]
        PROVE  Wanes /\ NothingRevives
    <2>1. \A w \in Instances :
             /\ vms'[w].createdAt = vms[w].createdAt
             /\ \/ vms'[w] = vms[w]
                \/ Exists(vms, w) /\ vms'[w].state = "Terminating"
      BY <1>2 DEF VM
    <2> QED
      BY <2>1 DEF Wanes, NothingRevives, Alive, Exists
  <1> QED
    BY <1>1, <1>2 DEF Terminate

LEMMA RpcWanes ==
    ASSUME vms \in [Instances -> VM], NEW p \in Rpcs, RpcStep(p)
    PROVE  Wanes /\ NothingRevives
  <1>1. UNCHANGED vms \/ \E v : vms' = Terminate(vms, v)
    BY DEF RpcStep, DeleteScan, DeleteMark, DeletePass, RpcStart, ResolveRegistry, ResolveList,
           ResolveAdd, ResolveAdopt, ResolveReread, RpcCall, RpcCallFails, RpcUpdate, RpcBroadcast
  <1> QED
    BY <1>1, CallsWane

LEMMA PollWanes ==
    ASSUME vms \in [Instances -> VM], PollStep
    PROVE  Wanes /\ NothingRevives
  <1>1. UNCHANGED vms \/ \E v : vms' = Terminate(vms, v)
    BY DEF PollStep, PollList, PollGet, PollAdd, PollUpdate, PollBroadcast, PollAll, PollConfirm,
           PollForget, PollBroadcastDeleted, PollExpired, PollExpireUpdate, PollDone, PollPick,
           PollMissing, PollExpire, PollTerminateDuplicate
  <1> QED
    BY <1>1, CallsWane

LEMMA EnvironmentWanes ==
    ASSUME vms \in [Instances -> VM], Environment, \A l \in late : ~ApplyLate(l)
    PROVE  Wanes /\ (NobodyRevives => NothingRevives)
  <1>1. CASE Tick \/ Restart
    BY <1>1 DEF Tick, Restart, Wanes, NothingRevives, Alive, Exists
  <1>2. ASSUME NEW v \in Instances, VMChanges(v) PROVE Wanes /\ (NobodyRevives => NothingRevives)
    <2>1. PICK e \in VMEvents : vms[v].state = e[1] /\ vms' = [vms EXCEPT ![v].state = e[2]]
      BY <1>2 DEF VMChanges
    <2>2. /\ e[1] # "Absent" /\ e[2] # "Absent"
          /\ NobodyRevives => (e[1] = "Terminating" => e[2] = "Terminating")
      BY EnvironmentIsKnown DEF NobodyRevives
    <2>3. \A w \in Instances :
             /\ vms'[w].createdAt = vms[w].createdAt
             /\ vms'[w] = vms[w] \/ (vms[w].state = e[1] /\ vms'[w].state = e[2])
      BY <2>1 DEF VM
    <2> QED
      BY <2>2, <2>3 DEF Wanes, NothingRevives, Alive, Exists
  <1>3. ASSUME NEW v \in Instances, VMGone(v) PROVE Wanes /\ NothingRevives
    BY <1>3 DEF VMGone, Wanes, NothingRevives, Alive, Exists, NoVM
  <1> QED
    BY <1>1, <1>2, <1>3 DEF Environment

\* A create that is applied late makes one VM at most, with its time, and
\* excuses it.
LEMMA LateMakesOne ==
    ASSUME vms \in [Instances -> VM], NEW l \in late, ApplyLate(l)
    PROVE  /\ excused \subseteq excused'
           /\ \A v \in Instances : \/ vms'[v] = vms[v]
                                   \/ v \in excused' /\ vms'[v].createdAt = l.createdAt
  <1> DEFINE vm == [state |-> "Starting", createdAt |-> l.createdAt]
  <1>1. \/ vms' = vms /\ excused' = excused
        \/ vms' = [vms EXCEPT ![l.vm] = vm] /\ excused' = excused \cup {l.vm}
    BY DEF ApplyLate
  <1>2. vm.createdAt = l.createdAt
    OBVIOUS
  <1> HIDE DEF vm
  <1>3. \A v \in Instances : vms'[v] = vms[v] \/ (v = l.vm /\ v \in excused' /\ vms'[v] = vm)
    BY <1>1
  <1> QED
    BY <1>1, <1>2, <1>3

\* A record that changes keeps an instance it has.
LEMMA EffectsHold ==
    ASSUME TypeOK, AbsentIsZero,
           \/ UNCHANGED records
           \/ \E s \in Sandboxes, r \in Record(States) : Reserved(s, r) \/ Found(s, r) \/ Edited(s, r)
           \/ \E s \in Sandboxes : Dropped(s) /\ ~Held(s)
    PROVE  \A s \in Sandboxes : Held(s) => Held(s)'
  <1>0. records \in [Sandboxes -> Record(States)]
    BY DEF TypeOK, RegistryType
  <1>1. CASE UNCHANGED records
    BY <1>1 DEF Held
  <1>2. ASSUME NEW s \in Sandboxes, NEW r \in Record(States), Reserved(s, r) \/ Found(s, r) \/ Edited(s, r)
        PROVE  \A t \in Sandboxes : Held(t) => Held(t)'
    <2>1. records'[s] = r /\ \A t \in Sandboxes \ {s} : records'[t] = records[t]
      BY <1>0, <1>2 DEF Reserved, Found, Fresh, Edited, Replaced
    <2>2. Held(s) => r.instance # NoInstance
      BY <1>0, <1>2, IdleTypes, InstancesAreNames
         DEF Reserved, Found, Fresh, Edited, Belongs, AbsentIsZero, Held, NoInstance
    <2> QED
      BY <2>1, <2>2 DEF Held
  <1>3. ASSUME NEW s \in Sandboxes, Dropped(s), ~Held(s)
        PROVE  \A t \in Sandboxes : Held(t) => Held(t)'
    BY <1>0, <1>3 DEF Dropped, Replaced, Held
  <1> QED
    BY <1>1, <1>2, <1>3

\* Only the reconciler's forget, the early return of a first poll and a crash
\* take an instance off the record.
LEMMA CallsHold ==
    ASSUME IInv,
           \/ \E c \in Creates : CreateStep(c)
           \/ \E p \in Rpcs : RpcStep(p)
    PROVE  \A s \in Sandboxes : Held(s) => Held(s)'
  <1>1. ASSUME NEW c \in Creates, CreateStep(c)
        PROVE  \/ UNCHANGED records
               \/ \E s \in Sandboxes, r \in Record(States) : Reserved(s, r) \/ Edited(s, r)
               \/ \E s \in Sandboxes : Dropped(s) /\ ~Held(s)
    BY <1>1, CreateEffect DEF IInv, Held, registry
  <1>2. ASSUME NEW p \in Rpcs, RpcStep(p)
        PROVE  \/ UNCHANGED records
               \/ \E s \in Sandboxes, r \in Record(States) : Found(s, r) \/ Edited(s, r)
    BY <1>2, RpcEffect DEF IInv, registry
  <1> QED
    BY <1>1, <1>2, EffectsHold DEF IInv

LEMMA PollHolds ==
    ASSUME IInv, PollStep
    PROVE  \/ \A s \in Sandboxes : Held(s) => Held(s)'
           \/ PollForget /\ ForgetAllowed(records[poll.cur], poll.snap[poll.cur])
              /\ Replaced(poll.cur, NoRecord)
           \/ ~serving /\ records' = NewRegistry
  <1>1. \/ UNCHANGED records
        \/ \E s \in Sandboxes, r \in Record(States) : Found(s, r) \/ Edited(s, r)
        \/ PollForget /\ ForgetAllowed(records[poll.cur], poll.snap[poll.cur])
           /\ Replaced(poll.cur, NoRecord)
        \/ ~serving /\ records' = NewRegistry
    BY PollEffect DEF IInv, registry, Dropped, Emptied
  <1> QED
    BY <1>1, EffectsHold DEF IInv

-----------------------------------------------------------------------------
(* A serving driver accounts for every VM.                                  *)

\* Stronger than being tracked: a record without an instance may be rolled
\* back by the create that reserved it.
Dealt(v) == \/ ~Alive(v)
            \/ v \in excused
            \/ Held(SandboxOf[v])
            \/ LaunchedBySomeone(v)
Kept == \A v \in Instances : Dealt(v)

LEMMA CreateKeeps ==
    ASSUME IInv, Kept, NEW c \in Creates, CreateStep(c)
    PROVE  Kept'
  <1>00. PICK s \in Sandboxes, v \in Instances : s = create[c].sandbox /\ v = VMName[s]
    BY VMsAreAnnotated DEF IInv, TypeOK, ThreadType, CreateCall
  <1>0. /\ create \in [Creates -> CreateCall] /\ create[c] \in CreateCall /\ s \in Sandboxes
        /\ s = create[c].sandbox /\ v = VMName[s]
        /\ v \in Instances /\ v # NoInstance /\ SandboxOf[v] = s
        /\ vms \in [Instances -> VM] /\ records \in [Sandboxes -> Record(States)]
    BY <1>00, VMsAreAnnotated, InstancesAreNames
       DEF IInv, TypeOK, ThreadType, CreateCall, ClusterType, RegistryType, NoInstance
  <1>1. \A t \in Sandboxes : Held(t) => Held(t)'
    BY CallsHold
  <1>2. \A d \in Creates \ {c} : create'[d] = create[d]
    BY CreateEffect DEF IInv
  <1>3. \A w \in Instances : SandboxOf[w] \in Sandboxes
    BY VMsAreAnnotated
  <1>4. ASSUME UNCHANGED <<vms, excused>>, create[c].pc \notin {"launched", "compensate"}
        PROVE  Kept'
    <2>1. \A w \in Instances : LaunchedBySomeone(w) => LaunchedBySomeone(w)'
      BY <1>2, <1>4 DEF LaunchedBySomeone
    <2>2. \A w \in Instances : Alive(w)' => Alive(w)
      BY <1>4 DEF Alive
    <2> QED
      BY <1>1, <1>3, <1>4, <2>1, <2>2 DEF Kept, Dealt
  <1>5. ASSUME Dealt(v)', excused \ {v} \subseteq excused',
               \A w \in Instances \ {v} : vms'[w] = vms[w]
        PROVE  Kept'
    <2>1. \A w \in Instances \ {v} : LaunchedBySomeone(w) => LaunchedBySomeone(w)'
      BY <1>0, <1>2 DEF LaunchedBySomeone
    <2>2. \A w \in Instances \ {v} : Alive(w)' => Alive(w)
      BY <1>5 DEF Alive
    <2>3. \A w \in Instances \ {v} : Dealt(w)'
      BY <1>1, <1>3, <1>5, <2>1, <2>2 DEF Kept, Dealt
    <2> QED
      BY <1>5, <2>3 DEF Kept
  <1>6. /\ \A w \in Instances \ {v} : Terminate(vms, v)[w] = vms[w]
        /\ Terminate(vms, v)[v].state \in {"Absent", "Terminating"}
    BY <1>0 DEF Terminate, Exists, VM
  <1>7. \/ \E t \in Sandboxes : CreateReserve(c, t)
        \/ CreateLaunchRefused(c) \/ CreateUnanswered(c) \/ CreateRollback(c) \/ CreateBroadcast(c)
        => Kept'
    BY <1>4 DEF CreateReserve, CreateLaunchRefused, CreateUnanswered, CreateRollback,
                CreateBroadcast, history
  <1>8. CASE CreateLaunch(c)
    <2>1. PICK vm \in LaunchResult(c) :
             /\ vms' = [vms EXCEPT ![v] = vm]
             /\ create' = [create EXCEPT ![c] = [@ EXCEPT !.pc = "launched", !.vm = vm]]
      BY <1>0, <1>8 DEF CreateLaunch
    <2>2. create'[c].pc = "launched" /\ create'[c].sandbox = s
      BY <1>0, <2>1 DEF CreateCall
    <2>3. LaunchedBySomeone(v)'
      BY <1>0, <2>2 DEF LaunchedBySomeone
    <2>4. excused' = excused \ {v}
      BY <1>0, <1>8 DEF CreateLaunch
    <2>5. \A w \in Instances \ {v} : vms'[w] = vms[w]
      BY <1>0, <2>1
    <2> QED
      BY <1>5, <2>3, <2>4, <2>5 DEF Dealt
  <1>9. CASE CreateLaunchFails(c) \/ CreateCompensate(c)
    <2>1. /\ \A w \in Instances \ {v} : vms'[w] = vms[w]
          /\ excused \ {v} \subseteq excused'
          /\ v \in excused' \/ vms' = Terminate(vms, v)
      BY <1>0, <1>6, <1>9 DEF CreateLaunchFails, CreateCompensate
    <2>2. Dealt(v)'
      BY <1>6, <2>1 DEF Dealt, Alive
    <2> QED
      BY <1>5, <2>1, <2>2
  <1>10. CASE CreateCommit(c)
    <2>1. UNCHANGED <<vms, excused>>
      BY <1>10 DEF CreateCommit, history
    <2>2. CASE CommitAllowed(records[s], create[c].lease)
      <3>1. records' = [records EXCEPT ![s] = [records[s] EXCEPT !.instance = v,
                                                 !.state = create[c].vm.state,
                                                 !.createdAt = create[c].vm.createdAt]]
        BY <1>0, <1>10, <2>2 DEF CreateCommit
      <3>2. records'[s].instance = v
        BY <1>0, <3>1 DEF Record
      <3> QED
        BY <1>0, <1>5, <2>1, <3>2 DEF Dealt, Held
    <2>3. CASE ~CommitAllowed(records[s], create[c].lease)
      <3>1. create'[c].pc = "compensate" /\ create'[c].sandbox = s
        BY <1>0, <1>10, <2>3 DEF CreateCommit, CreateCall
      <3>2. LaunchedBySomeone(v)'
        BY <1>0, <3>1 DEF LaunchedBySomeone
      <3> QED
        BY <1>5, <2>1, <3>2 DEF Dealt
    <2> QED
      BY <2>2, <2>3
  <1> QED
    BY <1>7, <1>8, <1>9, <1>10 DEF CreateStep

\* What does not launch keeps every VM accounted for if it keeps the launches,
\* and takes an excuse back or an instance off the record only for a VM that
\* it deals with otherwise.
LEMMA KeptGoesOn ==
    ASSUME Kept, NothingRevives, UNCHANGED create,
           \A v \in Instances : v \in excused => Dealt(v)',
           \A v \in Instances : Alive(v) /\ Held(SandboxOf[v]) => Dealt(v)'
    PROVE  Kept'
  BY DEF Kept, Dealt, NothingRevives, LaunchedBySomeone

\* Storing a record puts its instance on record.
LEMMA StoredInstance ==
    ASSUME TypeOK, NEW s \in Sandboxes, NEW rec \in Record(States),
           records' = Store(records, s, rec, NextLease(nextLease))
    PROVE  records'[s].instance = rec.instance
  <1>1. records \in [Sandboxes -> Record(States)] /\ NextLease(nextLease) \in Nat
    BY DEF TypeOK, RegistryType, NextLease
  <1>2. PICK r \in Record(States) : Replaced(s, r) /\ r.instance = rec.instance
    BY <1>1, StoreReplaces
  <1> QED
    BY <1>1, <1>2 DEF Replaced

LEMMA RpcKeeps ==
    ASSUME IInv, Kept, NEW p \in Rpcs, RpcStep(p)
    PROVE  Kept'
  <1>0. /\ vms \in [Instances -> VM] /\ records \in [Sandboxes -> Record(States)]
        /\ rpc[p].sandbox \in Sandboxes /\ rpc[p].found \in VM
        /\ \A w \in Instances : SandboxOf[w] \in Sandboxes
    BY VMsAreAnnotated DEF IInv, TypeOK, ThreadType, RpcCallState, ClusterType, RegistryType
  <1>1. \A s \in Sandboxes : Held(s) => Held(s)'
    BY CallsHold
  <1>2. NothingRevives /\ UNCHANGED create
    BY <1>0, RpcWanes, RpcFrame
  <1>3. \A v \in Instances : v \in excused => v \in excused' \/ Held(SandboxOf[v])'
    <2>1. ASSUME ResolveAdd(p) \/ ResolveAdopt(p), ~UNCHANGED excused
          PROVE  \A v \in Instances : v \in excused => v \in excused' \/ Held(SandboxOf[v])'
      <3> DEFINE v == rpc[p].instance
                 s == rpc[p].sandbox
      <3>1. v \in Instances /\ SandboxOf[v] = s /\ v # NoInstance
        BY <2>1, InstancesAreNames
           DEF IInv, RequestsAreResolved, ResolveAdd, ResolveAdopt, NoInstance
      <3>2. excused' = excused \ {v}
        BY <2>1 DEF ResolveAdd, ResolveAdopt
      <3>3. records'[s].instance = v
        <4>1. CASE ResolveAdd(p)
          <5>1. records' = Store(records, s, recordFromInstance(v, rpc[p].found), NextLease(nextLease))
            BY <2>1, <4>1, Zenon DEF ResolveAdd
          <5>2. /\ recordFromInstance(v, rpc[p].found) \in Record(States)
                /\ recordFromInstance(v, rpc[p].found).instance = v
            BY <1>0, <3>1, IdleTypes DEF recordFromInstance, NoRecord, Record, States, VM
          <5> QED
            BY <1>0, <5>1, <5>2, StoredInstance DEF IInv
        <4>2. CASE ResolveAdopt(p)
          <5> DEFINE r == [records[s] EXCEPT !.instance = v, !.state = rpc[p].found.state,
                                             !.createdAt = rpc[p].found.createdAt]
          <5>1. records' = [records EXCEPT ![s] = r]
            BY <2>1, <4>2 DEF ResolveAdopt
          <5>2. r.instance = v
            BY <1>0 DEF Record
          <5> HIDE DEF r
          <5> QED
            BY <1>0, <5>1, <5>2
        <4> QED
          BY <2>1, <4>1, <4>2
      <3> QED
        BY <3>1, <3>2, <3>3 DEF Held
    <2>2. ResolveAdd(p) \/ ResolveAdopt(p) \/ UNCHANGED excused
      BY DEF RpcStep, DeleteScan, DeleteMark, DeletePass, RpcStart, ResolveRegistry, ResolveList,
             ResolveReread, RpcCall, RpcCallFails, RpcUpdate, RpcBroadcast, history
    <2> QED
      BY <2>1, <2>2
  <1> QED
    BY <1>0, <1>1, <1>2, <1>3, KeptGoesOn DEF Dealt

\* A poll takes an excuse back only from a VM that it puts on record.
LEMMA PollExcuses ==
    ASSUME IInv, PollStep
    PROVE  \A v \in Instances : v \in excused => v \in excused' \/ Held(SandboxOf[v])'
  <1>0. records \in [Sandboxes -> Record(States)] /\ poll.cur \in Sandboxes
    BY DEF IInv, TypeOK, ThreadType, PollState, RegistryType
  <1>1. ASSUME PollAdd \/ PollUpdate, ~UNCHANGED excused
        PROVE  excused' = excused \ {Keeper(poll.cur)} /\ records'[poll.cur].instance # NoInstance
               /\ SandboxOf[Keeper(poll.cur)] = poll.cur
    <2>1. /\ Keeper(poll.cur) \in Instances /\ SandboxOf[Keeper(poll.cur)] = poll.cur
          /\ Keeper(poll.cur) # NoInstance
          /\ Recovered(Keeper(poll.cur)).instance = Keeper(poll.cur)
          /\ Recovered(Keeper(poll.cur)) \in Record(States)
      BY <1>1, KeeperType, InstancesAreNames DEF PollAdd, PollUpdate, IInv, NoInstance
    <2>2. CASE PollAdd
      <3>1. /\ records' = Store(records, poll.cur, Recovered(Keeper(poll.cur)), NextLease(nextLease))
            /\ excused' = excused \ {Keeper(poll.cur)}
        BY <1>1, <2>2, Zenon DEF PollAdd
      <3>2. records'[poll.cur].instance = Keeper(poll.cur)
        BY <1>0, <2>1, <3>1, StoredInstance DEF IInv
      <3> QED
        BY <2>1, <3>1, <3>2
    <2>3. CASE PollUpdate
      <3>1. \E st : records' = [records EXCEPT ![poll.cur] =
                                   Reconciled(records[poll.cur], Keeper(poll.cur), st)]
        BY <1>1, <2>3 DEF PollUpdate
      <3>2. records'[poll.cur].instance = Keeper(poll.cur)
        <4>1. PICK st : records' = [records EXCEPT ![poll.cur] =
                                       Reconciled(records[poll.cur], Keeper(poll.cur), st)]
          BY <3>1
        <4>2. Reconciled(records[poll.cur], Keeper(poll.cur), st).instance = Keeper(poll.cur)
          BY <1>0 DEF Reconciled, Record
        <4> QED
          BY <1>0, <4>1, <4>2
      <3>3. excused' = excused \ {Keeper(poll.cur)}
        BY <1>1, <2>3 DEF PollUpdate
      <3> QED
        BY <2>1, <3>2, <3>3
    <2> QED
      BY <1>1, <2>2, <2>3
  <1>2. PollAdd \/ PollUpdate \/ excused \subseteq excused'
    BY DEF PollStep, PollList, PollGet, PollBroadcast, PollAll, PollConfirm, PollForget,
           PollBroadcastDeleted, PollExpired, PollExpireUpdate, PollDone, PollPick, PollMissing,
           PollExpire, PollTerminateDuplicate, history
  <1> QED
    BY <1>1, <1>2 DEF Held

\* The one step that takes the instance of a VM off the record while it may
\* still exist excuses that VM, and it is the only one the sandbox has.
LEMMA PollKeeps ==
    ASSUME OneVMPerSandbox, IInv, CountsAreSound, Kept, serving, PollStep
    PROVE  Kept'
  <1>0. /\ vms \in [Instances -> VM] /\ records \in [Sandboxes -> Record(States)]
        /\ poll.cur \in Sandboxes
        /\ \A w \in Instances : SandboxOf[w] \in Sandboxes
    BY VMsAreAnnotated DEF IInv, TypeOK, ThreadType, PollState, ClusterType, RegistryType
  <1>1. NothingRevives /\ UNCHANGED create
    BY <1>0, PollWanes, PollFrame
  <1>2. CASE PollForget /\ ForgetAllowed(records[poll.cur], poll.snap[poll.cur])
    <2>1. /\ excused' = IF Exists(vms, records[poll.cur].instance)
                          THEN excused \cup {records[poll.cur].instance} ELSE excused
          /\ records' = [records EXCEPT ![poll.cur] = NoRecord] /\ UNCHANGED vms
      BY <1>2, Zenon DEF PollForget, Delete
    <2>2. ASSUME NEW v \in Instances, Alive(v), Held(SandboxOf[v]) PROVE Dealt(v)'
      <3>1. CASE SandboxOf[v] = poll.cur
        <4>1. records[poll.cur].instance = v
          BY <1>0, <2>2, <3>1 DEF CountsAreSound, OneVMPerSandbox, Held
        <4>2. Exists(vms, v)
          BY <2>2 DEF Alive, Exists
        <4> QED
          BY <2>1, <4>1, <4>2 DEF Dealt
      <3>2. CASE SandboxOf[v] # poll.cur
        BY <1>0, <2>1, <2>2, <3>2 DEF Dealt, Held
      <3> QED
        BY <3>1, <3>2
    <2> QED
      BY <1>1, <2>1, <2>2, KeptGoesOn DEF Dealt
  <1>3. CASE ~(PollForget /\ ForgetAllowed(records[poll.cur], poll.snap[poll.cur]))
    <2>1. \A s \in Sandboxes : Held(s) => Held(s)'
      BY <1>3, PollHolds
    <2> QED
      BY <1>0, <1>1, <2>1, PollExcuses, KeptGoesOn DEF Dealt
  <1> QED
    BY <1>2, <1>3

LEMMA EnvironmentKeeps ==
    ASSUME IInv, NobodyRevives, Kept, Environment, ~Restart
    PROVE  Kept'
  <1>0. vms \in [Instances -> VM]
    BY DEF IInv, TypeOK, ClusterType
  <1>1. ASSUME NEW l \in late, ApplyLate(l) PROVE Kept'
    <2>1. UNCHANGED <<records, create>>
      BY <1>1 DEF ApplyLate, registry
    <2>2. ASSUME NEW v \in Instances PROVE Dealt(v)'
      <3>1. v \in excused' \/ (Dealt(v) /\ vms'[v] = vms[v] /\ excused \subseteq excused')
        BY <1>0, <1>1, LateMakesOne DEF Kept
      <3> QED
        BY <2>1, <3>1 DEF Dealt, Alive, Held, LaunchedBySomeone
    <2> QED
      BY <2>2 DEF Kept
  <1> SUFFICES ASSUME \A l \in late : ~ApplyLate(l) PROVE Kept'
    BY <1>1
  <1>2. NothingRevives /\ UNCHANGED <<records, create>>
    BY <1>0, EnvironmentWanes, EnvironmentFrame
  <1>3. \A v \in Instances : v \in excused => v \in excused' \/ ~Alive(v)'
    <2>1. ASSUME NEW w \in Instances, VMGone(w)
          PROVE  \A v \in Instances : v \in excused => v \in excused' \/ ~Alive(v)'
      BY <1>0, <2>1 DEF VMGone, Alive, NoVM
    <2> QED
      BY <2>1 DEF Environment, Tick, VMChanges, history
  <1> QED
    BY <1>2, <1>3, KeptGoesOn DEF Dealt, Held

-----------------------------------------------------------------------------
(* The driver starts reconciled.                                            *)

FirstPcs == {"reconcile", "duplicates", "add", "update", "broadcast"}

\* The sandbox of a VM is still to be looked at, is being looked at, or has
\* an instance on record.
Covered(v) == \/ SandboxOf[v] \in poll.todo
              \/ Held(SandboxOf[v])
              \/ SandboxOf[v] = poll.cur /\ poll.pc \in {"duplicates", "add"}

FirstPart == /\ Tracked(records) \subseteq poll.seen
             /\ poll.pc \in {"duplicates", "add"} => poll.cur \in poll.seen
             /\ \A v \in Instances : Exists(vms, v) => Covered(v) \/ v \in excused
AllAreHeld == \A v \in Instances : Exists(vms, v) => Held(SandboxOf[v]) \/ v \in excused
ExcusesHold == \A v \in Instances : v \in excused => v \in excused' \/ Held(SandboxOf[v])'
TrackedAreHeld == \A s \in Tracked(records) : Held(s)

\* What holds before the server listens: nobody calls, the first poll starts
\* from an empty registry, tracks what it finds, and so has nothing to forget.
\* A VM the API server makes after the list was read is excused.
StartingUp == /\ \A p \in Rpcs : rpc[p] = IdleRpc
              /\ TrackedAreHeld
              /\ poll.pc = "idle" => Tracked(records) = {}
              /\ poll.pc \in FirstPcs => FirstPart
              /\ poll.pc \notin FirstPcs \cup {"idle"} => AllAreHeld
              /\ poll.pc = "missing" => poll.todo = {}
              /\ poll.pc \notin {"confirm", "forget", "deleted"}

\* The first part of the poll goes on.
LEMMA FirstPartGoesOn ==
    ASSUME StartingUp, poll.pc \in FirstPcs, Wanes, UNCHANGED rpc,
           poll'.pc \in FirstPcs,
           TrackedAreHeld', Tracked(records)' \subseteq poll'.seen,
           poll'.pc \in {"duplicates", "add"} => poll'.cur \in poll'.seen,
           ExcusesHold, \A v \in Instances : Covered(v) => Covered(v)'
    PROVE  StartingUp'
  <1>1. FirstPart'
    BY DEF StartingUp, FirstPart, Wanes, ExcusesHold, Covered
  <1> QED
    BY <1>1 DEF StartingUp, FirstPcs

\* The last part of the poll: whatever exists is on record, and stays so.
LEMMA LastPartGoesOn ==
    ASSUME StartingUp, UNCHANGED rpc, AllAreHeld', TrackedAreHeld',
           poll'.pc \in {"missing", "expire", "expireUpdate", "expireBroadcast"},
           poll'.pc = "missing" => poll'.todo = {}
    PROVE  StartingUp'
  BY DEF StartingUp, FirstPcs

\* Back to the beginning.
LEMMA StartsOver ==
    ASSUME \A p \in Rpcs : rpc'[p] = IdleRpc, poll' = IdlePoll, records' = NewRegistry
    PROVE  StartingUp'
  BY IdleTypes DEF StartingUp, TrackedAreHeld, Tracked, NewRegistry, FirstPcs

\* A poll step that changes no record.
LEMMA UnchangedHold ==
    ASSUME StartingUp, records' = records
    PROVE  TrackedAreHeld' /\ Tracked(records)' = Tracked(records)
           /\ \A s : Held(s)' = Held(s)
  BY DEF StartingUp, TrackedAreHeld, Tracked, Held

\* A poll step that edits a record keeps its instance and adds no record.
LEMMA EditedHold ==
    ASSUME TypeOK, StartingUp, NEW s \in Sandboxes, NEW r \in Record(States),
           records' = [records EXCEPT ![s] = r], r.lease = records[s].lease,
           Held(s) => r.instance # NoInstance
    PROVE  TrackedAreHeld' /\ Tracked(records)' = Tracked(records)
           /\ \A t \in Sandboxes : Held(t) => Held(t)'
  <1>1. \A t \in Sandboxes : records'[t] = IF t = s THEN r ELSE records[t]
    BY DEF TypeOK, RegistryType
  <1> QED
    BY <1>1 DEF StartingUp, TrackedAreHeld, Tracked, Held

\* While the driver starts, only the reconciler and the cluster act.
LEMMA OnlyThePollActs ==
    ASSUME NobodyCallsEarly, StartingUp, ~serving, Next
    PROVE  PollStep \/ Environment
  <1>1. ASSUME NEW c \in Creates, CreateStep(c) PROVE FALSE
    <2>1. create[c].pc = "idle"
      BY IdleTypes DEF NobodyCallsEarly
    <2> QED
      BY <1>1, <2>1 DEF CreateStep, CreateReserve, CreateLaunchRefused, CreateLaunch,
                        CreateUnanswered, CreateLaunchFails, CreateCommit, CreateCompensate, CreateRollback,
                        CreateBroadcast
  <1>2. ASSUME NEW p \in Rpcs, RpcStep(p) PROVE FALSE
    <2>1. rpc[p].pc = "idle"
      BY IdleTypes DEF StartingUp
    <2> QED
      BY <1>2, <2>1 DEF RpcStep, DeleteScan, DeleteMark, DeletePass, RpcStart, ResolveRegistry,
                        ResolveList, ResolveAdd, ResolveAdopt, ResolveReread, RpcCall,
                        RpcCallFails, RpcUpdate, RpcBroadcast
  <1> QED
    BY <1>1, <1>2 DEF Next

\* The first poll puts an instance of every sandbox the list mentions on
\* record before it looks for those that are missing.
LEMMA PollStartsUp ==
    ASSUME IInv, StartingUp, ~serving, PollStep, ~serving'
    PROVE  StartingUp'
  <1>0. /\ poll \in PollState /\ poll.cur \in Sandboxes
        /\ vms \in [Instances -> VM] /\ TypeOK /\ PollOnTrack
        /\ records \in [Sandboxes -> Record(States)] /\ nextLease \in Nat
        /\ \A v \in Instances : SandboxOf[v] \in Sandboxes
    BY VMsAreAnnotated DEF IInv, TypeOK, ThreadType, ClusterType, RegistryType, PollState
  <1>1. Wanes /\ ExcusesHold /\ UNCHANGED rpc
    BY <1>0, PollWanes, PollExcuses, PollFrame DEF ExcusesHold
  <1>2. \A p \in Rpcs : rpc'[p] = IdleRpc
    BY <1>1 DEF StartingUp
  <1>3. ASSUME PollReturnsError PROVE StartingUp'
    BY <1>2, <1>3, StartsOver DEF PollReturnsError
  <1>4. CASE PollList
    <2>1. /\ poll'.pc = "reconcile" /\ poll.pc = "idle"
          /\ poll'.todo = {s \in Sandboxes : \E v \in Instances : SandboxOf[v] = s /\ Exists(vms, v)}
          /\ records' = records /\ vms' = vms
      BY <1>0, <1>4 DEF PollList, PollState, registry
    <2>2. Tracked(records)' = {}
      BY <2>1 DEF StartingUp, Tracked
    <2>3. FirstPart'
      BY <1>0, <2>1, <2>2 DEF FirstPart, Covered, Exists
    <2> QED
      BY <1>2, <2>1, <2>2, <2>3 DEF StartingUp, TrackedAreHeld, FirstPcs
  <1>5. ASSUME NEW v \in Instances, PollTerminateDuplicate(v) PROVE StartingUp'
    <2>1. CASE PollReturnsError
      BY <1>3, <2>1
    <2>2. CASE ~PollReturnsError
      <3>1. /\ poll'.pc = poll.pc /\ poll'.todo = poll.todo /\ poll'.seen = poll.seen
            /\ poll'.cur = poll.cur /\ poll.pc = "duplicates" /\ records' = records
        BY <1>0, <1>5, <2>2 DEF PollTerminateDuplicate, PollState
      <3> QED
        BY <1>1, <3>1, UnchangedHold, FirstPartGoesOn
           DEF StartingUp, FirstPart, Covered, FirstPcs
    <2> QED
      BY <2>1, <2>2
  <1>6. CASE PollGet
    <2>1. /\ poll'.todo = poll.todo /\ poll'.seen = poll.seen
          /\ poll'.cur = poll.cur /\ poll.pc = "duplicates" /\ records' = records
          /\ \/ poll'.pc = "add"
             \/ poll'.pc \in {"update", "reconcile"} /\ poll.cur \in Tracked(records)
      <3>1. \/ poll' = [poll EXCEPT !.pc = "add"]
            \/ poll.cur \in Tracked(records) /\ poll' = [poll EXCEPT !.pc = "reconcile"]
            \/ poll.cur \in Tracked(records)
               /\ poll' = [poll EXCEPT !.pc = "update", !.snap[poll.cur] = records[poll.cur]]
        BY <1>6 DEF PollGet
      <3>2. poll.pc = "duplicates" /\ records' = records
        BY <1>6 DEF PollGet, registry
      <3> QED
        BY <1>0, <3>1, <3>2 DEF PollState
    <2>2. poll.cur \in Tracked(records) => Held(poll.cur)
      BY DEF StartingUp, TrackedAreHeld
    <2>3. \A v \in Instances : Covered(v) => Covered(v)'
      BY <2>1, <2>2, UnchangedHold DEF Covered
    <2> QED
      BY <1>1, <2>1, <2>3, UnchangedHold, FirstPartGoesOn DEF StartingUp, FirstPart, FirstPcs
  <1>7. CASE PollAdd
    <2>1. CASE PollReturnsError
      BY <1>3, <2>1
    <2>2. CASE ~PollReturnsError
      <3>1. /\ poll'.pc = "broadcast" /\ poll'.todo = poll.todo
            /\ poll'.seen = poll.seen /\ poll'.cur = poll.cur /\ poll.pc = "add"
        BY <1>0, <1>7, <2>2 DEF PollAdd, PollState
      <3>2. PICK r \in Record(States) : records' = [records EXCEPT ![poll.cur] = r]
                                        /\ r.instance # NoInstance
        <4>1. /\ Recovered(Keeper(poll.cur)) \in Record(States)
              /\ Recovered(Keeper(poll.cur)).instance # NoInstance
          BY <1>0, <1>7, KeeperType, InstancesAreNames DEF PollAdd, NoInstance
        <4>2. records' = Store(records, poll.cur, Recovered(Keeper(poll.cur)), NextLease(nextLease))
          BY <1>7, <2>2, Zenon DEF PollAdd
        <4>3. NextLease(nextLease) \in Nat
          BY <1>0 DEF NextLease
        <4>4. PICK r \in Record(States) : Replaced(poll.cur, r)
                                          /\ r.instance = Recovered(Keeper(poll.cur)).instance
          BY <1>0, <4>1, <4>2, <4>3, StoreReplaces
        <4> QED
          BY <4>1, <4>4 DEF Replaced
      <3>3. \A s \in Sandboxes : records'[s] = IF s = poll.cur THEN r ELSE records[s]
        BY <1>0, <3>2
      <3>4. /\ Tracked(records)' \subseteq Tracked(records) \cup {poll.cur}
            /\ TrackedAreHeld'
            /\ \A s \in Sandboxes : Held(s) \/ s = poll.cur => records'[s].instance # NoInstance
        BY <3>2, <3>3 DEF StartingUp, TrackedAreHeld, Tracked, Held
      <3>5. \A v \in Instances : Covered(v) => Covered(v)'
        BY <1>0, <3>1, <3>4 DEF Covered, Held
      <3> QED
        BY <1>1, <3>1, <3>4, <3>5, FirstPartGoesOn DEF StartingUp, FirstPart, FirstPcs
    <2> QED
      BY <2>1, <2>2
  <1>8. CASE PollUpdate
    <2>1. /\ poll'.pc \in {"reconcile", "broadcast"} /\ poll'.todo = poll.todo
          /\ poll'.seen = poll.seen /\ poll'.cur = poll.cur /\ poll.pc = "update"
      BY <1>0, <1>8 DEF PollUpdate, PollState
    <2>2. /\ TrackedAreHeld' /\ Tracked(records)' = Tracked(records)
          /\ \A s \in Sandboxes : Held(s) => Held(s)'
      <3>1. CASE records' = records
        BY <3>1, UnchangedHold
      <3>2. ASSUME ~UNCHANGED records
            PROVE  \E r \in Record(States) :
                      /\ records' = [records EXCEPT ![poll.cur] = r]
                      /\ r.lease = records[poll.cur].lease
                      /\ r.instance # NoInstance
        <4> DEFINE observed == ObservedState(poll.snap[poll.cur], poll.listed[Keeper(poll.cur)].state)
                   r == Reconciled(records[poll.cur], Keeper(poll.cur), observed)
        <4>1. /\ Keeper(poll.cur) \in Instances /\ Keeper(poll.cur) # NoInstance
              /\ poll.listed[Keeper(poll.cur)] \in VM
          BY <1>0, <1>8, KeeperType, InstancesAreNames DEF PollUpdate, NoInstance
        <4>2. observed \in States
          BY <4>1 DEF ObservedState, VM, States
        <4>3. records' = [records EXCEPT ![poll.cur] = r]
          BY <1>8, <3>2 DEF PollUpdate
        <4> HIDE DEF observed
        <4>4. r \in Record(States) /\ r.lease = records[poll.cur].lease /\ r.instance # NoInstance
          BY <1>0, <4>1, <4>2 DEF Reconciled, Record, VM
        <4> HIDE DEF r
        <4> QED
          BY <4>3, <4>4
      <3> QED
        BY <1>0, <3>1, <3>2, EditedHold
    <2>3. \A v \in Instances : Covered(v) => Covered(v)'
      BY <1>0, <2>1, <2>2 DEF Covered
    <2> QED
      BY <1>1, <2>1, <2>2, <2>3, FirstPartGoesOn DEF StartingUp, FirstPart, FirstPcs
  <1>9. CASE PollBroadcast \/ PollBroadcastDeleted
    <2>1. /\ poll'.todo = poll.todo /\ poll'.seen = poll.seen
          /\ poll'.cur = poll.cur /\ records' = records
          /\ \/ poll.pc = "broadcast" /\ poll'.pc = "reconcile"
             \/ poll.pc = "expireBroadcast" /\ poll'.pc = "expire"
      <3>1. poll.pc # "deleted"
        BY DEF StartingUp
      <3>2. \/ poll.pc = "broadcast" /\ poll' = [poll EXCEPT !.pc = "reconcile"]
            \/ poll.pc = "expireBroadcast" /\ poll' = [poll EXCEPT !.pc = "expire"]
        BY <1>9, <3>1 DEF PollBroadcast, PollBroadcastDeleted
      <3>3. records' = records
        BY <1>9 DEF PollBroadcast, PollBroadcastDeleted, registry
      <3> QED
        BY <1>0, <3>2, <3>3 DEF PollState
    <2>2. CASE poll'.pc = "reconcile"
      BY <1>1, <2>1, <2>2, UnchangedHold, FirstPartGoesOn
         DEF StartingUp, FirstPart, Covered, FirstPcs
    <2>3. CASE poll'.pc = "expire"
      BY <1>1, <2>1, <2>3, UnchangedHold, LastPartGoesOn
         DEF StartingUp, AllAreHeld, ExcusesHold, Wanes, FirstPcs
    <2> QED
      BY <2>1, <2>2, <2>3
  <1>10. CASE PollAll
    <2>1. /\ poll.pc = "reconcile" /\ poll.todo = {} /\ records' = records
          /\ poll'.pc = "missing"
          /\ poll'.todo = {s \in Tracked(records) : records[s].instance # NoInstance
                                                    /\ s \notin poll.seen}
      BY <1>10 DEF PollAll, IdlePoll, registry
    <2>2. FirstPart
      BY <2>1 DEF StartingUp, FirstPcs
    <2>3. poll'.todo = {}
      BY <2>1, <2>2 DEF FirstPart
    <2>4. AllAreHeld'
      BY <1>1, <2>1, <2>2, UnchangedHold DEF Wanes, ExcusesHold, FirstPart, Covered, AllAreHeld
    <2> QED
      BY <1>1, <2>1, <2>3, <2>4, UnchangedHold, LastPartGoesOn
  <1>11. CASE PollExpired \/ \E s \in Sandboxes : PollExpire(s)
    <2>1. /\ poll.pc \in {"missing", "expire"} /\ poll'.pc \in {"expire", "expireUpdate"}
          /\ records' = records
      <3>1. CASE PollExpired
        BY <3>1 DEF PollExpired, IdlePoll, registry
      <3>2. ASSUME NEW s \in Sandboxes, PollExpire(s)
            PROVE  poll.pc = "expire" /\ poll'.pc \in {"expire", "expireUpdate"} /\ records' = records
        <4>1. \/ poll' = [poll EXCEPT !.todo = @ \ {s}, !.cur = s, !.pc = "expireUpdate"]
              \/ poll' = [poll EXCEPT !.todo = @ \ {s}, !.snap[s] = NoRecord]
          BY <3>2 DEF PollExpire
        <4>2. poll.pc = "expire" /\ records' = records
          BY <3>2 DEF PollExpire, registry
        <4> QED
          BY <1>0, <4>1, <4>2 DEF PollState
      <3> QED
        BY <1>11, <3>1, <3>2
    <2> QED
      BY <1>1, <2>1, UnchangedHold, LastPartGoesOn DEF StartingUp, AllAreHeld, ExcusesHold, Wanes, FirstPcs
  <1>12. CASE PollExpireUpdate
    <2>1. poll.pc = "expireUpdate" /\ poll'.pc \in {"expireBroadcast", "expire"}
      BY <1>0, <1>12 DEF PollExpireUpdate, PollState
    <2>2. /\ TrackedAreHeld' /\ \A s \in Sandboxes : Held(s) => Held(s)'
      <3>1. CASE records' = records
        BY <3>1, UnchangedHold
      <3>2. ASSUME ~UNCHANGED records
            PROVE  \E r \in Record(States) :
                      /\ records' = [records EXCEPT ![poll.cur] = r]
                      /\ r.lease = records[poll.cur].lease
                      /\ r.instance = records[poll.cur].instance
        <4> DEFINE r == [records[poll.cur] EXCEPT !.state = "deleting"]
        <4>1. records' = [records EXCEPT ![poll.cur] = r]
          BY <1>12, <3>2 DEF PollExpireUpdate
        <4>2. r \in Record(States) /\ r.lease = records[poll.cur].lease
              /\ r.instance = records[poll.cur].instance
          BY <1>0 DEF Record, States
        <4> HIDE DEF r
        <4> QED
          BY <4>1, <4>2
      <3> QED
        BY <1>0, <3>1, <3>2, EditedHold DEF Held
    <2> QED
      BY <1>0, <1>1, <2>1, <2>2, LastPartGoesOn DEF StartingUp, AllAreHeld, ExcusesHold, Wanes, FirstPcs
  <1>13. ASSUME NEW s \in Sandboxes, PollPick(s) PROVE StartingUp'
    <2>1. /\ poll'.todo = poll.todo \ {s} /\ poll'.seen = poll.seen \cup {s} /\ poll'.cur = s
          /\ poll'.pc = "duplicates" /\ poll.pc = "reconcile" /\ records' = records
      BY <1>0, <1>13 DEF PollPick, PollState, registry
    <2> QED
      BY <1>1, <2>1, UnchangedHold, FirstPartGoesOn DEF StartingUp, FirstPart, Covered, FirstPcs
  <1>14. CASE PollDone
    BY <1>14 DEF PollDone
  <1>15. CASE PollConfirm \/ PollForget \/ \E s \in Sandboxes : PollMissing(s)
    BY <1>15 DEF PollConfirm, PollForget, PollMissing, StartingUp
  <1> QED
    BY <1>4, <1>5, <1>6, <1>7, <1>8, <1>9, <1>10, <1>11, <1>12, <1>13, <1>14, <1>15 DEF PollStep

-----------------------------------------------------------------------------
(* The invariant of the VMs and its theorem.                                *)

VMInv == (~serving => StartingUp) /\ (serving => Kept)

\* Of all steps only the end of the first poll makes the server listen.
LEMMA OnlyTheFirstPollServes ==
    ASSUME Next, ~Restart
    PROVE  UNCHANGED serving \/ PollDone
  BY CreateFrame, RpcFrame, PollFrame, EnvironmentFrame DEF Next

LEMMA InitVM == Init => VMInv
  BY IdleTypes DEF Init, VMInv, StartingUp, TrackedAreHeld, Tracked, NewRegistry, FirstPcs

\* Whatever the environment does, a VM that exists afterwards existed before or
\* is excused, and it keeps an excuse as long as it exists.
LEMMA LateExcuses ==
    ASSUME IInv, Environment, ~Restart
    PROVE  \A v \in Instances : Exists(vms, v)' =>
              v \in excused' \/ (Exists(vms, v) /\ v \notin excused)
  <1>0. vms \in [Instances -> VM]
    BY DEF IInv, TypeOK, ClusterType
  <1>1. ASSUME NEW l \in late, ApplyLate(l)
        PROVE  \A v \in Instances : Exists(vms, v)' =>
                  v \in excused' \/ (Exists(vms, v) /\ v \notin excused)
    BY <1>0, <1>1, LateMakesOne DEF Exists
  <1>2. ASSUME NEW w \in Instances, VMGone(w)
        PROVE  /\ ~Exists(vms, w)' /\ excused' = excused \ {w}
               /\ \A v \in Instances \ {w} : vms'[v] = vms[v]
    BY <1>0, <1>2 DEF VMGone, Exists, NoVM
  <1>3. CASE \A l \in late : ~ApplyLate(l)
    <2>1. Wanes
      BY <1>0, <1>3, EnvironmentWanes
    <2>2. UNCHANGED excused \/ \E w \in Instances : VMGone(w)
      BY <1>3 DEF Environment, Tick, VMChanges, history
    <2> QED
      BY <1>2, <2>1, <2>2 DEF Wanes, Exists
  <1> QED
    BY <1>1, <1>3

LEMMA StepStartingUp ==
    ASSUME IInv, ~serving => StartingUp, [Next]_vars, ~serving'
    PROVE  StartingUp'
  <1>1. CASE Restart
    BY <1>1, StartsOver DEF Restart
  <1>2. CASE ~Restart /\ Next
    <2>1. ~serving
      BY <1>2, OnlyTheFirstPollServes DEF PollDone
    <2>2. PollStep \/ Environment
      BY <1>2, <2>1, OnlyThePollActs DEF IInv
    <2>3. CASE PollStep
      BY <2>1, <2>3, PollStartsUp
    <2>4. CASE Environment
      <3>1. UNCHANGED <<records, rpc, poll>>
        BY <1>2, <2>4, EnvironmentFrame
      <3>2. \A v \in Instances : Exists(vms, v)' =>
               v \in excused' \/ (Exists(vms, v) /\ v \notin excused)
        BY <1>2, <2>4, LateExcuses
      <3> QED
        BY <2>1, <3>1, <3>2 DEF StartingUp, TrackedAreHeld, FirstPart, AllAreHeld, Covered, Held,
                                Tracked
    <2> QED
      BY <2>2, <2>3, <2>4
  <1>3. CASE UNCHANGED vars
    BY <1>3 DEF vars, StartingUp, TrackedAreHeld, FirstPart, AllAreHeld, Covered, Held,
                Tracked, Exists
  <1> QED
    BY <1>1, <1>2, <1>3

LEMMA StepKept ==
    ASSUME NobodyRevives, OneVMPerSandbox, IInv, CountsAreSound, VMInv, [Next]_vars, serving'
    PROVE  Kept'
  <1>1. ~Restart
    BY DEF Restart
  <1>2. CASE Next /\ serving
    <2>1. Kept
      BY <1>2 DEF VMInv
    <2> QED
      BY <1>1, <1>2, <2>1, CreateKeeps, RpcKeeps, PollKeeps, EnvironmentKeeps DEF Next
  <1>3. CASE Next /\ ~serving
    <2>1. PollDone
      BY <1>1, <1>3, OnlyTheFirstPollServes
    <2>2. AllAreHeld /\ UNCHANGED <<vms, records, excused>>
      BY <1>3, <2>1 DEF PollDone, VMInv, StartingUp, FirstPcs, registry, history
    <2> QED
      BY <2>2 DEF AllAreHeld, Kept, Dealt, Held, Alive, Exists
  <1>4. CASE UNCHANGED vars
    BY <1>4 DEF vars, VMInv, Kept, Dealt, Alive, Held, LaunchedBySomeone
  <1> QED
    BY <1>2, <1>3, <1>4

\* While the driver serves, every VM that is not going away is tracked, or
\* the create that launched it is still in flight, or a call reported the
\* failure that left it behind, or the API server made it long after it was
\* asked: for any number of sandboxes, concurrent calls and crashes, whatever
\* VMs earlier lives left and whatever creates they left under way, provided
\* a deletion is not taken back and no foreign VM carries a sandbox's
\* annotations.
THEOREM NoVMIsLost ==
    ASSUME NobodyRevives, OneVMPerSandbox
    PROVE  Spec => []NoUntrackedVM
  <1>1. IInv /\ CountsAreSound /\ VMInv /\ [Next]_vars => CountsAreSound' /\ VMInv'
    BY StepCounts, StepStartingUp, StepKept DEF VMInv
  <1>2. Init => CountsAreSound /\ VMInv
    BY InitCounts, InitVM
  <1>3. IInv /\ VMInv => NoUntrackedVM
    <2> SUFFICES ASSUME IInv, Kept, NEW v \in Instances, Alive(v), v \notin excused
                 PROVE  SandboxOf[v] \in Tracked(records) \/ LaunchedBySomeone(v)
      BY DEF VMInv, NoUntrackedVM
    <2>1. CASE Held(SandboxOf[v])
      BY <2>1, VMsAreAnnotated, IdleTypes DEF IInv, AbsentIsZero, Held, Tracked
    <2>2. CASE ~Held(SandboxOf[v])
      BY <2>2 DEF Kept, Dealt
    <2> QED
      BY <2>1, <2>2
  <1> QED
    BY <1>1, <1>2, <1>3, Invariance, PTL DEF Spec

-----------------------------------------------------------------------------
(* No record escapes the age limit.                                         *)

\* Only VMs of earlier lives lack a creation time, and the first poll puts
\* them on record with a time of its own.
Undated(v) == Exists(vms, v) /\ vms[v].createdAt = ZeroTime
UndatedAreHeld == serving => \A v \in Instances : Undated(v) => Held(SandboxOf[v])

\* So no poll misses one of them, and no call finds one by listing.
NoneMissesUndated ==
    \A v \in Instances : Undated(v) =>
        /\ poll.pc \in FirstPcs => SandboxOf[v] \in poll.todo \cup poll.seen
        /\ poll.pc \in {"missing", "confirm", "forget", "deleted"} => SandboxOf[v] \notin poll.todo
        /\ poll.pc \in {"confirm", "forget"} => SandboxOf[v] # poll.cur
        /\ \A p \in Rpcs : rpc[p].pc = "list" => SandboxOf[v] \notin rpc[p].target

\* What a call writes into a record has a creation time.
CallsAreDated == /\ \A p \in Rpcs : rpc[p].pc \in {"add", "adopt"} => rpc[p].found.createdAt # ZeroTime
                 /\ \A c \in Creates : create[c].pc # "idle" => create[c].vm.createdAt # ZeroTime
                 /\ \A l \in late : l.createdAt # ZeroTime

\* What the API server makes while the driver starts has a creation time too.
ExcusedAreDated == ~serving => \A v \in excused : ~Undated(v)

AgeInv == /\ ~serving => StartingUp
          /\ ExcusedAreDated
          /\ UndatedAreHeld
          /\ NoneMissesUndated
          /\ CallsAreDated
          /\ EveryRecordAges

\* A launch gives the VM a creation time, so no VM becomes undated.
LEMMA UndatedFade ==
    ASSUME IInv, CallsAreDated, [Next]_vars
    PROVE  \A v \in Instances : Undated(v)' => Undated(v)
  <1>0. vms \in [Instances -> VM]
    BY DEF IInv, TypeOK, ClusterType
  <1>1. ASSUME Wanes PROVE \A v \in Instances : Undated(v)' => Undated(v)
    BY <1>1 DEF Wanes, Undated
  <1>2. ASSUME NEW c \in Creates, CreateLaunch(c)
        PROVE  \A v \in Instances : Undated(v)' => Undated(v)
    <2>1. PICK vm \in LaunchResult(c) : vms' = [vms EXCEPT ![VMName[create[c].sandbox]] = vm]
      BY <1>2 DEF CreateLaunch
    <2>2. vm.createdAt # ZeroTime
      <3>1. create[c].vm \in VM /\ create[c].vm.createdAt # ZeroTime
        BY <1>2 DEF CreateLaunch, CallsAreDated, IInv, TypeOK, ThreadType, CreateCall
      <3>2. [create[c].vm EXCEPT !.state = "Starting"].createdAt = create[c].vm.createdAt
        BY <3>1 DEF VM
      <3> QED
        BY <2>1, <3>1, <3>2 DEF LaunchResult
    <2>3. \A v \in Instances : vms'[v] = vms[v] \/ vms'[v] = vm
      BY <1>0, <2>1
    <2> QED
      BY <2>2, <2>3 DEF Undated, Exists
  <1>3. ASSUME NEW c \in Creates, CreateStep(c), ~CreateLaunch(c) PROVE Wanes
    <2>1. UNCHANGED vms \/ \E v : vms' = Terminate(vms, v)
      BY <1>3 DEF CreateStep, CreateReserve, CreateLaunchRefused, CreateUnanswered, CreateLaunchFails, CreateCommit,
                  CreateCompensate, CreateRollback, CreateBroadcast
    <2> QED
      BY <1>0, <2>1, CallsWane
  <1>4. CASE UNCHANGED vars
    BY <1>4 DEF vars, Undated, Exists
  <1>5. ASSUME NEW l \in late, ApplyLate(l) PROVE \A v \in Instances : Undated(v)' => Undated(v)
    BY <1>0, <1>5, LateMakesOne DEF CallsAreDated, Undated, Exists
  <1> QED
    BY <1>0, <1>1, <1>2, <1>3, <1>4, <1>5, RpcWanes, PollWanes, EnvironmentWanes DEF Next

LEMMA UndatedAreHeldStep ==
    ASSUME IInv, AgeInv, [Next]_vars
    PROVE  UndatedAreHeld'
  <1>0. \A v \in Instances : SandboxOf[v] \in Sandboxes
    BY VMsAreAnnotated
  <1>1. \A v \in Instances : Undated(v)' => Undated(v)
    BY UndatedFade DEF AgeInv
  <1>2. ASSUME UNCHANGED serving, \A s \in Sandboxes : Held(s) => Held(s)' PROVE UndatedAreHeld'
    BY <1>0, <1>1, <1>2 DEF AgeInv, UndatedAreHeld
  <1>3. CASE \/ \E c \in Creates : CreateStep(c)
             \/ \E p \in Rpcs : RpcStep(p)
    BY <1>2, <1>3, CallsHold, CreateFrame, RpcFrame
  <1>4. CASE PollStep
    <2>1. CASE PollDone /\ ~serving
      <3>1. AllAreHeld /\ ExcusedAreDated /\ UNCHANGED records
        BY <2>1 DEF PollDone, AgeInv, StartingUp, FirstPcs, registry
      <3> QED
        BY <1>1, <2>1, <3>1 DEF AllAreHeld, ExcusedAreDated, Undated, UndatedAreHeld, Held
    <2>2. CASE ~serving /\ ~serving'
      BY <2>2 DEF UndatedAreHeld
    <2>3. CASE serving /\ UNCHANGED serving
      <3>1. CASE PollForget /\ Replaced(poll.cur, NoRecord)
        <4>1. \A v \in Instances : Undated(v) => SandboxOf[v] # poll.cur
          BY <3>1 DEF AgeInv, NoneMissesUndated, PollForget
        <4>2. \A s \in Sandboxes \ {poll.cur} : records'[s] = records[s]
          BY <3>1 DEF Replaced, IInv, TypeOK, RegistryType
        <4> QED
          BY <1>0, <1>1, <2>3, <4>1, <4>2 DEF AgeInv, UndatedAreHeld, Held
      <3> QED
        BY <1>2, <1>4, <2>3, <3>1, PollHolds
    <2>4. serving \in BOOLEAN /\ (PollDone => serving')
      BY Zenon DEF PollDone, IInv, TypeOK, ThreadType
    <2> QED
      BY <1>4, <2>1, <2>2, <2>3, <2>4, PollFrame
  <1>5. CASE Environment
    <2>1. CASE Restart
      BY <2>1 DEF Restart, UndatedAreHeld
    <2> QED
      BY <1>2, <1>5, <2>1, EnvironmentFrame DEF Held
  <1>6. CASE UNCHANGED vars
    BY <1>2, <1>6 DEF vars, Held
  <1> QED
    BY <1>3, <1>4, <1>5, <1>6 DEF Next

\* While the driver starts only the API server excuses a VM: one it makes late.
LEMMA ExcusedAreDatedStep ==
    ASSUME IInv, AgeInv, [Next]_vars
    PROVE  ExcusedAreDated'
  <1>0. vms \in [Instances -> VM] /\ excused \subseteq Instances
    BY DEF IInv, TypeOK, ClusterType, HistoryType
  <1>1. \A v \in Instances : Undated(v)' => Undated(v)
    BY UndatedFade DEF AgeInv
  <1>2. CASE Restart
    BY <1>2 DEF Restart, ExcusedAreDated
  <1>3. ASSUME ~Restart, ~serving', Next PROVE \A v \in excused' : ~Undated(v)'
    <2>1. ~serving
      BY <1>3, OnlyTheFirstPollServes DEF PollDone
    <2>2. \A v \in excused : ~Undated(v)
      BY <2>1 DEF AgeInv, ExcusedAreDated
    <2>3. PollStep \/ Environment
      BY <1>3, <2>1, OnlyThePollActs DEF IInv, AgeInv
    <2>4. CASE excused' \subseteq excused
      BY <1>0, <1>1, <2>2, <2>4
    <2>5. PollStep => excused' \subseteq excused
      <3>1. ~PollForget
        BY <2>1 DEF PollForget, AgeInv, StartingUp
      <3> QED
        BY <3>1 DEF PollStep, PollList, PollGet, PollAdd, PollUpdate, PollBroadcast, PollAll,
           PollConfirm, PollBroadcastDeleted, PollExpired, PollExpireUpdate, PollDone, PollPick,
           PollMissing, PollExpire, PollTerminateDuplicate, history
    <2>6. ASSUME NEW l \in late, ApplyLate(l) PROVE \A v \in excused' : ~Undated(v)'
      <3>1. \/ excused' = excused
            \/ /\ ~Exists(vms, l.vm) /\ excused' = excused \cup {l.vm} /\ l.vm \in Instances
        BY <2>6 DEF ApplyLate, IInv, TypeOK, ClusterType
      <3> QED
        BY <1>0, <1>1, <2>2, <3>1 DEF Undated
    <2>7. Environment => excused' \subseteq excused \/ \E l \in late : ApplyLate(l)
      BY <1>3 DEF Environment, Tick, VMChanges, VMGone, history
    <2> QED
      BY <2>3, <2>4, <2>5, <2>6, <2>7
  <1>4. CASE UNCHANGED vars
    BY <1>4 DEF vars, AgeInv, ExcusedAreDated, Undated, Exists
  <1> QED
    BY <1>2, <1>3, <1>4 DEF ExcusedAreDated

\* A call lists only when no sandbox it may mean has an instance on record.
LEMMA ListsNoUndated ==
    ASSUME IInv, AgeInv, [Next]_vars, NEW v \in Instances, Undated(v), NEW p \in Rpcs,
           rpc'[p].pc = "list"
    PROVE  SandboxOf[v] \notin rpc'[p].target
  <1>0. rpc \in [Rpcs -> RpcCallState] /\ rpc[p] \in RpcCallState
    BY DEF IInv, TypeOK, ThreadType
  <1>1. CASE rpc'[p] = rpc[p]
    BY <1>1 DEF AgeInv, NoneMissesUndated
  <1>2. CASE rpc'[p] = IdleRpc
    BY <1>2, IdleTypes
  <1>3. ASSUME NEW q \in Rpcs, RpcStep(q), q # p PROVE rpc'[p] = rpc[p]
    BY <1>0, <1>3 DEF RpcStep, DeleteScan, DeleteMark, DeletePass, RpcStart, ResolveRegistry,
       ResolveList, ResolveAdd, ResolveAdopt, ResolveReread, RpcCall, RpcCallFails, RpcUpdate,
       RpcBroadcast, Return, Resolved
  <1>4. CASE RpcStep(p)
    <2>1. CASE ResolveRegistry(p) /\ rpc' = [rpc EXCEPT ![p].pc = "list"]
               /\ {s \in rpc[p].target : records[s].instance # NoInstance} = {}
      <3>1. serving
        BY <2>1, IdleTypes DEF ResolveRegistry, AgeInv, StartingUp
      <3>2. Held(SandboxOf[v])
        BY <3>1 DEF AgeInv, UndatedAreHeld
      <3>3. rpc'[p].target = rpc[p].target
        BY <1>0, <2>1 DEF RpcCallState
      <3> QED
        BY <2>1, <3>2, <3>3 DEF Held
    <2>2. ASSUME NEW s, NEW i, Resolved(p, s, i) PROVE rpc'[p].pc # "list"
      BY <1>0, <2>2, IdleTypes DEF Resolved, RpcCallState
    <2>3. ASSUME Return(p) PROVE rpc'[p].pc # "list"
      BY <1>0, <2>3, IdleTypes DEF Return
    <2>4. ResolveRegistry(p) =>
            \/ rpc' = [rpc EXCEPT ![p].pc = "list"]
               /\ {s \in rpc[p].target : records[s].instance # NoInstance} = {}
            \/ rpc'[p].pc # "list"
      BY <2>2, <2>3 DEF ResolveRegistry
    <2>5. ASSUME ResolveList(p) PROVE rpc'[p].pc # "list"
      <3>1. \/ Return(p)
            \/ \E w \in Instances :
                 rpc' = [rpc EXCEPT ![p] = [rpc[p] EXCEPT !.pc = "add", !.instance = w,
                             !.sandbox = SandboxOf[w], !.target = {}, !.found = vms[w]]]
        BY <1>0, <2>5 DEF ResolveList
      <3> QED
        BY <1>0, <2>3, <3>1 DEF RpcCallState
    <2>6. ResolveAdd(p) \/ ResolveAdopt(p) \/ ResolveReread(p) => rpc'[p].pc # "list"
      BY <1>0, <2>2, <2>3 DEF ResolveAdd, ResolveAdopt, ResolveReread, RpcCallState
    <2>7. RpcCall(p) \/ RpcCallFails(p) \/ RpcUpdate(p) \/ RpcBroadcast(p) => rpc'[p].pc # "list"
      BY <1>0, <2>3 DEF RpcCall, RpcCallFails, RpcUpdate, RpcBroadcast, RpcCallState
    <2>8. ASSUME NEW T, DeleteScan(p, T) PROVE rpc'[p].pc # "list"
      BY <1>0, <2>8 DEF DeleteScan, RpcCallState
    <2>9. ASSUME NEW s, DeleteMark(p, s) PROVE rpc'[p].pc # "list"
      <3>1. rpc'[p] = [IdleRpc EXCEPT !.pc = "marked", !.op = "delete", !.sandbox = s]
        BY <1>0, <2>9 DEF DeleteMark
      <3> QED
        BY <3>1, IdleTypes DEF RpcCallState
    <2>10. ASSUME NEW s, DeletePass(p, s) PROVE rpc'[p].pc # "list"
      <3>1. \E pc \in {"resolve", "mark"} : \E scan :
               rpc' = [rpc EXCEPT ![p] = [rpc[p] EXCEPT !.pc = pc, !.scan = scan]]
        BY <1>0, <2>10 DEF DeletePass
      <3> QED
        BY <1>0, <3>1 DEF RpcCallState
    <2>11. ASSUME NEW op, NEW T, RpcStart(p, op, T) PROVE rpc'[p].pc # "list"
      <3>1. rpc' = [rpc EXCEPT ![p] = [rpc[p] EXCEPT !.pc = "resolve", !.op = op, !.target = T]]
        BY <1>0, <2>11 DEF RpcStart
      <3> QED
        BY <1>0, <3>1 DEF RpcCallState
    <2> QED
      BY <1>4, <2>1, <2>4, <2>5, <2>6, <2>7, <2>8, <2>9, <2>10, <2>11 DEF RpcStep
  <1>5. CASE UNCHANGED rpc
    BY <1>1, <1>5
  <1>6. UNCHANGED rpc \/ (\E q \in Rpcs : RpcStep(q)) \/ Restart
    BY CreateFrame, PollFrame, EnvironmentFrame DEF Next, vars
  <1>7. Restart => rpc'[p] = IdleRpc
    BY DEF Restart
  <1> QED
    BY <1>1, <1>2, <1>3, <1>4, <1>5, <1>6, <1>7

\* The list of a poll mentions every undated VM, so the poll misses none.
LEMMA PollSeesUndated ==
    ASSUME IInv, AgeInv, PollStep, NEW v \in Instances, Undated(v)
    PROVE  /\ poll'.pc \in FirstPcs => SandboxOf[v] \in poll'.todo \cup poll'.seen
           /\ poll'.pc \in {"missing", "confirm", "forget", "deleted"} => SandboxOf[v] \notin poll'.todo
           /\ poll'.pc \in {"confirm", "forget"} => SandboxOf[v] # poll'.cur
  <1> DEFINE P == /\ poll'.pc \in FirstPcs => SandboxOf[v] \in poll'.todo \cup poll'.seen
                  /\ poll'.pc \in {"missing", "confirm", "forget", "deleted"} => SandboxOf[v] \notin poll'.todo
                  /\ poll'.pc \in {"confirm", "forget"} => SandboxOf[v] # poll'.cur
  <1>0. /\ poll \in PollState /\ SandboxOf[v] \in Sandboxes
        /\ poll.pc \in FirstPcs => SandboxOf[v] \in poll.todo \cup poll.seen
        /\ poll.pc \in {"missing", "confirm", "forget", "deleted"} => SandboxOf[v] \notin poll.todo
        /\ poll.pc \in {"confirm", "forget"} => SandboxOf[v] # poll.cur
    BY VMsAreAnnotated DEF IInv, TypeOK, ThreadType, AgeInv, NoneMissesUndated
  <1>1. ASSUME poll' = IdlePoll PROVE P
    BY <1>1, IdleTypes DEF FirstPcs
  <1>2. ASSUME poll'.todo = poll.todo, poll'.seen = poll.seen, poll'.cur = poll.cur,
               poll'.pc \in FirstPcs => poll.pc \in FirstPcs,
               poll'.pc \in {"missing", "forget", "deleted"} =>
                   poll.pc \in {"missing", "confirm", "forget", "deleted"},
               poll'.pc = "forget" => poll.pc \in {"confirm", "forget"},
               poll'.pc # "confirm"
        PROVE  P
    BY <1>0, <1>2
  <1>3. CASE PollList
    <2>1. poll'.pc = "reconcile"
          /\ poll'.todo = {s \in Sandboxes : \E w \in Instances : SandboxOf[w] = s /\ Exists(vms, w)}
      BY <1>0, <1>3 DEF PollList, PollState
    <2> QED
      BY <1>0, <2>1 DEF Undated
  <1>4. ASSUME NEW s \in Sandboxes, PollPick(s) PROVE P
    <2>1. /\ poll'.pc = "duplicates" /\ poll'.todo = poll.todo \ {s}
          /\ poll'.seen = poll.seen \cup {s} /\ poll.pc = "reconcile"
      BY <1>0, <1>4 DEF PollPick, PollState
    <2> QED
      BY <1>0, <2>1 DEF FirstPcs
  <1>5. ASSUME NEW w \in Instances, PollTerminateDuplicate(w) PROVE P
    <2>1. poll' = IdlePoll \/ poll' = [poll EXCEPT !.dups = poll.dups \ {w}]
      BY <1>5 DEF PollTerminateDuplicate, PollReturnsError
    <2>2. poll.pc = "duplicates"
      BY <1>5 DEF PollTerminateDuplicate
    <2> QED
      BY <1>0, <1>1, <1>2, <2>1, <2>2 DEF PollState, FirstPcs
  <1>6. CASE PollGet
    <2>1. \/ poll' = [poll EXCEPT !.pc = "add"] \/ poll' = [poll EXCEPT !.pc = "reconcile"]
          \/ poll' = [poll EXCEPT !.pc = "update", !.snap[poll.cur] = records[poll.cur]]
      BY <1>6 DEF PollGet
    <2>2. poll.pc = "duplicates"
      BY <1>6 DEF PollGet
    <2> QED
      BY <1>0, <1>2, <2>1, <2>2 DEF PollState, FirstPcs
  <1>7. CASE PollAdd \/ PollUpdate
    <2>1. \/ poll' = IdlePoll
          \/ poll' = [poll EXCEPT !.pc = "broadcast"]
          \/ poll' = [poll EXCEPT !.pc = "broadcast", !.snap[poll.cur] = NoRecord]
          \/ poll' = [poll EXCEPT !.pc = "reconcile", !.snap[poll.cur] = NoRecord]
      BY <1>7 DEF PollAdd, PollUpdate, PollReturnsError
    <2>2. poll.pc \in {"add", "update"}
      BY <1>7 DEF PollAdd, PollUpdate
    <2> QED
      BY <1>0, <1>1, <1>2, <2>1, <2>2 DEF PollState, FirstPcs
  <1>8. CASE PollBroadcast
    <2>1. \/ poll.pc = "broadcast" /\ poll' = [poll EXCEPT !.pc = "reconcile"]
          \/ poll.pc = "expireBroadcast" /\ poll' = [poll EXCEPT !.pc = "expire"]
      BY <1>8 DEF PollBroadcast
    <2> QED
      BY <1>0, <1>2, <2>1 DEF PollState, FirstPcs
  <1>9. CASE PollAll
    <2>1. /\ poll'.pc = "missing" /\ poll.pc = "reconcile" /\ poll.todo = {}
          /\ poll'.todo = {s \in Tracked(records) : records[s].instance # NoInstance
                                                    /\ s \notin poll.seen}
      BY <1>9 DEF PollAll, IdlePoll
    <2> QED
      BY <1>0, <2>1 DEF FirstPcs
  <1>10. ASSUME NEW s \in Sandboxes, PollMissing(s) PROVE P
    <2>1. \E pc \in {"confirm", "missing"} : \E r :
             poll' = [poll EXCEPT !.todo = poll.todo \ {s}, !.cur = s, !.pc = pc, !.snap[s] = r]
      BY <1>0, <1>10 DEF PollMissing, PollState
    <2>2. /\ poll'.pc \in {"confirm", "missing"} /\ poll'.todo = poll.todo \ {s} /\ poll'.cur = s
          /\ poll.pc = "missing" /\ s \in poll.todo
      BY <1>0, <1>10, <2>1 DEF PollMissing, PollState
    <2> QED
      BY <1>0, <2>2 DEF FirstPcs
  <1>11. CASE PollConfirm \/ PollForget
    <2>1. \/ poll.pc = "confirm" /\ poll' = [poll EXCEPT !.pc = "forget"]
          \/ poll' = [poll EXCEPT !.pc = "missing", !.snap[poll.cur] = NoRecord]
          \/ poll' = [poll EXCEPT !.pc = "deleted", !.snap[poll.cur] = NoRecord]
      BY <1>11 DEF PollConfirm, PollForget
    <2>2. poll.pc \in {"confirm", "forget"}
      BY <1>11 DEF PollConfirm, PollForget
    <2> QED
      BY <1>0, <1>2, <2>1, <2>2 DEF PollState, FirstPcs
  <1>12. CASE PollBroadcastDeleted
    <2>1. poll.pc = "deleted" /\ poll' = [poll EXCEPT !.pc = "missing"]
      BY <1>12 DEF PollBroadcastDeleted
    <2> QED
      BY <1>0, <1>2, <2>1 DEF PollState, FirstPcs
  <1>13. CASE PollDone
    BY <1>1, <1>13 DEF PollDone
  <1>14. CASE \/ PollExpired \/ PollExpireUpdate
              \/ \E s \in Sandboxes : PollExpire(s)
    <2>1. poll'.pc \in {"expire", "expireUpdate", "expireBroadcast"}
      <3>1. CASE PollExpired
        BY <3>1 DEF PollExpired, IdlePoll
      <3>2. CASE PollExpireUpdate
        BY <1>0, <3>2 DEF PollExpireUpdate, PollState
      <3>3. ASSUME NEW s \in Sandboxes, PollExpire(s)
            PROVE  poll'.pc \in {"expire", "expireUpdate"}
        <4>1. \/ poll' = [poll EXCEPT !.todo = @ \ {s}, !.cur = s, !.pc = "expireUpdate"]
              \/ poll' = [poll EXCEPT !.todo = @ \ {s}, !.snap[s] = NoRecord]
          BY <3>3 DEF PollExpire
        <4> QED
          BY <1>0, <3>3, <4>1 DEF PollExpire, PollState
      <3> QED
        BY <1>14, <3>1, <3>2, <3>3
    <2> QED
      BY <2>1 DEF FirstPcs
  <1> QED
    BY <1>3, <1>4, <1>5, <1>6, <1>7, <1>8, <1>9, <1>10, <1>11, <1>12, <1>13, <1>14 DEF PollStep

LEMMA NoneMissesUndatedStep ==
    ASSUME IInv, AgeInv, [Next]_vars
    PROVE  NoneMissesUndated'
  <1>1. \A v \in Instances : Undated(v)' => Undated(v)
    BY UndatedFade DEF AgeInv
  <1>2. \A v \in Instances : Undated(v) => \A p \in Rpcs : rpc'[p].pc = "list" => SandboxOf[v] \notin rpc'[p].target
    BY ListsNoUndated
  <1>3. PollStep \/ poll' = IdlePoll \/ UNCHANGED poll
    BY CreateFrame, RpcFrame, EnvironmentFrame DEF Next, Restart, vars
  <1>4. CASE PollStep
    BY <1>1, <1>2, <1>4, PollSeesUndated DEF NoneMissesUndated
  <1>5. CASE poll' = IdlePoll
    BY <1>1, <1>2, <1>5, IdleTypes DEF NoneMissesUndated, FirstPcs
  <1>6. CASE UNCHANGED poll
    BY <1>1, <1>2, <1>6 DEF NoneMissesUndated, AgeInv
  <1> QED
    BY <1>3, <1>4, <1>5, <1>6

\* Only a create without an answer leaves something for the API server to do.
LEMMA LateGrows ==
    ASSUME [Next]_vars
    PROVE  late' \subseteq late \/ \E c \in Creates : CreateUnanswered(c)
  <1>1. ASSUME NEW c \in Creates, CreateStep(c), ~CreateUnanswered(c) PROVE late' = late
    BY <1>1 DEF CreateStep, CreateReserve, CreateLaunchRefused, CreateLaunch, CreateLaunchFails,
       CreateCommit, CreateCompensate, CreateRollback, CreateBroadcast
  <1>2. ASSUME NEW p \in Rpcs, RpcStep(p) PROVE late' = late
    BY <1>2 DEF RpcStep, DeleteScan, DeleteMark, DeletePass, RpcStart, ResolveRegistry, ResolveList,
       ResolveAdd, ResolveAdopt, ResolveReread, RpcCall, RpcCallFails, RpcUpdate, RpcBroadcast
  <1>3. CASE PollStep
    BY <1>3 DEF PollStep, PollList, PollGet, PollAdd, PollUpdate, PollBroadcast, PollAll, PollConfirm,
       PollForget, PollBroadcastDeleted, PollExpired, PollExpireUpdate, PollDone, PollPick,
       PollMissing, PollExpire, PollTerminateDuplicate
  <1>4. CASE Environment
    BY <1>4 DEF Environment, Tick, Restart, ApplyLate, VMChanges, VMGone
  <1> QED
    BY <1>1, <1>2, <1>3, <1>4 DEF Next, vars

\* What a call goes on with was created by its own launch, or was listed with
\* a creation time.
LEMMA CallsAreDatedStep ==
    ASSUME IInv, AgeInv, [Next]_vars
    PROVE  CallsAreDated'
  <1>0. /\ rpc \in [Rpcs -> RpcCallState] /\ create \in [Creates -> CreateCall]
        /\ now \in Nat /\ now >= Start
        /\ CallsAreDated
    BY DEF IInv, TypeOK, ThreadType, ClusterType, AgeInv
  <1>1. ASSUME NEW c \in Creates, CreateStep(c)
        PROVE  \A d \in Creates : create'[d].pc # "idle" => create'[d].vm.createdAt # ZeroTime
    <2>0. create[c] \in CreateCall /\ create[c].vm \in VM
      BY <1>0 DEF CreateCall
    <2>1. \A d \in Creates \ {c} : create'[d] = create[d]
      BY <1>1, CreateEffect DEF IInv
    <2>2. ASSUME NEW s \in Sandboxes, CreateReserve(c, s) PROVE create'[c].vm.createdAt # ZeroTime
      <3>1. create'[c] = [pc |-> "reserved", sandbox |-> s, lease |-> nextLease',
                          vm |-> [NoVM EXCEPT !.createdAt = now]]
        BY <1>0, <2>2 DEF CreateReserve
      <3>2. [NoVM EXCEPT !.createdAt = now].createdAt = now
        BY DEF NoVM
      <3>3. now # ZeroTime
        BY <1>0, LimitsArePositive DEF Start, ZeroTime
      <3>4. create'[c].vm = [NoVM EXCEPT !.createdAt = now]
        BY <3>1
      <3> QED
        BY <3>2, <3>3, <3>4
    <2>3. CASE CreateLaunch(c)
      <3>1. PICK vm \in LaunchResult(c) :
               create' = [create EXCEPT ![c] = [create[c] EXCEPT !.pc = "launched", !.vm = vm]]
        BY <1>0, <2>3 DEF CreateLaunch
      <3>2. create[c].vm.createdAt # ZeroTime
        BY <1>0, <2>3 DEF CreateLaunch, CallsAreDated
      <3>3. [create[c].vm EXCEPT !.state = "Starting"].createdAt = create[c].vm.createdAt
        BY <2>0 DEF VM
      <3>4. vm.createdAt # ZeroTime
        BY <3>1, <3>2, <3>3 DEF LaunchResult
      <3> QED
        BY <1>0, <2>0, <2>1, <3>1, <3>4 DEF CreateCall, CallsAreDated
    <2>4. CASE CreateRollback(c) \/ CreateBroadcast(c) \/ CreateUnanswered(c)
      BY <1>0, <2>1, <2>4, IdleTypes DEF CreateRollback, CreateBroadcast, CreateUnanswered, CallsAreDated
    <2>5. CASE \/ CreateLaunchRefused(c) \/ CreateLaunchFails(c) \/ CreateCommit(c)
               \/ CreateCompensate(c)
      <3>1. \E pc : create' = [create EXCEPT ![c].pc = pc]
        BY <2>5 DEF CreateLaunchRefused, CreateLaunchFails, CreateCommit, CreateCompensate
      <3>2. create'[c].vm = create[c].vm
        BY <1>0, <2>0, <3>1 DEF CreateCall
      <3>3. create[c].pc # "idle"
        BY <2>5 DEF CreateLaunchRefused, CreateLaunchFails, CreateCommit, CreateCompensate
      <3> QED
        BY <1>0, <2>1, <3>2, <3>3 DEF CallsAreDated
    <2> QED
      BY <1>0, <1>1, <2>1, <2>2, <2>3, <2>4, <2>5 DEF CreateStep, CallsAreDated
  <1>2. ASSUME NEW p \in Rpcs, RpcStep(p)
        PROVE  \A q \in Rpcs : rpc'[q].pc \in {"add", "adopt"} => rpc'[q].found.createdAt # ZeroTime
    <2>0. rpc[p] \in RpcCallState
      BY <1>0
    <2>1. \A q \in Rpcs \ {p} : rpc'[q] = rpc[q]
      BY <1>0, <1>2 DEF RpcStep, DeleteScan, DeleteMark, DeletePass, RpcStart, ResolveRegistry,
         ResolveList, ResolveAdd, ResolveAdopt, ResolveReread, RpcCall, RpcCallFails, RpcUpdate,
         RpcBroadcast, Return, Resolved
    <2>2. ASSUME NEW s, NEW i, Resolved(p, s, i) PROVE rpc'[p].pc \notin {"add", "adopt"}
      BY <1>0, <2>0, <2>2, IdleTypes DEF Resolved, RpcCallState
    <2>3. ASSUME Return(p) PROVE rpc'[p].pc \notin {"add", "adopt"}
      BY <1>0, <2>3, IdleTypes DEF Return
    <2>5. CASE ResolveList(p)
      <3>1. \/ Return(p)
            \/ \E w \in Instances :
                 /\ SandboxOf[w] \in rpc[p].target /\ Exists(vms, w) /\ rpc[p].pc = "list"
                 /\ rpc' = [rpc EXCEPT ![p] = [rpc[p] EXCEPT !.pc = "add", !.instance = w,
                               !.sandbox = SandboxOf[w], !.target = {}, !.found = vms[w]]]
        BY <1>0, <2>5 DEF ResolveList
      <3>2. ASSUME NEW w \in Instances, SandboxOf[w] \in rpc[p].target, Exists(vms, w),
                   rpc[p].pc = "list"
            PROVE  vms[w].createdAt # ZeroTime
        BY <3>2 DEF AgeInv, NoneMissesUndated, Undated
      <3>3. Return(p) \/ rpc'[p].found.createdAt # ZeroTime
        BY <1>0, <2>0, <3>1, <3>2 DEF RpcCallState
      <3> QED
        BY <1>0, <2>1, <2>3, <3>3 DEF CallsAreDated
    <2>6. CASE ResolveAdd(p) \/ ResolveAdopt(p)
      <3>1. \/ \E s, i : Resolved(p, s, i)
            \/ rpc' = [rpc EXCEPT ![p].pc = "adopt"] /\ rpc[p].pc = "add"
            \/ rpc' = [rpc EXCEPT ![p].pc = "reread"]
        BY <2>6 DEF ResolveAdd, ResolveAdopt
      <3>2. \/ rpc'[p].pc \notin {"add", "adopt"}
            \/ rpc'[p].found = rpc[p].found /\ rpc[p].pc = "add"
        BY <1>0, <2>0, <2>2, <3>1 DEF RpcCallState
      <3> QED
        BY <1>0, <2>1, <3>2 DEF CallsAreDated
    <2>7. ASSUME rpc'[p].pc \notin {"add", "adopt"}
          PROVE  \A q \in Rpcs : rpc'[q].pc \in {"add", "adopt"} => rpc'[q].found.createdAt # ZeroTime
      BY <1>0, <2>1, <2>7 DEF CallsAreDated
    <2>8. ResolveRegistry(p) \/ ResolveReread(p) => rpc'[p].pc \notin {"add", "adopt"}
      BY <1>0, <2>0, <2>2, <2>3 DEF ResolveRegistry, ResolveReread, RpcCallState
    <2>9. RpcCall(p) \/ RpcCallFails(p) \/ RpcUpdate(p) \/ RpcBroadcast(p)
            => rpc'[p].pc \notin {"add", "adopt"}
      BY <1>0, <2>0, <2>3 DEF RpcCall, RpcCallFails, RpcUpdate, RpcBroadcast, RpcCallState
    <2>10. ASSUME NEW T, DeleteScan(p, T) PROVE rpc'[p].pc \notin {"add", "adopt"}
      BY <1>0, <2>0, <2>10 DEF DeleteScan, RpcCallState
    <2>11. ASSUME NEW s, DeleteMark(p, s) PROVE rpc'[p].pc \notin {"add", "adopt"}
      <3>1. rpc'[p] = [IdleRpc EXCEPT !.pc = "marked", !.op = "delete", !.sandbox = s]
        BY <1>0, <2>11 DEF DeleteMark
      <3> QED
        BY <3>1, IdleTypes DEF RpcCallState
    <2>12. ASSUME NEW s, DeletePass(p, s) PROVE rpc'[p].pc \notin {"add", "adopt"}
      <3>1. \E pc \in {"resolve", "mark"} : \E scan :
               rpc' = [rpc EXCEPT ![p] = [rpc[p] EXCEPT !.pc = pc, !.scan = scan]]
        BY <1>0, <2>12 DEF DeletePass
      <3> QED
        BY <1>0, <2>0, <3>1 DEF RpcCallState
    <2>13. ASSUME NEW op, NEW T, RpcStart(p, op, T) PROVE rpc'[p].pc \notin {"add", "adopt"}
      <3>1. rpc' = [rpc EXCEPT ![p] = [rpc[p] EXCEPT !.pc = "resolve", !.op = op, !.target = T]]
        BY <1>0, <2>13 DEF RpcStart
      <3> QED
        BY <1>0, <2>0, <3>1 DEF RpcCallState
    <2> QED
      BY <1>2, <2>5, <2>6, <2>7, <2>8, <2>9, <2>10, <2>11, <2>12, <2>13 DEF RpcStep
  <1>7. \A l \in late' : l.createdAt # ZeroTime
    <2>1. ASSUME NEW c \in Creates, CreateUnanswered(c) PROVE \A l \in late' : l.createdAt # ZeroTime
      BY <1>0, <2>1 DEF CreateUnanswered, CallsAreDated
    <2>2. late' \subseteq late \/ \E c \in Creates : CreateUnanswered(c)
      BY LateGrows
    <2> QED
      BY <1>0, <2>1, <2>2 DEF CallsAreDated
  <1>3. ASSUME NEW c \in Creates, CreateStep(c) PROVE CallsAreDated'
    BY <1>0, <1>1, <1>3, <1>7, CreateFrame DEF CallsAreDated
  <1>4. ASSUME NEW p \in Rpcs, RpcStep(p) PROVE CallsAreDated'
    BY <1>0, <1>2, <1>4, <1>7, RpcFrame DEF CallsAreDated
  <1>5. CASE UNCHANGED <<create, rpc>>
    BY <1>0, <1>5, <1>7 DEF CallsAreDated
  <1>6. CASE Restart
    BY <1>6, <1>7, IdleTypes DEF Restart, CallsAreDated
  <1> QED
    BY <1>3, <1>4, <1>5, <1>6, PollFrame, EnvironmentFrame DEF Next, vars

\* A step that writes one record at most writes a creation time.
LEMMA OneRecordAges ==
    ASSUME TypeOK, EveryRecordAges, NEW s \in Sandboxes, NEW r,
           records' = [records EXCEPT ![s] = r],
           r.lease # 0 => r.createdAt # ZeroTime
    PROVE  EveryRecordAges'
  <1>1. \A t \in Sandboxes : records'[t] = IF t = s THEN r ELSE records[t]
    BY DEF TypeOK, RegistryType
  <1> QED
    BY <1>1 DEF EveryRecordAges, Tracked

\* A step that writes no creation time.
LEMMA SameTimesAge ==
    ASSUME TypeOK, EveryRecordAges, NEW s \in Sandboxes, NEW st, NEW n,
           \/ records' = [records EXCEPT ![s].state = st]
           \/ records' = [records EXCEPT ![s].missingPolls = n]
    PROVE  EveryRecordAges'
  <1>1. records[s] \in Record(States)
    BY DEF TypeOK, RegistryType
  <1>2. /\ [records[s] EXCEPT !.state = st].lease = records[s].lease
        /\ [records[s] EXCEPT !.state = st].createdAt = records[s].createdAt
        /\ [records[s] EXCEPT !.missingPolls = n].lease = records[s].lease
        /\ [records[s] EXCEPT !.missingPolls = n].createdAt = records[s].createdAt
    BY <1>1 DEF Record
  <1>3. records[s].lease # 0 => records[s].createdAt # ZeroTime
    BY DEF EveryRecordAges, Tracked
  <1>4. CASE records' = [records EXCEPT ![s].state = st]
    BY <1>2, <1>3, <1>4, OneRecordAges
  <1>5. CASE records' = [records EXCEPT ![s].missingPolls = n]
    BY <1>2, <1>3, <1>5, OneRecordAges
  <1> QED
    BY <1>4, <1>5

LEMMA EveryRecordAgesStep ==
    ASSUME IInv, AgeInv, [Next]_vars
    PROVE  EveryRecordAges'
  <1>0. /\ TypeOK /\ EveryRecordAges /\ CallsAreDated /\ PollOnTrack
        /\ records \in [Sandboxes -> Record(States)]
        /\ create \in [Creates -> CreateCall] /\ rpc \in [Rpcs -> RpcCallState]
        /\ now \in Nat /\ now >= Start /\ poll.cur \in Sandboxes
    BY DEF IInv, AgeInv, TypeOK, RegistryType, ThreadType, ClusterType, PollState
  <1>1. ASSUME records' = records PROVE EveryRecordAges'
    BY <1>0, <1>1 DEF EveryRecordAges, Tracked
  <1>2. ASSUME records' = NewRegistry PROVE EveryRecordAges'
    BY <1>2, IdleTypes DEF NewRegistry, EveryRecordAges, Tracked
  <1>3. ASSUME NEW s \in Sandboxes, records' = [records EXCEPT ![s] = NoRecord]
        PROVE  EveryRecordAges'
    BY <1>0, <1>3, OneRecordAges, IdleTypes
  <1>4. ASSUME NEW s \in Sandboxes, NEW rec \in Record(States), rec.createdAt # ZeroTime, NEW n,
               records' = Store(records, s, rec, n)
        PROVE  EveryRecordAges'
    <2>1. [rec EXCEPT !.lease = n].createdAt # ZeroTime
      BY <1>4 DEF Record
    <2> QED
      BY <1>0, <1>4, <2>1, OneRecordAges DEF Store
  <1>5. ASSUME NEW c \in Creates, CreateStep(c) PROVE EveryRecordAges'
    <2>0. create[c].sandbox \in Sandboxes /\ create[c] \in CreateCall
      BY <1>0 DEF CreateCall
    <2>1. ASSUME NEW s \in Sandboxes, CreateReserve(c, s) PROVE EveryRecordAges'
      <3>1. [NoRecord EXCEPT !.state = "launching", !.createdAt = now] \in Record(States)
        BY <1>0, IdleTypes DEF Record, States
      <3>2. [NoRecord EXCEPT !.state = "launching", !.createdAt = now].createdAt = now
        BY DEF NoRecord
      <3>3. now # ZeroTime
        BY <1>0, LimitsArePositive DEF Start, ZeroTime
      <3>4. records' = Store(records, s, [NoRecord EXCEPT !.state = "launching", !.createdAt = now],
                             nextLease')
        BY <2>1, Zenon DEF CreateReserve
      <3> QED
        BY <1>4, <3>1, <3>2, <3>3, <3>4
    <2>2. CASE CreateCommit(c)
      <3> DEFINE s == create[c].sandbox
                 r == [records[s] EXCEPT !.instance = VMName[s], !.state = create[c].vm.state,
                                         !.createdAt = create[c].vm.createdAt]
      <3>1. records' = [records EXCEPT ![s] = r] \/ records' = records
        BY <2>2 DEF CreateCommit
      <3>2. create[c].vm.createdAt # ZeroTime
        BY <1>0, <2>2 DEF CreateCommit, CallsAreDated
      <3>3. r.createdAt # ZeroTime
        BY <1>0, <2>0, <3>2 DEF Record
      <3> HIDE DEF r
      <3> QED
        BY <1>0, <1>1, <2>0, <3>1, <3>3, OneRecordAges
    <2>3. CASE CreateRollback(c)
      BY <1>1, <1>3, <2>0, <2>3 DEF CreateRollback, Rollback
    <2>4. CASE \/ CreateLaunchRefused(c) \/ CreateLaunch(c) \/ CreateUnanswered(c)
               \/ CreateLaunchFails(c) \/ CreateCompensate(c) \/ CreateBroadcast(c)
      BY <1>1, <2>4 DEF CreateLaunchRefused, CreateLaunch, CreateUnanswered, CreateLaunchFails,
                        CreateCompensate, CreateBroadcast, registry
    <2> QED
      BY <1>5, <2>1, <2>2, <2>3, <2>4 DEF CreateStep
  <1>6. ASSUME NEW p \in Rpcs, RpcStep(p) PROVE EveryRecordAges'
    <2>0. rpc[p].sandbox \in Sandboxes /\ rpc[p].found \in VM /\ rpc[p] \in RpcCallState
      BY <1>0 DEF RpcCallState
    <2>1. CASE ResolveAdd(p)
      <3> DEFINE rec == recordFromInstance(rpc[p].instance, rpc[p].found)
      <3>1. rec \in Record(States) /\ rec.createdAt = rpc[p].found.createdAt
        BY <2>0, IdleTypes DEF recordFromInstance, NoRecord, Record, RpcCallState, States, VM
      <3>2. rpc[p].found.createdAt # ZeroTime
        BY <1>0, <2>1 DEF ResolveAdd, CallsAreDated
      <3>3. records' = records \/ records' = Store(records, rpc[p].sandbox, rec, nextLease')
        BY <2>1, Zenon DEF ResolveAdd, registry
      <3> HIDE DEF rec
      <3> QED
        BY <1>1, <1>4, <2>0, <3>1, <3>2, <3>3
    <2>2. CASE ResolveAdopt(p)
      <3> DEFINE s == rpc[p].sandbox
                 r == [records[s] EXCEPT !.instance = rpc[p].instance, !.state = rpc[p].found.state,
                                         !.createdAt = rpc[p].found.createdAt]
      <3>1. records' = [records EXCEPT ![s] = r] \/ records' = records
        BY <2>2 DEF ResolveAdopt
      <3>2. rpc[p].found.createdAt # ZeroTime
        BY <1>0, <2>2 DEF ResolveAdopt, CallsAreDated
      <3>3. r.createdAt # ZeroTime
        BY <1>0, <2>0, <3>2 DEF Record
      <3> HIDE DEF r
      <3> QED
        BY <1>0, <1>1, <2>0, <3>1, <3>3, OneRecordAges
    <2>3. ASSUME NEW s \in Sandboxes, DeleteMark(p, s) PROVE EveryRecordAges'
      BY <1>0, <2>3, SameTimesAge DEF DeleteMark
    <2>4. CASE RpcUpdate(p)
      BY <1>0, <1>1, <2>0, <2>4, SameTimesAge DEF RpcUpdate
    <2>5. \/ \E s \in Sandboxes : DeleteMark(p, s)
          \/ ResolveAdd(p) \/ ResolveAdopt(p) \/ RpcUpdate(p) \/ records' = records
      BY <1>6 DEF RpcStep, DeleteScan, DeletePass, RpcStart, ResolveRegistry, ResolveList,
                  ResolveReread, RpcCall, RpcCallFails, RpcBroadcast, registry
    <2> QED
      BY <1>1, <2>1, <2>2, <2>3, <2>4, <2>5
  <1>7. CASE PollStep
    <2>1. ASSUME PollReturnsError PROVE EveryRecordAges'
      BY <1>1, <1>2, <2>1 DEF PollReturnsError
    <2>2. CASE PollAdd
      <3> DEFINE v == Keeper(poll.cur)
      <3>1. Recovered(v) \in Record(States)
        BY <1>0, <2>2, KeeperType DEF PollAdd
      <3>2. Recovered(v).createdAt # ZeroTime
        <4> DEFINE r == recordFromInstance(v, poll.listed[v])
        <4>1. now - MaxInstanceAge - 1 # ZeroTime
          BY <1>0, LimitsArePositive DEF Start, ZeroTime
        <4>2. [r EXCEPT !.createdAt = now - MaxInstanceAge - 1].createdAt = now - MaxInstanceAge - 1
          BY DEF recordFromInstance, NoRecord
        <4>3. \/ Recovered(v) = r /\ r.createdAt # ZeroTime
              \/ Recovered(v) = [r EXCEPT !.createdAt = now - MaxInstanceAge - 1]
          BY DEF Recovered
        <4> HIDE DEF r
        <4> QED
          BY <4>1, <4>2, <4>3
      <3>3. PollReturnsError \/ records' = Store(records, poll.cur, Recovered(v), nextLease')
        BY <2>2, Zenon DEF PollAdd
      <3> HIDE DEF v
      <3> QED
        BY <1>0, <1>4, <2>1, <3>1, <3>2, <3>3
    <2>3. CASE PollUpdate
      <3> DEFINE s == poll.cur
                 observed == ObservedState(poll.snap[s], poll.listed[Keeper(s)].state)
                 r == Reconciled(records[s], Keeper(s), observed)
      <3>1. \/ records' = records
            \/ records' = [records EXCEPT ![s] = r] /\ records[s].lease = poll.snap[s].lease
        BY <2>3 DEF PollUpdate, ReconcileAllowed
      <3>2. poll.snap[s].lease # 0
        BY <1>0, <2>3 DEF PollUpdate, PollOnTrack
      <3>3. records[s].lease # 0 => records[s].createdAt # ZeroTime
        BY <1>0 DEF EveryRecordAges, Tracked
      <3> HIDE DEF observed
      <3>4. records[s].createdAt # ZeroTime => r.createdAt # ZeroTime
        BY <1>0 DEF Reconciled, Record
      <3> HIDE DEF r
      <3> QED
        BY <1>0, <1>1, <3>1, <3>2, <3>3, <3>4, OneRecordAges
    <2>4. ASSUME NEW s \in Sandboxes, PollMissing(s) PROVE EveryRecordAges'
      BY <1>0, <1>1, <2>4, SameTimesAge DEF PollMissing
    <2>5. CASE PollForget
      BY <1>0, <1>1, <1>3, <2>5 DEF PollForget, Delete
    <2>6. CASE PollExpireUpdate
      BY <1>0, <1>1, <2>6, SameTimesAge DEF PollExpireUpdate
    <2>7. \/ PollAdd \/ PollUpdate \/ PollForget \/ PollExpireUpdate
          \/ \E s \in Sandboxes : PollMissing(s)
          \/ PollReturnsError \/ records' = records
      BY <1>7 DEF PollStep, PollList, PollGet, PollBroadcast, PollAll, PollConfirm,
                  PollBroadcastDeleted, PollExpired, PollDone, PollPick, PollExpire,
                  PollTerminateDuplicate, registry
    <2> QED
      BY <1>1, <2>1, <2>2, <2>3, <2>4, <2>5, <2>6, <2>7
  <1>8. CASE Environment
    BY <1>1, <1>2, <1>8, EnvironmentFrame DEF Restart
  <1>9. CASE UNCHANGED vars
    BY <1>1, <1>9 DEF vars
  <1> QED
    BY <1>5, <1>6, <1>7, <1>8, <1>9 DEF Next

LEMMA InitAge == Init => AgeInv
  <1> SUFFICES ASSUME Init PROVE AgeInv
    OBVIOUS
  <1>1. StartingUp /\ UndatedAreHeld
    BY InitVM DEF Init, VMInv, UndatedAreHeld
  <1>2. NoneMissesUndated /\ CallsAreDated /\ ExcusedAreDated
    BY IdleTypes DEF Init, NoneMissesUndated, CallsAreDated, ExcusedAreDated, FirstPcs
  <1>3. EveryRecordAges
    BY IdleTypes DEF Init, NewRegistry, EveryRecordAges, Tracked
  <1> QED
    BY <1>1, <1>2, <1>3 DEF AgeInv

\* Every record has a creation time, for any number of sandboxes, calls and
\* crashes and whatever VMs earlier lives left: a VM without a trustworthy one
\* is only ever put on record by the first poll, which counts it as expired.
THEOREM NoRecordEscapesTheLimit == Spec => []EveryRecordAges
  <1>1. IInv /\ AgeInv /\ [Next]_vars => AgeInv'
    BY StepStartingUp, ExcusedAreDatedStep, UndatedAreHeldStep, NoneMissesUndatedStep,
       CallsAreDatedStep, EveryRecordAgesStep DEF AgeInv
  <1>2. AgeInv => EveryRecordAges
    BY DEF AgeInv
  <1> QED
    BY <1>1, <1>2, InitAge, Invariance, PTL DEF Spec
=============================================================================
