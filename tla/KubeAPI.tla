------------------------------ MODULE KubeAPI -------------------------------
(***************************************************************************)
(* The Kubernetes adapter of drivers/kubevirt/kubeapi.go, for one sandbox: *)
(* Launch and Terminate over its three objects (the cloud-init Secret, the *)
(* VirtualMachine and its DataVolume), whose names are deterministic, on   *)
(* an API server that throttles, times out and answers late.               *)
(*                                                                         *)
(* A step is one API request.  The two retry loops are kept; a retried     *)
(* request without an effect or a decision of its own is a stutter.        *)
(***************************************************************************)
EXTENDS Naturals, Sequences, FiniteSets

CONSTANTS Launches,    \* calls of Launch
          Terminates,  \* calls of Terminate
          Attempts,    \* Steps of the back-off
          MaxNow,      \* bound of the clock
          MaxLate      \* bound of creates applied late at a time

ASSUME CallsAreDistinct == Launches \cap Terminates = {}
ASSUME NumbersAreNumbers == Attempts \in Nat \ {0} /\ MaxNow \in Nat \ {0} /\ MaxLate \in Nat

VARIABLES ready,    \* CheckReady has succeeded
          secret,   \* the cloud-init Secret
          vm,       \* the VirtualMachine
          dv,       \* UID of the VM the DataVolume belongs to, 0: none
          made,     \* digests of the VMs made so far; a UID is an index of it
          late,     \* creates that timed out and that the server may still apply
          call,     \* the calls
          now,      \* the time of the last call of Launch, in seconds
          \* History variables: nothing reads them but properties.
          faulty,   \* an answer was lost, a cleanup failed or the process died
          disturbed \* calls that another call, a failed deletion of what they
                    \* made, or a late create has interfered with

objects == <<secret, vm, dv, made, late>>
history == <<faulty, disturbed>>
vars == <<ready, secret, vm, dv, made, late, call, now, faulty, disturbed>>

Calls == Launches \cup Terminates
Digests == 1..MaxNow

NoSecret == [digest |-> 0, owner |-> 0]
NoVM == [uid |-> 0, deleting |-> FALSE]

\* fresh: createOrVerifySecret created the Secret itself; seen: the create
\* error that is being resolved; bad: a deletion failed.
Idle == [pc |-> "idle", kind |-> "secret", digest |-> 0, tries |-> 1, fresh |-> FALSE, seen |-> "none",
         uid |-> 0, bad |-> FALSE, since |-> 0, result |-> "none"]

\* What is left of a call that has returned.
Returned(c, result) == [Idle EXCEPT !.pc = "done", !.digest = call[c].digest, !.uid = call[c].uid,
                                    !.result = result]

InFlight(c) == call[c].pc \notin {"idle", "done"}
Launching == \E l \in Launches : InFlight(l)

-----------------------------------------------------------------------------
(* CheckReady.                                                              *)

\* The driver serves no call before what it needs (the namespace, the boot
\* source, the types, every permission) has been confirmed.
CheckReady ==
    /\ ~ready
    /\ ready' = TRUE
    /\ UNCHANGED <<objects, call, now, history>>

-----------------------------------------------------------------------------
(* The objects.                                                             *)

Has(k) == IF k = "secret" THEN secret # NoSecret ELSE vm # NoVM
DigestOf(k) == IF k = "secret" THEN secret.digest ELSE made[vm.uid]

\* buildResources: both objects carry the request digest; the Secret is made
\* without an owner.
Put(k, d) ==
    \/ /\ k = "secret"
       /\ secret' = [digest |-> d, owner |-> 0]
       /\ UNCHANGED <<vm, made>>
    \/ /\ k = "vm"
       /\ made' = Append(made, d)
       /\ vm' = [uid |-> Len(made'), deleting |-> FALSE]
       /\ UNCHANGED secret

\* A create whose answer the client did not get: not applied, applied, or to
\* be applied later.
Unanswered(k, d) ==
    \/ UNCHANGED <<secret, vm, made, late>>
    \/ ~Has(k) /\ Put(k, d) /\ UNCHANGED late
    \/ Cardinality(late) < MaxLate /\ late' = late \cup {<<k, d>>} /\ UNCHANGED <<secret, vm, made>>

-----------------------------------------------------------------------------
(* Launch.                                                                  *)

\* The digest covers the expiry time, in seconds: it is the time of the call.
\* The driver holds a reservation while it launches; it is released early
\* only if a request adopted a VM that is gone again.
LaunchStart(l, time) ==
    LET others == {c \in Calls : InFlight(c)} IN
    /\ ready
    /\ call[l].pc = "idle"
    /\ now' = time
    /\ \A k \in others \cap Launches : Len(made) > call[k].since /\ vm = NoVM
    /\ call' = [call EXCEPT ![l] = [Idle EXCEPT !.pc = "create", !.digest = time,
                                                !.since = Len(made)]]
    /\ disturbed' = disturbed \cup others \cup {t \in Terminates : call[t].pc # "idle"}
                               \cup IF others = {} THEN {} ELSE {l}
    /\ UNCHANGED <<ready, objects, faulty>>

\* createOrVerifySecret leads on to createOrVerifyVM, and that to ownSecret.
Verified(l, new) ==
    call' = [call EXCEPT ![l] =
        IF @.kind = "secret" THEN [@ EXCEPT !.kind = "vm", !.pc = "create", !.tries = 1,
                                            !.fresh = new, !.seen = "none"]
        ELSE [@ EXCEPT !.pc = "own", !.seen = "none", !.uid = vm'.uid]]

Dropping_Never(l, uncertain) == FALSE
\* A failed launch removes the Secret if this call made it and the VM was
\* certainly not made.
Dropping(l, uncertain) == call[l].kind = "vm" /\ call[l].fresh /\ ~uncertain

Failed(l, uncertain, result) ==
    call' = [call EXCEPT ![l] = [Returned(l, result) EXCEPT !.since = call[l].since,
                                    !.pc = IF Dropping(l, uncertain) THEN "drop" ELSE "done"]]

MayRetry_Always(l) == TRUE
MayRetry(l) == call[l].tries < Attempts

\* retryWithBackoff after a transient error: another attempt, or the last
\* error is returned (no attempt is left, or the context has ended).
Retry(l, uncertain) ==
    \/ /\ MayRetry(l)
       /\ call' = [call EXCEPT ![l].pc = "create", ![l].seen = "none", ![l].tries = @ + 1]
    \/ Failed(l, uncertain, "error")

Seen(l, err) == call' = [call EXCEPT ![l] = [@ EXCEPT !.pc = "get", !.seen = err]]

Create(l) ==
    LET k == call[l].kind
        d == call[l].digest
    IN
    /\ call[l].pc = "create"
    /\ \/ ~Has(k) /\ Put(k, d) /\ Verified(l, TRUE) /\ UNCHANGED <<late, faulty>>
       \/ Has(k) /\ Seen(l, "exists") /\ UNCHANGED <<secret, vm, made, late, faulty>>
       \* throttled
       \/ Seen(l, "transient") /\ UNCHANGED <<secret, vm, made, late, faulty>>
       \* timed out in the server
       \/ Unanswered(k, d) /\ Seen(l, "transient") /\ faulty' = TRUE
       \* refused
       \/ Failed(l, FALSE, "error") /\ UNCHANGED <<secret, vm, made, late, faulty>>
       \* the connection broke or the caller's context ended
       \/ Unanswered(k, d) /\ Failed(l, FALSE, "error") /\ faulty' = TRUE
    /\ UNCHANGED <<ready, dv, now, disturbed>>

\* The request digest (and for the Secret the data it covers) decides.
SameRequest_Any(l) == TRUE
SameRequest(l) == DigestOf(call[l].kind) = call[l].digest

\* Get after AlreadyExists or a transient error of the create.
Get(l) ==
    LET k == call[l].kind
        unknown == call[l].seen = "transient"
    IN
    /\ call[l].pc = "get"
    /\ \/ ~Has(k) /\ unknown /\ Retry(l, FALSE) /\ UNCHANGED faulty
       \/ ~Has(k) /\ ~unknown /\ Failed(l, FALSE, "error") /\ UNCHANGED faulty
       \/ Retry(l, unknown) /\ faulty' = TRUE
       \/ Failed(l, unknown, "error") /\ faulty' = TRUE
       \/ Has(k) /\ SameRequest(l) /\ UNCHANGED vm /\ Verified(l, FALSE) /\ UNCHANGED faulty
       \/ Has(k) /\ ~SameRequest(l) /\ Failed(l, FALSE, "conflict") /\ UNCHANGED faulty
    /\ UNCHANGED <<ready, objects, now, disturbed>>

\* The deletion of the Secret after a failed VM create; its error is ignored.
DropSecret(l) ==
    /\ call[l].pc = "drop"
    /\ \/ secret' = NoSecret /\ UNCHANGED faulty
       \/ UNCHANGED secret /\ faulty' = TRUE
    /\ call' = [call EXCEPT ![l] = Returned(l, @.result)]
    /\ UNCHANGED <<ready, vm, dv, made, late, now, disturbed>>

\* The update is bound to the version that was read, so read and update are
\* one step; the Secret is found by name, whoever made it.
OwnSecret(l) ==
    LET owned == [secret EXCEPT !.owner = call[l].uid] IN
    /\ call[l].pc = "own"
    /\ \/ /\ secret # NoSecret
          /\ secret' = owned
          /\ call' = [call EXCEPT ![l] = Returned(l, "ok")]
          /\ UNCHANGED faulty
       \* no such Secret, or the update was refused, or its answer was lost
       \/ /\ \/ UNCHANGED <<secret, faulty>>
             \/ secret # NoSecret /\ secret' = owned /\ faulty' = TRUE
          /\ call' = [call EXCEPT ![l] = [Idle EXCEPT !.pc = "vm", !.digest = call[l].digest,
                                                      !.since = call[l].since]]
    /\ UNCHANGED <<ready, vm, dv, made, late, now, disturbed>>

-----------------------------------------------------------------------------
(* Terminate, called by the driver or by a Launch that could not attach the *)
(* Secret; it deletes by name and goes on after an error.                   *)

\* The driver terminates a VM it has seen.
TerminateStart(t) ==
    /\ ready
    /\ call[t].pc = "idle"
    /\ made # <<>>
    /\ call' = [call EXCEPT ![t].pc = "vm"]
    /\ disturbed' = IF Launching THEN disturbed \cup {t} ELSE disturbed
    /\ UNCHANGED <<ready, objects, now, faulty>>

\* One deletion: NotFound is success; an error may hide the effect.  It
\* disturbs the launches in flight, and if it fails also those it follows.
Deleting(c, pc, next, old, var, gone) ==
    /\ call[c].pc = pc
    /\ \/ /\ var = gone
          /\ call' = [call EXCEPT ![c].pc = next]
          /\ disturbed' = disturbed \cup {l \in Launches \ {c} : InFlight(l)}
          /\ UNCHANGED faulty
       \/ /\ var \in {old, gone}
          /\ call' = [call EXCEPT ![c] = [@ EXCEPT !.pc = next, !.bad = TRUE]]
          /\ disturbed' = disturbed \cup {l \in Launches \ {c} : call[l].pc # "idle"}
          /\ faulty' = TRUE

\* Foreground deletion: the VM stays until its DataVolume is gone.
DeleteVM(c) ==
    /\ Deleting(c, "vm", "dv", vm, vm', IF vm = NoVM THEN NoVM ELSE [vm EXCEPT !.deleting = TRUE])
    /\ UNCHANGED <<ready, secret, dv, made, late, now>>

DeleteDataVolume(c) ==
    /\ Deleting(c, "dv", "secret", dv, dv', 0)
    /\ UNCHANGED <<ready, secret, vm, made, late, now>>

DeleteSecret_Left(c) ==
    /\ Deleting(c, "secret", "return", secret, secret', secret)
    /\ UNCHANGED <<ready, vm, dv, made, late, now>>
DeleteSecret(c) ==
    /\ Deleting(c, "secret", "return", secret, secret', NoSecret)
    /\ UNCHANGED <<ready, vm, dv, made, late, now>>

TerminateReturn(c) ==
    /\ call[c].pc = "return"
    /\ call' = [call EXCEPT ![c] = Returned(c, IF c \in Launches \/ call[c].bad THEN "error" ELSE "ok")]
    /\ UNCHANGED <<ready, objects, now, history>>

-----------------------------------------------------------------------------
(* The cluster: external.                                                   *)

\* KubeVirt makes the DataVolume from the VM's template.
Provision ==
    /\ vm # NoVM /\ ~vm.deleting /\ dv = 0
    /\ dv' = vm.uid
    /\ UNCHANGED <<ready, secret, vm, made, late, call, now, history>>

\* The garbage collector removes what belongs to a VM that is gone or going,
\* and a VM under deletion once nothing blocks it.
Orphaned(owner) == owner # 0 /\ (vm.uid # owner \/ vm.deleting)
Collect ==
    /\ \/ Orphaned(secret.owner) /\ secret' = NoSecret /\ UNCHANGED <<vm, dv>>
       \/ Orphaned(dv) /\ dv' = 0 /\ UNCHANGED <<secret, vm>>
       \/ vm.deleting /\ dv # vm.uid /\ vm' = NoVM /\ UNCHANGED <<secret, dv>>
    /\ UNCHANGED <<ready, made, late, call, now, history>>

\* Calls that a create of this kind upsets if it is applied now: terminations
\* that have deleted the object, launches of another request.
Upset(k, d) ==
    {t \in Terminates : call[t].pc \in {"return", "done"} \cup IF k = "vm" THEN {"dv", "secret"} ELSE {}}
    \cup {l \in Launches : k = "secret" /\ InFlight(l) /\ call[l].digest # d}

\* A create that timed out is applied, or fails on an object that exists.
ApplyLate ==
    /\ \E p \in late :
          /\ late' = late \ {p}
          /\ \/ ~Has(p[1]) /\ Put(p[1], p[2]) /\ disturbed' = disturbed \cup Upset(p[1], p[2])
             \/ Has(p[1]) /\ UNCHANGED <<secret, vm, made, disturbed>>
    /\ UNCHANGED <<ready, dv, call, now, faulty>>

\* The process dies with every call in flight; nothing it does is persisted.
Crash ==
    /\ \E c \in Calls : InFlight(c)
    /\ ready' = FALSE
    /\ call' = [c \in Calls |-> IF InFlight(c) THEN Returned(c, "error")
                                ELSE call[c]]
    /\ faulty' = TRUE
    /\ UNCHANGED <<objects, now, disturbed>>

-----------------------------------------------------------------------------
Init ==
    /\ ready = FALSE
    /\ secret = NoSecret /\ vm = NoVM /\ dv = 0
    /\ made = <<>> /\ late = {}
    /\ call = [c \in Calls |-> Idle]
    /\ now = 1
    /\ faulty = FALSE /\ disturbed = {}

LaunchStep(l) == Create(l) \/ Get(l) \/ DropSecret(l) \/ OwnSecret(l)
TerminateStep(c) == DeleteVM(c) \/ DeleteDataVolume(c) \/ DeleteSecret(c) \/ TerminateReturn(c)
Cluster == Provision \/ Collect \/ ApplyLate

Next ==
    \/ CheckReady \/ Cluster \/ Crash
    \/ \E l \in Launches : LaunchStep(l) \/ \E time \in now..MaxNow : LaunchStart(l, time)
    \/ \E t \in Terminates : TerminateStart(t)
    \/ \E c \in Calls : TerminateStep(c)

Spec == Init /\ [][Next]_vars

-----------------------------------------------------------------------------
(* Properties.                                                              *)

\* The variables have the values the code gives them; above all no create is
\* attempted more often than the back-off allows, so that every call returns.
TypeOK ==
    /\ ready \in BOOLEAN
    /\ secret \in [digest : Digests \cup {0}, owner : Nat]
    /\ vm \in [uid : 0..Len(made), deleting : BOOLEAN]
    /\ dv \in 0..Len(made)
    /\ made \in Seq(Digests)
    /\ late \subseteq {"secret", "vm"} \X Digests
    /\ \A c \in Calls :
          /\ call[c].pc \in {"idle", "create", "get", "drop", "own", "vm", "dv", "secret", "return", "done"}
          /\ call[c].tries \in 1..Attempts
          /\ call[c].result \in {"none", "ok", "error", "conflict"}

\* A VM that Launch returned has its Secret: the data of its own request, and
\* owned by the VM so that it goes when the VM goes.  It does through retries,
\* lost answers, late creates, and the launches and terminations before and
\* after; unless beside the launch ran another one, a deletion, or the late
\* Secret of another request, or a deletion of an object failed after it.
LaunchedIsComplete ==
    \A l \in Launches \ disturbed :
        call[l].result = "ok" /\ vm.uid = call[l].uid /\ ~vm.deleting
        => secret = [digest |-> call[l].digest, owner |-> vm.uid]

Quiet == late = {} /\ \A c \in Calls : ~InFlight(c)

\* A failed launch cleans up after itself, throttled or refused at any
\* attempt: unless an answer was lost, a deletion failed or the process died,
\* no Secret (it holds the sandbox token) is left without a VM to take it along.
FailureLeavesNoSecret == Quiet /\ ~faulty /\ secret # NoSecret => secret.owner # 0 \/ vm # NoVM

\* Retries after ambiguous failures resolve the existing request: no launch
\* is refused because of what an earlier attempt for the same sandbox left.
RetriesResolve == \A l \in Launches : call[l].result # "conflict"

\* The garbage collector has nothing left to do.
Settled == ~Orphaned(secret.owner) /\ ~Orphaned(dv) /\ ~vm.deleting

\* A Terminate that reports success removes every object of the sandbox,
\* whatever failed launches left of it and although creates of theirs are
\* still pending; unless a launch runs beside it or later, or the server
\* applies a create after Terminate has deleted that object.
TerminateLeavesNothing ==
    \A t \in Terminates \ disturbed :
        call[t].result = "ok" /\ Settled => secret = NoSecret /\ vm = NoVM /\ dv = 0

\* The adapter is the provider the driver relies on.
Provider == INSTANCE VMProvider WITH
    current <- vm.uid,
    deleting <- vm.deleting,
    asked <- [l \in Launches |-> call[l].digest],
    answered <- [l \in Launches |-> IF call[l].result = "ok" THEN call[l].uid ELSE 0]

\* Launch and Terminate implement VMProvider: a VM is made only for a request
\* and never beside another, leaves only through deletion, and Launch returns
\* only a VM of its own request.
ImplementsProvider == Provider!Spec

=============================================================================
