---------------------------- MODULE KubeAPIProofs ----------------------------
(***************************************************************************)
(* Proofs about the Kubernetes adapter for every number of launches and    *)
(* terminations, every number of attempts and every bound of the clock and *)
(* of late creates.                                                        *)
(***************************************************************************)
EXTENDS KubeAPI, TLAPS

-----------------------------------------------------------------------------
(* The inductive invariant.                                                 *)

Locations == {"idle", "create", "get", "drop", "own", "vm", "dv", "secret", "return", "done"}
Results == {"none", "ok", "error", "conflict"}
CallState == [pc : Locations, kind : {"secret", "vm"}, digest : Digests \cup {0}, tries : 1..Attempts,
              fresh : BOOLEAN, seen : {"none", "exists", "transient"}, uid : Nat, bad : BOOLEAN,
              since : Nat, result : Results]

Typed ==
    /\ ready \in BOOLEAN
    /\ secret \in [digest : Digests \cup {0}, owner : Nat]
    /\ vm \in [uid : 0..Len(made), deleting : BOOLEAN]
    /\ vm.uid = 0 => vm = NoVM
    /\ dv \in 0..Len(made)
    /\ made \in Seq(Digests)
    /\ late \subseteq {"secret", "vm"} \X Digests
    /\ call \in [Calls -> CallState]
    /\ now \in Digests
    /\ faulty \in BOOLEAN
    /\ disturbed \subseteq Calls

\* What a call has, by where it is: a launch its digest, and past its verified
\* VM a UID made for it.
CallsAreSound ==
    /\ \A c \in Calls : /\ call[c].pc = "idle" => call[c] = Idle
                        /\ call[c].pc \in {"create", "get", "drop", "own"} => c \in Launches
                        /\ call[c].pc = "own" => /\ call[c].uid \in 1..Len(made)
                                                 /\ made[call[c].uid] = call[c].digest
                        /\ call[c].pc \notin {"drop", "done"} => call[c].result = "none"
                        /\ call[c].pc = "drop" => call[c].result # "ok"
    /\ \A l \in Launches : InFlight(l) => call[l].digest \in Digests

\* What the server may still apply, some launch asked for.
LateIsAsked == \A p \in late : \E l \in Launches : call[l].digest = p[2]

KubeInv == Typed /\ CallsAreSound /\ LateIsAsked

Verifies(l) == call[l].pc \in {"create", "get"} /\ call[l].kind = "vm"

\* The call has deleted a VM and goes on with what is left of it.
Deletes(c) == call[c].pc \in {"dv", "secret"}

\* What the launch has returned still runs.
Intact(l) == call[l].result = "ok" /\ vm.uid = call[l].uid /\ ~vm.deleting

\* An undisturbed launch runs beside no other launch and no deletion, and no
\* other request's Secret stands beside it once it has verified its own.  While
\* what it has returned is intact, nobody deletes it, and no later launch takes
\* the Secret for its own.
Alone(l) ==
    /\ InFlight(l) => /\ \A k \in Launches \ {l} : ~InFlight(k)
                      /\ \A c \in Calls \ {l} : ~Deletes(c)
    /\ Verifies(l) \/ call[l].pc = "own" => secret = NoSecret \/ secret.digest = call[l].digest
    /\ call[l].result = "ok" => call[l].uid \in 1..Len(made)
    /\ Intact(l) =>
          /\ secret.digest = call[l].digest /\ secret.owner = vm.uid
          /\ \A c \in Calls : /\ ~Deletes(c) /\ call[c].pc # "drop"
                              /\ Verifies(c) => ~call[c].fresh
                              /\ call[c].pc = "own" => call[c].uid = vm.uid

UndisturbedIsAlone == \A l \in Launches \ disturbed : Alone(l)

\* The calls that will give an abandoned Secret an owner or delete it.
Responsible(c) == \/ Verifies(c) /\ call[c].fresh
                  \/ call[c].pc \in {"drop", "own", "vm", "dv", "secret"}

\* Without faults nothing is late, and a Secret without an owner and without
\* a VM is somebody's business.
Abandoned == secret # NoSecret /\ secret.owner = 0 /\ (vm = NoVM \/ vm.deleting)

SecretIsSeenTo ==
    ~faulty => /\ late = {}
               /\ Abandoned => \E c \in Calls : Responsible(c)

Past(t, places) == (call[t].pc \in places /\ ~call[t].bad) \/ call[t].result = "ok"

\* Nobody makes anything again behind an undisturbed termination, so
\* what it has deleted stays away.
Last(t) ==
    call[t].pc # "idle" =>
        /\ ~Launching
        /\ Past(t, {"dv", "secret", "return"}) => vm = NoVM \/ vm.deleting
        /\ Past(t, {"secret", "return"}) => dv = 0
        /\ Past(t, {"return"}) => secret = NoSecret

TerminationIsLast == \A t \in Terminates \ disturbed : Last(t)

-----------------------------------------------------------------------------
(* What the steps of a call do, in the terms of the proofs.                 *)

LEMMA ReturnedIs ==
    ASSUME Typed, NEW c \in Calls, NEW result \in Results
    PROVE  LET r == Returned(c, result) IN
           /\ r \in CallState
           /\ r.pc = "done" /\ r.kind = "secret" /\ r.digest = call[c].digest /\ ~r.fresh
           /\ r.seen = "none" /\ r.uid = call[c].uid /\ ~r.bad /\ r.result = result
<1>1. call[c].digest \in Digests \cup {0} /\ call[c].uid \in Nat
  BY DEF Typed, CallState
<1>2. 1 \in 1..Attempts
  BY NumbersAreNumbers
<1>3. Idle \in CallState
  BY <1>2 DEF Idle, CallState, Locations, Results
<1>4. /\ Idle.kind = "secret" /\ ~Idle.fresh /\ Idle.seen = "none" /\ ~Idle.bad
  BY DEF Idle
<1>5. Returned(c, result) \in CallState
  BY <1>1, <1>3 DEF Returned, CallState, Locations
<1> QED  BY <1>3, <1>4, <1>5 DEF Returned, CallState

Moved(l, r) == /\ call' = [call EXCEPT ![l] = r]
               /\ r.digest = call[l].digest

\* The call goes on asking about the same object.
AsksOn(l, r) ==
    /\ call[l].pc \in {"create", "get"} /\ r.pc \in {"create", "get"}
    /\ r.kind = call[l].kind /\ r.fresh = call[l].fresh
    /\ r.uid = call[l].uid /\ r.result = call[l].result

\* The call fails, and takes its own Secret back unless an answer was lost.
GivesUp(l, r) ==
    /\ call[l].pc \in {"create", "get"} /\ r.pc \in {"drop", "done"}
    /\ r.pc = "drop" => Verifies(l) /\ call[l].fresh
    /\ Verifies(l) /\ call[l].fresh /\ ~faulty' => r.pc = "drop"
    /\ r.kind = "secret" /\ ~r.fresh /\ r.uid = call[l].uid
    /\ r.result \in {"error", "conflict"} /\ r.seen = "none"

Answered(l, r) ==
    /\ UNCHANGED objects /\ faulty' \in {faulty, TRUE}
    /\ AsksOn(l, r) \/ GivesUp(l, r)

AnswerLost(l, r) ==
    /\ faulty' /\ UNCHANGED dv
    /\ AsksOn(l, r) \/ GivesUp(l, r)
    /\ Unanswered(call[l].kind, call[l].digest)

SecretVerified(l, r) ==
    /\ call[l].pc \in {"create", "get"} /\ call[l].kind = "secret"
    /\ r.pc = "create" /\ r.kind = "vm" /\ r.seen = "none"
    /\ r.uid = call[l].uid /\ r.result = call[l].result
    /\ UNCHANGED <<vm, dv, made, late, faulty>>
    /\ \/ /\ secret = NoSecret /\ secret' = [digest |-> call[l].digest, owner |-> 0]
          /\ r.fresh
       \/ /\ secret # NoSecret /\ secret.digest = call[l].digest /\ secret' = secret
          /\ ~r.fresh

VMVerified(l, r) ==
    /\ Verifies(l)
    /\ r.pc = "own" /\ r.kind = "vm" /\ r.seen = "none"
    /\ r.uid = vm'.uid /\ r.result = call[l].result
    /\ UNCHANGED <<secret, dv, late, faulty>>
    /\ \/ /\ vm = NoVM /\ made' = Append(made, call[l].digest)
          /\ vm' = [uid |-> Len(made) + 1, deleting |-> FALSE]
       \/ /\ vm # NoVM /\ made[vm.uid] = call[l].digest /\ UNCHANGED <<vm, made>>

SecretDropped(l, r) ==
    /\ call[l].pc = "drop" /\ r.pc = "done"
    /\ r.kind = "secret" /\ ~r.fresh /\ r.seen = "none"
    /\ r.uid = call[l].uid /\ r.result = call[l].result
    /\ UNCHANGED <<vm, dv, made, late>>
    /\ \/ secret' = NoSecret /\ UNCHANGED faulty
       \/ secret' = secret /\ faulty'

SecretOwned(l, r) ==
    /\ call[l].pc = "own" /\ r.pc = "done"
    /\ r.kind = "secret" /\ ~r.fresh /\ r.seen = "none"
    /\ r.uid = call[l].uid /\ r.result = "ok"
    /\ secret # NoSecret /\ secret' = [secret EXCEPT !.owner = call[l].uid]
    /\ UNCHANGED <<vm, dv, made, late, faulty>>

SecretNotOwned(l, r) ==
    /\ call[l].pc = "own" /\ r.pc = "vm"
    /\ r.kind = "secret" /\ ~r.fresh /\ r.seen = "none" /\ r.uid = 0 /\ r.result = "none"
    /\ UNCHANGED <<vm, dv, made, late>>
    /\ \/ UNCHANGED <<secret, faulty>>
       \/ secret # NoSecret /\ secret' = [secret EXCEPT !.owner = call[l].uid] /\ faulty'

LaunchEffect(l, r) ==
    \/ Answered(l, r) \/ AnswerLost(l, r)
    \/ SecretVerified(l, r) \/ VMVerified(l, r)
    \/ SecretDropped(l, r) \/ SecretOwned(l, r) \/ SecretNotOwned(l, r)

LEMMA FailedEffect ==
    ASSUME KubeInv, NEW l \in Launches, NEW uncertain \in BOOLEAN,
           NEW result \in {"error", "conflict"},
           Failed(l, uncertain, result), call[l].pc \in {"create", "get"},
           uncertain => faulty'
    PROVE  \E r \in CallState : Moved(l, r) /\ GivesUp(l, r)
<1> DEFINE base == Returned(l, result)
<1> DEFINE r == [base EXCEPT !.since = call[l].since,
                    !.pc = IF Dropping(l, uncertain) THEN "drop" ELSE "done"]
<1>1. l \in Calls /\ result \in Results /\ call[l] \in CallState
  BY DEF KubeInv, Typed, Calls, Results
<1>0. base \in CallState /\ base.kind = "secret" /\ base.digest = call[l].digest /\ ~base.fresh
      /\ base.seen = "none" /\ base.uid = call[l].uid /\ base.result = result
  BY <1>1, ReturnedIs DEF KubeInv
<1>3. call' = [call EXCEPT ![l] = r]
  BY DEF Failed
<1> HIDE DEF base
<1>2. /\ r \in CallState /\ r.pc = IF Dropping(l, uncertain) THEN "drop" ELSE "done"
      /\ r.kind = "secret" /\ r.digest = call[l].digest /\ ~r.fresh
      /\ r.seen = "none" /\ r.uid = call[l].uid /\ r.result = result
  BY <1>0, <1>1 DEF CallState, Locations
<1> HIDE DEF r
<1> QED  BY <1>1, <1>2, <1>3 DEF Moved, GivesUp, Dropping, Verifies

LEMMA RetryEffect ==
    ASSUME KubeInv, NEW l \in Launches, NEW uncertain \in BOOLEAN,
           Retry(l, uncertain), call[l].pc = "get", uncertain => faulty'
    PROVE  \E r \in CallState : Moved(l, r) /\ (AsksOn(l, r) \/ GivesUp(l, r))
<1>1. CASE Failed(l, uncertain, "error")
  BY <1>1, FailedEffect
<1>2. CASE MayRetry(l) /\ call' = [call EXCEPT ![l].pc = "create", ![l].seen = "none", ![l].tries = @ + 1]
  <2> DEFINE r == [call[l] EXCEPT !.pc = "create", !.seen = "none",
                              !.tries = call[l].tries + 1]
  <2>1. call[l] \in CallState /\ call \in [Calls -> CallState] /\ l \in Calls
    BY DEF KubeInv, Typed, Calls
  <2>4. call[l].tries + 1 \in 1..Attempts
    BY <1>2, <2>1, NumbersAreNumbers DEF MayRetry, CallState
  <2>2. r \in CallState /\ r.digest = call[l].digest /\ AsksOn(l, r)
    BY <2>1, <2>4 DEF CallState, AsksOn, Locations
  <2>3. call' = [call EXCEPT ![l] = r]
    BY <1>2, <2>1 DEF CallState
  <2> QED  BY <2>2, <2>3 DEF Moved
<1> QED  BY <1>1, <1>2 DEF Retry

LEMMA SeenEffect ==
    ASSUME KubeInv, NEW l \in Launches, NEW err \in {"exists", "transient"},
           Seen(l, err), call[l].pc = "create"
    PROVE  \E r \in CallState : Moved(l, r) /\ AsksOn(l, r)
<1> DEFINE r == [call[l] EXCEPT !.pc = "get", !.seen = err]
<1>1. call[l] \in CallState /\ call \in [Calls -> CallState] /\ l \in Calls
  BY DEF KubeInv, Typed, Calls
<1>2. r \in CallState /\ r.digest = call[l].digest /\ AsksOn(l, r)
  BY <1>1 DEF CallState, AsksOn, Locations
<1>3. call' = [call EXCEPT ![l] = r]
  BY <1>1 DEF Seen
<1> QED  BY <1>2, <1>3 DEF Moved

LEMMA VerifiedEffect ==
    ASSUME KubeInv, NEW l \in Launches, NEW new \in BOOLEAN,
           Verified(l, new), call[l].pc \in {"create", "get"}, vm'.uid \in Nat
    PROVE  \E r \in CallState :
              /\ Moved(l, r) /\ r.seen = "none" /\ r.kind = "vm" /\ r.result = call[l].result
              /\ call[l].kind = "secret" => r.pc = "create" /\ r.fresh = new /\ r.uid = call[l].uid
              /\ call[l].kind = "vm" => r.pc = "own" /\ r.uid = vm'.uid
<1>1. call[l] \in CallState /\ call \in [Calls -> CallState] /\ l \in Calls /\ 1 \in 1..Attempts
  BY NumbersAreNumbers DEF KubeInv, Typed, Calls
<1>2. CASE call[l].kind = "secret"
  <2> DEFINE r == [call[l] EXCEPT !.kind = "vm", !.pc = "create", !.tries = 1,
                                  !.fresh = new, !.seen = "none"]
  <2>1. call' = [call EXCEPT ![l] = r]
    BY <1>1, <1>2 DEF Verified
  <2>2. r \in CallState /\ r.digest = call[l].digest /\ r.seen = "none" /\ r.kind = "vm"
        /\ r.result = call[l].result /\ r.pc = "create" /\ r.fresh = new /\ r.uid = call[l].uid
    BY <1>1 DEF CallState, Locations
  <2> QED  BY <1>2, <2>1, <2>2 DEF Moved
<1>3. CASE call[l].kind = "vm"
  <2> DEFINE r == [call[l] EXCEPT !.pc = "own", !.seen = "none", !.uid = vm'.uid]
  <2>1. call' = [call EXCEPT ![l] = r]
    BY <1>1, <1>3 DEF Verified
  <2>2. r \in CallState /\ r.digest = call[l].digest /\ r.seen = "none" /\ r.kind = "vm"
        /\ r.result = call[l].result /\ r.pc = "own" /\ r.uid = vm'.uid
    BY <1>1, <1>3 DEF CallState, Locations
  <2> QED  BY <1>3, <2>1, <2>2 DEF Moved
<1> QED  BY <1>1, <1>2, <1>3 DEF CallState

LEMMA VerifiedIsVerified ==
    ASSUME KubeInv, NEW l \in Launches, NEW new \in BOOLEAN,
           Verified(l, new), call[l].pc \in {"create", "get"}, UNCHANGED <<dv, late, faulty>>,
           IF new THEN ~Has(call[l].kind) /\ Put(call[l].kind, call[l].digest)
                  ELSE Has(call[l].kind) /\ SameRequest(l) /\ UNCHANGED <<secret, vm, made>>
    PROVE  \E r \in CallState : Moved(l, r) /\ (SecretVerified(l, r) \/ VMVerified(l, r))
<1>1. call[l] \in CallState /\ l \in Calls /\ made \in Seq(Digests) /\ Len(made) \in Nat
      /\ call[l].digest \in Digests
  BY DEF KubeInv, Typed, Calls, CallsAreSound, InFlight
<1>2. Len(Append(made, call[l].digest)) = Len(made) + 1
  BY <1>1
<1>3. vm'.uid \in Nat
  BY <1>1, <1>2 DEF KubeInv, Typed, Put
<1>4. PICK r \in CallState :
        /\ Moved(l, r) /\ r.seen = "none" /\ r.kind = "vm" /\ r.result = call[l].result
        /\ call[l].kind = "secret" => r.pc = "create" /\ r.fresh = new /\ r.uid = call[l].uid
        /\ call[l].kind = "vm" => r.pc = "own" /\ r.uid = vm'.uid
  BY <1>3, VerifiedEffect
<1>5. CASE call[l].kind = "secret"
  BY <1>4, <1>5 DEF SecretVerified, Has, Put, SameRequest, DigestOf
<1>6. CASE call[l].kind = "vm"
  BY <1>2, <1>4, <1>6 DEF VMVerified, Verifies, Has, Put, SameRequest, DigestOf
<1> QED  BY <1>1, <1>5, <1>6 DEF CallState

LEMMA CreateEffect ==
    ASSUME KubeInv, NEW l \in Launches, Create(l)
    PROVE  \E r \in CallState : Moved(l, r) /\ LaunchEffect(l, r)
<1> DEFINE k == call[l].kind
           d == call[l].digest
<1>0. call[l].pc = "create" /\ UNCHANGED dv
  BY DEF Create
<1>1. CASE ~Has(k) /\ Put(k, d) /\ Verified(l, TRUE) /\ UNCHANGED <<late, faulty>>
  BY <1>0, <1>1, VerifiedIsVerified DEF LaunchEffect
<1>2. CASE ((Has(k) /\ Seen(l, "exists")) \/ Seen(l, "transient"))
           /\ UNCHANGED <<secret, vm, made, late, faulty>>
  BY <1>0, <1>2, SeenEffect DEF LaunchEffect, Answered, objects
<1>3. CASE Unanswered(k, d) /\ Seen(l, "transient") /\ faulty' = TRUE
  BY <1>0, <1>3, SeenEffect DEF LaunchEffect, AnswerLost
<1>4. CASE Failed(l, FALSE, "error") /\ UNCHANGED <<secret, vm, made, late, faulty>>
  BY <1>0, <1>4, FailedEffect DEF LaunchEffect, Answered, objects
<1>5. CASE Unanswered(k, d) /\ Failed(l, FALSE, "error") /\ faulty' = TRUE
  BY <1>0, <1>5, FailedEffect DEF LaunchEffect, AnswerLost
<1> QED  BY <1>1, <1>2, <1>3, <1>4, <1>5 DEF Create

LEMMA GetEffect ==
    ASSUME KubeInv, NEW l \in Launches, Get(l)
    PROVE  \E r \in CallState : Moved(l, r) /\ LaunchEffect(l, r)
<1> DEFINE k == call[l].kind
           unknown == call[l].seen = "transient"
<1>0. call[l].pc = "get" /\ UNCHANGED objects /\ UNCHANGED <<secret, vm, dv, made, late>>
  BY DEF Get, objects
<1>1. CASE (\/ ~Has(k) /\ unknown /\ Retry(l, FALSE) /\ UNCHANGED faulty
            \/ Retry(l, unknown) /\ faulty' = TRUE)
  BY <1>0, <1>1, RetryEffect DEF LaunchEffect, Answered
<1>2. CASE (\/ ~Has(k) /\ ~unknown /\ Failed(l, FALSE, "error") /\ UNCHANGED faulty
            \/ Failed(l, unknown, "error") /\ faulty' = TRUE
            \/ Has(k) /\ ~SameRequest(l) /\ Failed(l, FALSE, "conflict") /\ UNCHANGED faulty)
  BY <1>0, <1>2, FailedEffect DEF LaunchEffect, Answered
<1>3. CASE Has(k) /\ SameRequest(l) /\ UNCHANGED vm /\ Verified(l, FALSE) /\ UNCHANGED faulty
  BY <1>0, <1>3, VerifiedIsVerified DEF LaunchEffect
<1> QED  BY <1>1, <1>2, <1>3 DEF Get

LEMMA LaunchFaulty ==
    ASSUME KubeInv, NEW l \in Launches, LaunchStep(l)
    PROVE  faulty' \in BOOLEAN
  BY DEF KubeInv, Typed, LaunchStep, Create, Get, DropSecret, OwnSecret

LEMMA LaunchStepEffect ==
    ASSUME KubeInv, NEW l \in Launches, LaunchStep(l)
    PROVE  /\ UNCHANGED <<ready, now, disturbed>>
           /\ \E r \in CallState : Moved(l, r) /\ LaunchEffect(l, r)
<1>0. l \in Calls /\ call[l] \in CallState /\ call \in [Calls -> CallState]
  BY DEF KubeInv, Typed, Calls
<1>1. CASE Create(l)
  BY <1>1, CreateEffect DEF Create
<1>2. CASE Get(l)
  BY <1>2, GetEffect DEF Get
<1>3. CASE DropSecret(l)
  <2> DEFINE r == Returned(l, call[l].result)
  <2>1. r \in CallState /\ r.pc = "done" /\ r.kind = "secret" /\ r.digest = call[l].digest
        /\ ~r.fresh /\ r.seen = "none" /\ r.uid = call[l].uid /\ r.result = call[l].result
    BY <1>0, ReturnedIs DEF KubeInv, CallState
  <2>2. call' = [call EXCEPT ![l] = r]
    BY <1>0, <1>3 DEF DropSecret
  <2> HIDE DEF r
  <2> QED  BY <1>3, <2>1, <2>2 DEF DropSecret, LaunchEffect, SecretDropped, Moved
<1>4. CASE OwnSecret(l)
  <2>1. CASE /\ secret # NoSecret
             /\ secret' = [secret EXCEPT !.owner = call[l].uid]
             /\ call' = [call EXCEPT ![l] = Returned(l, "ok")]
             /\ UNCHANGED faulty
    <3> DEFINE r == Returned(l, "ok")
    <3>1. r \in CallState /\ r.pc = "done" /\ r.kind = "secret" /\ r.digest = call[l].digest
          /\ ~r.fresh /\ r.seen = "none" /\ r.uid = call[l].uid /\ r.result = "ok"
      BY <1>0, ReturnedIs DEF KubeInv, Results
    <3> HIDE DEF r
    <3> QED  BY <1>4, <2>1, <3>1 DEF r, OwnSecret, LaunchEffect, SecretOwned, Moved
  <2>2. CASE /\ \/ UNCHANGED <<secret, faulty>>
                \/ secret # NoSecret /\ secret' = [secret EXCEPT !.owner = call[l].uid] /\ faulty' = TRUE
             /\ call' = [call EXCEPT ![l] = [Idle EXCEPT !.pc = "vm", !.digest = call[l].digest,
                                                         !.since = call[l].since]]
    <3> DEFINE r == [Idle EXCEPT !.pc = "vm", !.digest = call[l].digest, !.since = call[l].since]
    <3>1. Idle \in CallState /\ Idle.kind = "secret" /\ ~Idle.fresh /\ Idle.seen = "none"
          /\ Idle.uid = 0 /\ Idle.result = "none"
      BY NumbersAreNumbers DEF Idle, CallState, Locations, Results
    <3>2. r \in CallState /\ r.pc = "vm" /\ r.kind = "secret" /\ r.digest = call[l].digest
          /\ ~r.fresh /\ r.seen = "none" /\ r.uid = 0 /\ r.result = "none"
      BY <1>0, <3>1 DEF CallState, Locations
    <3> HIDE DEF r
    <3> QED  BY <1>4, <2>2, <3>2 DEF r, OwnSecret, LaunchEffect, SecretNotOwned, Moved
  <2> QED  BY <1>4, <2>1, <2>2 DEF OwnSecret
<1> QED  BY <1>1, <1>2, <1>3, <1>4 DEF LaunchStep

\* A deletion moves its call on and remembers an error.
Deleted(c, r, next) ==
    /\ call' = [call EXCEPT ![c] = r]
    /\ r.pc = next /\ r.kind = call[c].kind /\ r.digest = call[c].digest /\ r.fresh = call[c].fresh
    /\ r.seen = call[c].seen /\ r.uid = call[c].uid /\ r.result = call[c].result
    /\ \/ r.bad = call[c].bad /\ faulty' = faulty
       \/ r.bad /\ faulty'

LEMMA DeletingEffect ==
    ASSUME KubeInv, NEW c \in Calls, NEW next \in Locations, NEW failed \in BOOLEAN,
           call' = IF failed THEN [call EXCEPT ![c] = [@ EXCEPT !.pc = next, !.bad = TRUE]]
                   ELSE [call EXCEPT ![c].pc = next],
           faulty' = IF failed THEN TRUE ELSE faulty
    PROVE  \E r \in CallState : Deleted(c, r, next) /\ (failed => r.bad)
                                /\ (~failed => r.bad = call[c].bad)
<1>1. call[c] \in CallState /\ call \in [Calls -> CallState]
  BY DEF KubeInv, Typed
<1>2. CASE failed
  <2> DEFINE r == [call[c] EXCEPT !.pc = next, !.bad = TRUE]
  <2>1. r \in CallState /\ r.pc = next /\ r.kind = call[c].kind /\ r.digest = call[c].digest
        /\ r.fresh = call[c].fresh /\ r.seen = call[c].seen /\ r.uid = call[c].uid
        /\ r.result = call[c].result /\ r.bad
    BY <1>1 DEF CallState
  <2>2. call' = [call EXCEPT ![c] = r]
    BY <1>1, <1>2
  <2> QED  BY <1>2, <2>1, <2>2 DEF Deleted
<1>3. CASE ~failed
  <2> DEFINE r == [call[c] EXCEPT !.pc = next]
  <2>1. r \in CallState /\ r.pc = next /\ r.kind = call[c].kind /\ r.digest = call[c].digest
        /\ r.fresh = call[c].fresh /\ r.seen = call[c].seen /\ r.uid = call[c].uid
        /\ r.result = call[c].result /\ r.bad = call[c].bad
    BY <1>1 DEF CallState
  <2>2. call' = [call EXCEPT ![c] = r]
    BY <1>1, <1>3
  <2> QED  BY <1>3, <2>1, <2>2 DEF Deleted
<1> QED  BY <1>2, <1>3

\* Whom a deletion disturbs, at least.
Disturbs(c) == /\ disturbed \cup {l \in Launches \ {c} : InFlight(l)} \subseteq disturbed'
               /\ disturbed' \subseteq Calls

LEMMA DeletingDisturbs ==
    ASSUME KubeInv, NEW c \in Calls, NEW S, S \in {{l \in Launches \ {c} : InFlight(l)},
                                                 {l \in Launches \ {c} : call[l].pc # "idle"}},
           disturbed' = disturbed \cup S
    PROVE  Disturbs(c)
  BY DEF Disturbs, KubeInv, Typed, Calls, InFlight

\* A deletion that was not confirmed may have happened or not.
LEMMA DeleteVMEffect ==
    ASSUME KubeInv, NEW c \in Calls, DeleteVM(c)
    PROVE  /\ call[c].pc = "vm" /\ Disturbs(c)
           /\ \/ vm' = NoVM \/ vm'.deleting
              \/ {l \in Launches \ {c} : call[l].pc # "idle"} \subseteq disturbed'
           /\ UNCHANGED <<ready, secret, dv, made, late, now>>
           /\ vm' \in {vm, IF vm = NoVM THEN NoVM ELSE [vm EXCEPT !.deleting = TRUE]}
           /\ \E r \in CallState : Deleted(c, r, "dv") /\ (r.bad \/ vm' = NoVM \/ vm'.deleting)
<1>1. call[c].pc = "vm" /\ Disturbs(c)
      /\ UNCHANGED <<ready, secret, dv, made, late, now>>
  BY DeletingDisturbs DEF DeleteVM, Deleting
<1>2. CASE vm' = IF vm = NoVM THEN NoVM ELSE [vm EXCEPT !.deleting = TRUE]
  <2>1. vm' = NoVM \/ vm'.deleting
    BY <1>2 DEF KubeInv, Typed
  <2>2. \/ call' = [call EXCEPT ![c].pc = "dv"] /\ faulty' = faulty
        \/ call' = [call EXCEPT ![c] = [@ EXCEPT !.pc = "dv", !.bad = TRUE]] /\ faulty' = TRUE
    BY DEF DeleteVM, Deleting
  <2> QED  BY <1>1, <1>2, <2>1, <2>2, DeletingEffect DEF Locations
<1>3. CASE vm' = vm /\ call' = [call EXCEPT ![c] = [@ EXCEPT !.pc = "dv", !.bad = TRUE]]
           /\ disturbed' = disturbed \cup {l \in Launches \ {c} : call[l].pc # "idle"}
           /\ faulty' = TRUE
  BY <1>1, <1>3, DeletingEffect DEF Locations
<1> QED  BY <1>1, <1>2, <1>3 DEF DeleteVM, Deleting

LEMMA DeleteDataVolumeEffect ==
    ASSUME KubeInv, NEW c \in Calls, DeleteDataVolume(c)
    PROVE  /\ call[c].pc = "dv" /\ Disturbs(c)
           /\ UNCHANGED <<ready, secret, vm, made, late, now>>
           /\ dv' \in {dv, 0}
           /\ \E r \in CallState : Deleted(c, r, "secret") /\ (r.bad \/ dv' = 0)
<1>1. call[c].pc = "dv" /\ Disturbs(c)
      /\ UNCHANGED <<ready, secret, vm, made, late, now>>
  BY DeletingDisturbs DEF DeleteDataVolume, Deleting
<1>2. CASE dv' = 0 /\ call' = [call EXCEPT ![c].pc = "secret"] /\ faulty' = faulty
  BY <1>1, <1>2, DeletingEffect DEF Locations
<1>3. CASE dv' \in {dv, 0} /\ call' = [call EXCEPT ![c] = [@ EXCEPT !.pc = "secret", !.bad = TRUE]]
           /\ faulty' = TRUE
  BY <1>1, <1>3, DeletingEffect DEF Locations
<1> QED  BY <1>2, <1>3 DEF DeleteDataVolume, Deleting

LEMMA DeleteSecretEffect ==
    ASSUME KubeInv, NEW c \in Calls, DeleteSecret(c)
    PROVE  /\ call[c].pc = "secret" /\ Disturbs(c)
           /\ UNCHANGED <<ready, vm, dv, made, late, now>>
           /\ secret' \in {secret, NoSecret}
           /\ \E r \in CallState : Deleted(c, r, "return") /\ (r.bad \/ secret' = NoSecret)
                                   /\ (secret' = NoSecret \/ faulty')
<1>1. call[c].pc = "secret" /\ Disturbs(c)
      /\ UNCHANGED <<ready, vm, dv, made, late, now>>
  BY DeletingDisturbs DEF DeleteSecret, Deleting
<1>2. CASE secret' = NoSecret /\ call' = [call EXCEPT ![c].pc = "return"] /\ faulty' = faulty
  BY <1>1, <1>2, DeletingEffect DEF Locations
<1>3. CASE secret' \in {secret, NoSecret} /\ faulty' = TRUE
           /\ call' = [call EXCEPT ![c] = [@ EXCEPT !.pc = "return", !.bad = TRUE]]
  BY <1>1, <1>3, DeletingEffect DEF Locations
<1> QED  BY <1>2, <1>3 DEF DeleteSecret, Deleting

LEMMA TerminateReturnEffect ==
    ASSUME KubeInv, NEW c \in Calls, TerminateReturn(c)
    PROVE  /\ call[c].pc = "return" /\ UNCHANGED <<ready, secret, vm, dv, made, late, now, faulty, disturbed>>
           /\ \E r \in CallState :
                 /\ call' = [call EXCEPT ![c] = r]
                 /\ r.pc = "done" /\ r.kind = "secret" /\ r.digest = call[c].digest /\ ~r.fresh
                 /\ r.seen = "none" /\ r.uid = call[c].uid /\ ~r.bad
                 /\ r.result = IF c \in Launches \/ call[c].bad THEN "error" ELSE "ok"
<1> DEFINE res == IF c \in Launches \/ call[c].bad THEN "error" ELSE "ok"
           r == Returned(c, res)
<1>1. res \in Results
  BY DEF Results
<1>2. call' = [call EXCEPT ![c] = r]
  BY DEF TerminateReturn
<1> HIDE DEF res
<1>3. r \in CallState /\ r.pc = "done" /\ r.kind = "secret" /\ r.digest = call[c].digest
      /\ ~r.fresh /\ r.seen = "none" /\ r.uid = call[c].uid /\ ~r.bad /\ r.result = res
  BY <1>1, ReturnedIs DEF KubeInv
<1> HIDE DEF r
<1> QED  BY <1>2, <1>3 DEF res, TerminateReturn, objects, history

-----------------------------------------------------------------------------
(* The operators preserve the types.                                        *)

ObjectsTyped ==
    /\ secret \in [digest : Digests \cup {0}, owner : Nat]
    /\ vm \in [uid : 0..Len(made), deleting : BOOLEAN]
    /\ vm.uid = 0 => vm = NoVM
    /\ dv \in 0..Len(made)
    /\ made \in Seq(Digests)

\* What has been made keeps its UID and its digest.
MadeGrows ==
    /\ Len(made) \in Nat /\ Len(made') \in Nat /\ Len(made) <= Len(made')
    /\ \A i \in 1..Len(made) : made'[i] = made[i]

\* A put makes its object, with the digest it was given.
LEMMA PutEffect ==
    ASSUME ObjectsTyped, NEW k \in {"secret", "vm"}, NEW d \in Digests, Put(k, d), ~Has(k),
           UNCHANGED dv
    PROVE  /\ ObjectsTyped' /\ MadeGrows
           /\ k = "secret" => /\ secret = NoSecret /\ secret' = [digest |-> d, owner |-> 0]
                              /\ UNCHANGED <<vm, made>>
           /\ k = "vm" => /\ vm = NoVM /\ made' = Append(made, d) /\ UNCHANGED secret
                          /\ Len(made') = Len(made) + 1
                          /\ vm' = [uid |-> Len(made'), deleting |-> FALSE]
                          /\ made'[Len(made')] = d
<1>1. CASE k = "secret"
  BY <1>1 DEF ObjectsTyped, Put, Has, MadeGrows, NoSecret, NoVM
<1>2. CASE k = "vm"
  <2>1. made' = Append(made, d) /\ vm = NoVM /\ UNCHANGED secret
        /\ vm' = [uid |-> Len(made'), deleting |-> FALSE]
    BY <1>2 DEF Put, Has
  <2>2. /\ made' \in Seq(Digests) /\ Len(made') = Len(made) + 1 /\ Len(made) \in Nat
        /\ \A i \in 1..Len(made) : made'[i] = made[i]
        /\ made'[Len(made')] = d
    BY <2>1 DEF ObjectsTyped
  <2>3. dv' \in 0..Len(made') /\ vm' \in [uid : 0..Len(made'), deleting : BOOLEAN] /\ vm'.uid # 0
    BY <2>1, <2>2 DEF ObjectsTyped
  <2> QED  BY <1>2, <2>1, <2>2, <2>3 DEF ObjectsTyped, MadeGrows
<1> QED  BY <1>1, <1>2

\* No answer leaves the objects well-formed.
LEMMA UnansweredEffect ==
    ASSUME ObjectsTyped, NEW k \in {"secret", "vm"}, NEW d \in Digests, Unanswered(k, d),
           late \subseteq {"secret", "vm"} \X Digests, UNCHANGED dv
    PROVE  /\ ObjectsTyped' /\ MadeGrows
           /\ late' \subseteq {"secret", "vm"} \X Digests
           /\ late' \subseteq late \cup {<<k, d>>}
<1>1. CASE ~Has(k) /\ Put(k, d) /\ UNCHANGED late
  BY <1>1, PutEffect
<1>2. CASE UNCHANGED <<secret, vm, made>> /\ (late' = late \/ late' = late \cup {<<k, d>>})
  BY <1>2 DEF ObjectsTyped, MadeGrows
<1> QED  BY <1>1, <1>2 DEF Unanswered

\* One call moves to a place it may be in.
LEMMA OneMoves ==
    ASSUME KubeInv, NEW c \in Calls, NEW r \in CallState, call' = [call EXCEPT ![c] = r],
           MadeGrows, r.pc # "idle",
           r.pc \in {"create", "get", "drop", "own"} => c \in Launches,
           r.pc = "own" => r.uid \in 1..Len(made') /\ made'[r.uid] = r.digest,
           r.pc \notin {"drop", "done"} => r.result = "none",
           r.pc = "drop" => r.result # "ok",
           c \in Launches /\ r.pc # "done" => r.digest \in Digests
    PROVE  CallsAreSound' /\ call' \in [Calls -> CallState]
<1>1. call \in [Calls -> CallState] /\ call'[c] = r
  BY DEF KubeInv, Typed
<1>2. \A b \in Calls \ {c} : call'[b] = call[b]
  BY <1>1
<1>3. ASSUME NEW b \in Calls
      PROVE  /\ call'[b].pc = "idle" => call'[b] = Idle
             /\ call'[b].pc \in {"create", "get", "drop", "own"} => b \in Launches
             /\ call'[b].pc = "own" => /\ call'[b].uid \in 1..Len(made')
                                       /\ made'[call'[b].uid] = call'[b].digest
             /\ call'[b].pc \notin {"drop", "done"} => call'[b].result = "none"
             /\ call'[b].pc = "drop" => call'[b].result # "ok"
  <2>1. CASE b = c
    BY <1>1, <2>1
  <2>2. CASE b # c
    <3>1. call'[b] = call[b]
      BY <1>2, <2>2
    <3>2. call[b].pc = "own" => call[b].uid \in 1..Len(made) /\ made[call[b].uid] = call[b].digest
      BY DEF KubeInv, CallsAreSound
    <3>3. call[b].pc = "own" => call[b].uid \in 1..Len(made') /\ made'[call[b].uid] = call[b].digest
      BY <3>2 DEF MadeGrows
    <3> QED  BY <3>1, <3>3 DEF KubeInv, CallsAreSound
  <2> QED  BY <2>1, <2>2
<1>4. ASSUME NEW b \in Launches, call'[b].pc \notin {"idle", "done"}
      PROVE  call'[b].digest \in Digests
  BY <1>1, <1>2, <1>4 DEF KubeInv, CallsAreSound, InFlight, Calls
<1> QED  BY <1>1, <1>3, <1>4 DEF CallsAreSound, InFlight

\* A request is remembered as long as the server may apply it.
LEMMA StillAsked ==
    ASSUME KubeInv, NEW c \in Calls, NEW r \in CallState, call' = [call EXCEPT ![c] = r],
           r.digest = call[c].digest \/ call[c].digest = 0,
           \A p \in late' \ late : c \in Launches /\ p[2] = r.digest
    PROVE  LateIsAsked'
<1>1. call \in [Calls -> CallState] /\ late \subseteq {"secret", "vm"} \X Digests /\ 0 \notin Digests
  BY NumbersAreNumbers DEF KubeInv, Typed, Digests
<1>2. ASSUME NEW p \in late'
      PROVE  \E l \in Launches : call'[l].digest = p[2]
  <2>1. CASE p \in late
    <3>1. PICK l \in Launches : call[l].digest = p[2]
      BY <2>1 DEF KubeInv, LateIsAsked
    <3>2. p[2] \in Digests
      BY <1>1, <2>1
    <3>3. call'[l].digest = p[2]
      BY <1>1, <3>1, <3>2 DEF Calls
    <3> QED  BY <3>3
  <2>2. CASE p \notin late
    BY <1>1, <2>2
  <2> QED  BY <2>1, <2>2
<1> QED  BY <1>2 DEF LateIsAsked

-----------------------------------------------------------------------------
(* KubeInv is invariant.                                                    *)

LEMMA KubeInvInit == Init => KubeInv
<1> SUFFICES ASSUME Init PROVE KubeInv
  OBVIOUS
<1>1. Idle \in CallState /\ Idle.pc = "idle" /\ Idle.result = "none"
  BY NumbersAreNumbers DEF Idle, CallState, Locations, Results
<1>2. Typed
  <2>1. made = <<>> /\ made \in Seq(Digests) /\ Len(made) = 0
    BY DEF Init
  <2>2. secret = [digest |-> 0, owner |-> 0] /\ vm = [uid |-> 0, deleting |-> FALSE]
    BY DEF Init, NoSecret, NoVM
  <2>3. call \in [Calls -> CallState]
    BY <1>1 DEF Init
  <2>4. now \in Digests
    BY NumbersAreNumbers DEF Init, Digests
  <2>5. secret \in [digest : Digests \cup {0}, owner : Nat] /\ vm \in [uid : 0..Len(made), deleting : BOOLEAN]
        /\ vm = NoVM
    BY <2>1, <2>2 DEF NoVM
  <2>6. ready \in BOOLEAN /\ faulty \in BOOLEAN /\ disturbed \subseteq Calls
    BY DEF Init
  <2>7. late \subseteq {"secret", "vm"} \X Digests
    BY Zenon DEF Init
  <2>8. dv \in 0..Len(made)
    BY <2>1 DEF Init
  <2> QED  BY <2>1, <2>3, <2>4, <2>5, <2>6, <2>7, <2>8 DEF Typed
<1>3. CallsAreSound /\ LateIsAsked
  BY <1>1 DEF Init, CallsAreSound, LateIsAsked, InFlight, Calls
<1> QED  BY <1>2, <1>3 DEF KubeInv

\* A new call of Launch is at its first create with the digest of its time.
LEMMA LaunchStartEffect ==
    ASSUME KubeInv, NEW l \in Launches, NEW time \in now..MaxNow, LaunchStart(l, time)
    PROVE  /\ ready /\ call[l].pc = "idle" /\ now' = time /\ time \in Digests
           /\ UNCHANGED <<ready, secret, vm, dv, made, late, faulty>>
           /\ disturbed' = disturbed \cup {c \in Calls : InFlight(c)}
                                     \cup {t \in Terminates : call[t].pc # "idle"}
                                     \cup IF {c \in Calls : InFlight(c)} = {} THEN {} ELSE {l}
           /\ \A k \in Launches : InFlight(k) => vm = NoVM
           /\ \E r \in CallState :
                 /\ call' = [call EXCEPT ![l] = r]
                 /\ r.pc = "create" /\ r.kind = "secret" /\ ~r.fresh /\ r.uid = 0
                 /\ r.seen = "none" /\ r.result = "none" /\ r.digest = time
<1> DEFINE r == [Idle EXCEPT !.pc = "create", !.digest = time, !.since = Len(made)]
<1>1. Idle \in CallState /\ Idle.kind = "secret" /\ ~Idle.fresh /\ Idle.uid = 0
      /\ Idle.seen = "none" /\ Idle.result = "none"
  BY NumbersAreNumbers DEF Idle, CallState, Locations, Results
<1>2. time \in Digests /\ Len(made) \in Nat
  BY NumbersAreNumbers DEF KubeInv, Typed, Digests
<1>3. r \in CallState /\ r.pc = "create" /\ r.kind = "secret" /\ ~r.fresh /\ r.uid = 0
      /\ r.seen = "none" /\ r.result = "none" /\ r.digest = time
  BY <1>1, <1>2 DEF CallState, Locations
<1>4. call' = [call EXCEPT ![l] = r]
  BY DEF LaunchStart
<1>5. \A k \in Launches : InFlight(k) => vm = NoVM
  BY DEF LaunchStart, Calls
<1> HIDE DEF r
<1> QED  BY <1>2, <1>3, <1>4, <1>5 DEF LaunchStart, objects

LEMMA TerminateStartEffect ==
    ASSUME KubeInv, NEW t \in Terminates, TerminateStart(t)
    PROVE  /\ call[t].pc = "idle"
           /\ UNCHANGED <<ready, secret, vm, dv, made, late, now, faulty>>
           /\ disturbed' = IF Launching THEN disturbed \cup {t} ELSE disturbed
           /\ \E r \in CallState :
                 /\ call' = [call EXCEPT ![t] = r]
                 /\ r.pc = "vm" /\ r.kind = "secret" /\ ~r.fresh /\ r.uid = 0
                 /\ r.seen = "none" /\ r.result = "none" /\ r.digest = call[t].digest
<1> DEFINE r == [call[t] EXCEPT !.pc = "vm"]
<1>1. t \in Calls /\ call \in [Calls -> CallState] /\ call[t] \in CallState /\ call[t] = Idle
  BY DEF KubeInv, Typed, Calls, CallsAreSound, TerminateStart
<1>2. Idle.kind = "secret" /\ ~Idle.fresh /\ Idle.uid = 0 /\ Idle.seen = "none" /\ Idle.result = "none"
  BY DEF Idle
<1>3. r \in CallState /\ r.pc = "vm" /\ r.kind = "secret" /\ ~r.fresh /\ r.uid = 0
      /\ r.seen = "none" /\ r.result = "none" /\ r.digest = call[t].digest
  BY <1>1, <1>2 DEF CallState, Locations
<1>4. call' = [call EXCEPT ![t] = r]
  BY <1>1 DEF TerminateStart
<1> HIDE DEF r
<1> QED  BY <1>3, <1>4 DEF TerminateStart, objects

\* A crash ends every call in flight and changes no other.
LEMMA CrashEffect ==
    ASSUME KubeInv, Crash
    PROVE  /\ UNCHANGED <<secret, vm, dv, made, late, now, disturbed>> /\ faulty' = TRUE /\ ready' = FALSE
           /\ call' \in [Calls -> CallState]
           /\ \A c \in Calls :
                 /\ ~InFlight(c) => call'[c] = call[c]
                 /\ InFlight(c) => /\ call'[c].pc = "done" /\ call'[c].result = "error"
                                   /\ call'[c].kind = "secret" /\ ~call'[c].fresh
                                   /\ call'[c].seen = "none" /\ call'[c].uid = call[c].uid
                 /\ call'[c].digest = call[c].digest
<1>1. call \in [Calls -> CallState]
  BY DEF KubeInv, Typed
<1>2. \A c \in Calls : LET r == Returned(c, "error") IN
         /\ r \in CallState
         /\ r.pc = "done" /\ r.kind = "secret" /\ r.digest = call[c].digest /\ ~r.fresh
         /\ r.seen = "none" /\ r.uid = call[c].uid /\ ~r.bad /\ r.result = "error"
  BY ReturnedIs DEF KubeInv, Results
<1>3. call' = [c \in Calls |-> IF InFlight(c) THEN Returned(c, "error") ELSE call[c]]
  BY DEF Crash
<1>4. call' \in [Calls -> CallState]
  BY <1>1, <1>2, <1>3
<1> QED  BY <1>2, <1>3, <1>4 DEF Crash, objects

LEMMA LaunchKeepsInv ==
    ASSUME KubeInv, NEW l \in Launches, LaunchStep(l)
    PROVE  KubeInv'
<1>0. /\ l \in Calls /\ call[l] \in CallState /\ call[l].digest \in Digests
      /\ ObjectsTyped /\ late \subseteq {"secret", "vm"} \X Digests
      /\ call[l].pc \notin {"drop", "done"} => call[l].result = "none"
      /\ call[l].pc = "drop" => call[l].result # "ok"
  BY DEF KubeInv, Typed, ObjectsTyped, Calls, CallsAreSound, InFlight, LaunchStep, Create, Get,
         DropSecret, OwnSecret
<1>1. UNCHANGED <<ready, now, disturbed>> /\ \E r \in CallState : Moved(l, r) /\ LaunchEffect(l, r)
  BY LaunchStepEffect
<1>2. PICK r \in CallState : Moved(l, r) /\ LaunchEffect(l, r)
  BY <1>1
<1> DEFINE Kept ==
             /\ ObjectsTyped' /\ MadeGrows /\ faulty' \in BOOLEAN
             /\ late' \subseteq {"secret", "vm"} \X Digests
             /\ late' \subseteq late \cup {<<call[l].kind, call[l].digest>>}
             /\ r.pc \in {"create", "get", "own", "drop", "vm", "done"}
             /\ r.pc = "own" => r.uid \in 1..Len(made') /\ made'[r.uid] = r.digest
             /\ r.pc \notin {"drop", "done"} => r.result = "none"
             /\ r.pc = "drop" => r.result # "ok"
<1>9. AsksOn(l, r) \/ GivesUp(l, r) =>
          /\ r.pc \in {"create", "get", "drop", "done"}
          /\ r.pc \notin {"drop", "done"} => r.result = "none"
          /\ r.pc = "drop" => r.result # "ok"
  BY <1>0 DEF AsksOn, GivesUp
<1>10. UNCHANGED <<vm, dv, made>> /\ secret' \in [digest : Digests \cup {0}, owner : Nat]
       => ObjectsTyped' /\ MadeGrows
  BY <1>0 DEF ObjectsTyped, MadeGrows
<1>11. secret \in [digest : Digests \cup {0}, owner : Nat] /\ NoSecret \in [digest : Digests \cup {0}, owner : Nat]
       /\ faulty \in BOOLEAN
  BY DEF KubeInv, Typed, NoSecret
<1>3. ASSUME Answered(l, r) PROVE Kept
  BY <1>0, <1>3, <1>9, <1>10, <1>11 DEF Answered, objects
<1>4. ASSUME AnswerLost(l, r) PROVE Kept
  <2>1. ObjectsTyped' /\ MadeGrows /\ late' \subseteq {"secret", "vm"} \X Digests
        /\ late' \subseteq late \cup {<<call[l].kind, call[l].digest>>}
    BY <1>0, <1>4, UnansweredEffect DEF AnswerLost, CallState
  <2>2. faulty' \in BOOLEAN
    BY <1>0, <1>4, LaunchFaulty
  <2> QED  BY <1>4, <1>9, <2>1, <2>2 DEF AnswerLost
<1>5. ASSUME SecretVerified(l, r) PROVE Kept
  <2>1. secret' \in [digest : Digests \cup {0}, owner : Nat]
    BY <1>0, <1>5, <1>11 DEF SecretVerified
  <2> QED  BY <1>0, <1>5, <1>10, <1>11, <2>1 DEF SecretVerified
<1>6. ASSUME VMVerified(l, r) PROVE Kept
  <2>1. CASE UNCHANGED <<vm, made>>
    <3>1. vm # NoVM /\ made[vm.uid] = call[l].digest
      BY <1>0, <1>6, <2>1 DEF VMVerified, ObjectsTyped
    <3>2. vm.uid \in 1..Len(made)
      BY <1>0, <3>1 DEF ObjectsTyped
    <3>3. ObjectsTyped' /\ MadeGrows /\ late' = late /\ faulty' = faulty
      BY <1>6, <1>10, <1>11, <2>1 DEF VMVerified
    <3>4. r.pc = "own" /\ r.result = "none" /\ r.uid = vm.uid /\ made' = made
      BY <1>0, <1>6, <2>1 DEF VMVerified, Verifies
    <3> QED  BY <1>0, <1>2, <1>11, <3>1, <3>2, <3>3, <3>4 DEF Moved
  <2>2. CASE vm = NoVM /\ made' = Append(made, call[l].digest)
             /\ vm' = [uid |-> Len(made) + 1, deleting |-> FALSE]
    <3>1. Put("vm", call[l].digest) /\ ~Has("vm")
      BY <1>0, <1>6, <2>2 DEF Put, Has, VMVerified, ObjectsTyped
    <3>2. ObjectsTyped' /\ MadeGrows /\ Len(made') = Len(made) + 1
          /\ made'[Len(made')] = call[l].digest
      BY <1>0, <1>6, <3>1, PutEffect DEF VMVerified
    <3>4. r.pc = "own" /\ r.result = "none" /\ r.uid = Len(made') /\ late' = late /\ faulty' = faulty
      BY <1>0, <1>6, <2>2, <3>2 DEF VMVerified, Verifies
    <3>5. Len(made') \in 1..Len(made')
      BY <3>2 DEF MadeGrows
    <3> QED  BY <1>0, <1>2, <1>11, <3>2, <3>4, <3>5 DEF Moved
  <2> QED  BY <1>6, <2>1, <2>2 DEF VMVerified
<1>7. ASSUME SecretDropped(l, r) \/ SecretOwned(l, r) \/ SecretNotOwned(l, r) PROVE Kept
  <2>1. [secret EXCEPT !.owner = call[l].uid] \in [digest : Digests \cup {0}, owner : Nat]
    BY <1>0, <1>11 DEF CallState
  <2>2. secret' \in [digest : Digests \cup {0}, owner : Nat]
    BY <1>7, <1>11, <2>1 DEF SecretDropped, SecretOwned, SecretNotOwned
  <2>3. faulty' \in BOOLEAN
    BY <1>0, <1>7, LaunchFaulty
  <2> QED  BY <1>0, <1>7, <1>10, <2>2, <2>3 DEF SecretDropped, SecretOwned, SecretNotOwned
<1>8. Kept
  BY <1>2, <1>3, <1>4, <1>5, <1>6, <1>7 DEF LaunchEffect
<1> HIDE DEF Kept
<1>12. CallsAreSound' /\ call' \in [Calls -> CallState]
  BY <1>0, <1>2, <1>8, OneMoves DEF Moved, Kept
<1>13. LateIsAsked'
  <2>1. \A p \in late' \ late : p[2] = r.digest
    BY <1>2, <1>8 DEF Moved, Kept
  <2> QED  BY <1>0, <1>2, <2>1, StillAsked DEF Moved
<1> QED  BY <1>1, <1>8, <1>12, <1>13 DEF Kept, KubeInv, Typed, ObjectsTyped

LEMMA TerminateKeepsInv ==
    ASSUME KubeInv, NEW c \in Calls, TerminateStep(c)
    PROVE  KubeInv'
<1>0. /\ call[c] \in CallState /\ ObjectsTyped /\ call[c].result = "none"
      /\ c \in Launches => call[c].digest \in Digests
      /\ secret \in [digest : Digests \cup {0}, owner : Nat]
      /\ NoSecret \in [digest : Digests \cup {0}, owner : Nat]
      /\ NoVM \in [uid : 0..Len(made), deleting : BOOLEAN] /\ NoVM.uid = 0
      /\ Len(made) \in Nat /\ faulty \in BOOLEAN
  BY DEF KubeInv, Typed, ObjectsTyped, CallsAreSound, InFlight, TerminateStep, DeleteVM,
         DeleteDataVolume, DeleteSecret, TerminateReturn, Deleting, NoSecret, NoVM
<1>1. CASE DeleteVM(c)
  <2>1. PICK r \in CallState : Deleted(c, r, "dv")
    BY <1>1, DeleteVMEffect
  <2>2. UNCHANGED <<ready, secret, dv, made, late, now>> /\ Disturbs(c)
        /\ vm' \in {vm, NoVM, [vm EXCEPT !.deleting = TRUE]} /\ (vm' = NoVM \/ vm # NoVM)
    BY <1>1, DeleteVMEffect
  <2>5. vm' \in [uid : 0..Len(made), deleting : BOOLEAN] /\ (vm'.uid = 0 => vm' = NoVM)
    BY <1>0, <2>2 DEF ObjectsTyped
  <2>3. ObjectsTyped' /\ MadeGrows
    BY <1>0, <2>2, <2>5 DEF ObjectsTyped, MadeGrows
  <2>4. CallsAreSound' /\ call' \in [Calls -> CallState] /\ LateIsAsked'
    BY <1>0, <2>1, <2>2, <2>3, OneMoves, StillAsked DEF Deleted
  <2> QED  BY <1>0, <2>1, <2>2, <2>3, <2>4 DEF Deleted, Disturbs, KubeInv, Typed, ObjectsTyped
<1>2. CASE DeleteDataVolume(c)
  <2>1. PICK r \in CallState : Deleted(c, r, "secret")
    BY <1>2, DeleteDataVolumeEffect
  <2>2. UNCHANGED <<ready, secret, vm, made, late, now>> /\ Disturbs(c)
        /\ dv' \in {dv, 0}
    BY <1>2, DeleteDataVolumeEffect
  <2>3. ObjectsTyped' /\ MadeGrows
    BY <1>0, <2>2 DEF ObjectsTyped, MadeGrows
  <2>4. CallsAreSound' /\ call' \in [Calls -> CallState] /\ LateIsAsked'
    BY <1>0, <2>1, <2>2, <2>3, OneMoves, StillAsked DEF Deleted
  <2> QED  BY <1>0, <2>1, <2>2, <2>3, <2>4 DEF Deleted, Disturbs, KubeInv, Typed, ObjectsTyped
<1>3. CASE DeleteSecret(c)
  <2>1. PICK r \in CallState : Deleted(c, r, "return")
    BY <1>3, DeleteSecretEffect
  <2>2. UNCHANGED <<ready, vm, dv, made, late, now>> /\ Disturbs(c)
        /\ secret' \in {secret, NoSecret}
    BY <1>3, DeleteSecretEffect
  <2>3. ObjectsTyped' /\ MadeGrows
    BY <1>0, <2>2 DEF ObjectsTyped, MadeGrows
  <2>4. CallsAreSound' /\ call' \in [Calls -> CallState] /\ LateIsAsked'
    BY <1>0, <2>1, <2>2, <2>3, OneMoves, StillAsked DEF Deleted
  <2> QED  BY <1>0, <2>1, <2>2, <2>3, <2>4 DEF Deleted, Disturbs, KubeInv, Typed, ObjectsTyped
<1>4. CASE TerminateReturn(c)
  <2>1. /\ UNCHANGED <<ready, secret, vm, dv, made, late, now, faulty, disturbed>>
        /\ \E r \in CallState : call' = [call EXCEPT ![c] = r] /\ r.pc = "done"
                                /\ r.digest = call[c].digest
    BY <1>4, TerminateReturnEffect
  <2>2. PICK r \in CallState : call' = [call EXCEPT ![c] = r] /\ r.pc = "done"
                               /\ r.digest = call[c].digest
    BY <2>1
  <2>3. ObjectsTyped' /\ MadeGrows
    BY <1>0, <2>1 DEF ObjectsTyped, MadeGrows
  <2>4. CallsAreSound' /\ call' \in [Calls -> CallState] /\ LateIsAsked'
    BY <1>0, <2>1, <2>2, <2>3, OneMoves, StillAsked
  <2> QED  BY <1>0, <2>1, <2>3, <2>4 DEF KubeInv, Typed, ObjectsTyped
<1> QED  BY <1>1, <1>2, <1>3, <1>4 DEF TerminateStep

\* The cluster changes no call; what it puts is typed.
LEMMA ClusterEffect ==
    ASSUME KubeInv, Cluster
    PROVE  /\ ObjectsTyped' /\ MadeGrows /\ late' \subseteq late
           /\ UNCHANGED <<ready, call, now, faulty>>
           /\ disturbed \subseteq disturbed' /\ disturbed' \subseteq Calls
<1>0. /\ ObjectsTyped /\ late \subseteq {"secret", "vm"} \X Digests /\ Len(made) \in Nat
      /\ NoSecret \in [digest : Digests \cup {0}, owner : Nat]
      /\ NoVM \in [uid : 0..Len(made), deleting : BOOLEAN]
  BY DEF KubeInv, Typed, ObjectsTyped, NoSecret, NoVM
<1>1. /\ UNCHANGED <<ready, call, now, faulty>>
      /\ disturbed \subseteq disturbed' /\ disturbed' \subseteq Calls
  BY DEF Cluster, Provision, Collect, ApplyLate, Upset, history, Calls, KubeInv, Typed
<1>2. CASE Provision
  BY <1>0, <1>1, <1>2 DEF Provision, ObjectsTyped, MadeGrows
<1>3. CASE Collect
  BY <1>0, <1>1, <1>3 DEF Collect, ObjectsTyped, MadeGrows
<1>4. CASE ApplyLate
  <2>1. PICK p \in late : /\ late' = late \ {p}
                          /\ \/ ~Has(p[1]) /\ Put(p[1], p[2])
                             \/ Has(p[1]) /\ UNCHANGED <<secret, vm, made>>
    BY <1>4 DEF ApplyLate
  <2>2. p[1] \in {"secret", "vm"} /\ p[2] \in Digests /\ UNCHANGED dv
    BY <1>0, <1>4 DEF ApplyLate
  <2>3. CASE ~Has(p[1]) /\ Put(p[1], p[2])
    BY <1>0, <1>1, <2>1, <2>2, <2>3, PutEffect
  <2>4. CASE UNCHANGED <<secret, vm, made>>
    BY <1>0, <1>1, <2>1, <2>2, <2>4 DEF ObjectsTyped, MadeGrows
  <2> QED  BY <2>1, <2>3, <2>4
<1> QED  BY <1>2, <1>3, <1>4 DEF Cluster

LEMMA KubeInvStep ==
    ASSUME KubeInv, [Next]_vars
    PROVE  KubeInv'
<1>0. /\ ObjectsTyped /\ Len(made) \in Nat
  BY DEF KubeInv, Typed, ObjectsTyped
<1>1. CASE CheckReady \/ UNCHANGED vars
  BY <1>1 DEF CheckReady, vars, objects, history, KubeInv, Typed, CallsAreSound, LateIsAsked, InFlight
<1>2. CASE Cluster
  <2>1. /\ ObjectsTyped' /\ MadeGrows /\ late' \subseteq late
        /\ UNCHANGED <<ready, call, now, faulty>> /\ disturbed' \subseteq Calls
    BY <1>2, ClusterEffect
  <2>2. CallsAreSound'
    <3>1. \A c \in Calls : call[c].pc = "own" => call[c].uid \in 1..Len(made')
                                                 /\ made'[call[c].uid] = call[c].digest
      BY <2>1 DEF MadeGrows, KubeInv, CallsAreSound
    <3> QED  BY <2>1, <3>1 DEF KubeInv, CallsAreSound, InFlight
  <2> QED  BY <2>1, <2>2 DEF KubeInv, Typed, ObjectsTyped, LateIsAsked
<1>3. CASE Crash
  <2>1. /\ UNCHANGED <<secret, vm, dv, made, late, now, disturbed>> /\ faulty' = TRUE /\ ready' = FALSE
        /\ call' \in [Calls -> CallState]
        /\ \A c \in Calls : /\ call[c].digest \in Digests => call'[c].digest = call[c].digest
                            /\ call'[c] = call[c] \/ call'[c].pc = "done"
    BY <1>3, CrashEffect
  <2>2. Typed'
    BY <2>1 DEF KubeInv, Typed
  <2>3. CallsAreSound'
    <3>1. ASSUME NEW c \in Calls
          PROVE  /\ call'[c].pc = "idle" => call'[c] = Idle
                 /\ call'[c].pc \in {"create", "get", "drop", "own"} => c \in Launches
                 /\ call'[c].pc = "own" => /\ call'[c].uid \in 1..Len(made')
                                           /\ made'[call'[c].uid] = call'[c].digest
                 /\ call'[c].pc \notin {"drop", "done"} => call'[c].result = "none"
                 /\ call'[c].pc = "drop" => call'[c].result # "ok"
                 /\ c \in Launches /\ call'[c].pc \notin {"idle", "done"} => call'[c].digest \in Digests
      BY <2>1 DEF KubeInv, CallsAreSound, InFlight
    <3> QED  BY <3>1 DEF CallsAreSound, InFlight, Calls
  <2>4. LateIsAsked'
    <3>1. late \subseteq {"secret", "vm"} \X Digests
      BY DEF KubeInv, Typed
    <3> QED  BY <2>1, <3>1 DEF KubeInv, LateIsAsked, Calls
  <2> QED  BY <2>2, <2>3, <2>4 DEF KubeInv
<1>4. CASE \E l \in Launches : LaunchStep(l)
  BY <1>4, LaunchKeepsInv
<1>5. ASSUME NEW l \in Launches, NEW time \in now..MaxNow, LaunchStart(l, time)
      PROVE  KubeInv'
  <2>1. /\ call[l].pc = "idle" /\ now' = time /\ time \in Digests
        /\ UNCHANGED <<ready, secret, vm, dv, made, late, faulty>>
    BY <1>5, LaunchStartEffect
  <2>2. disturbed' \subseteq Calls
    <3>1. disturbed' = disturbed \cup {c \in Calls : InFlight(c)}
                                 \cup {t \in Terminates : call[t].pc # "idle"}
                                 \cup IF {c \in Calls : InFlight(c)} = {} THEN {} ELSE {l}
      BY <1>5, LaunchStartEffect
    <3> QED  BY <3>1 DEF KubeInv, Typed, Calls
  <2>3. PICK r \in CallState : /\ call' = [call EXCEPT ![l] = r]
                               /\ r.pc = "create" /\ r.result = "none" /\ r.digest = time
    BY <1>5, LaunchStartEffect
  <2>4. ObjectsTyped' /\ MadeGrows /\ l \in Calls /\ call[l].digest = 0
    BY <1>0, <2>1 DEF ObjectsTyped, MadeGrows, Calls, KubeInv, CallsAreSound, Idle
  <2>5. CallsAreSound' /\ call' \in [Calls -> CallState] /\ LateIsAsked'
    BY <2>1, <2>3, <2>4, OneMoves, StillAsked
  <2> QED  BY <2>1, <2>2, <2>5 DEF KubeInv, Typed
<1>6. ASSUME NEW t \in Terminates, TerminateStart(t)
      PROVE  KubeInv'
  <2>1. UNCHANGED <<ready, secret, vm, dv, made, late, now, faulty>> /\ disturbed' \in {disturbed, disturbed \cup {t}}
    BY <1>6, TerminateStartEffect
  <2>3. PICK r \in CallState : /\ call' = [call EXCEPT ![t] = r]
                               /\ r.pc = "vm" /\ r.result = "none" /\ r.digest = call[t].digest
    BY <1>6, TerminateStartEffect
  <2>4. ObjectsTyped' /\ MadeGrows /\ t \in Calls /\ t \notin Launches
    BY <1>0, <2>1, CallsAreDistinct DEF ObjectsTyped, MadeGrows, Calls
  <2>5. CallsAreSound' /\ call' \in [Calls -> CallState] /\ LateIsAsked'
    BY <2>1, <2>3, <2>4, OneMoves, StillAsked
  <2> QED  BY <2>1, <2>4, <2>5 DEF KubeInv, Typed
<1>7. CASE \E c \in Calls : TerminateStep(c)
  BY <1>7, TerminateKeepsInv
<1> QED  BY <1>1, <1>2, <1>3, <1>4, <1>5, <1>6, <1>7 DEF Next

\* The state the adapter's variables have in every reachable state.
THEOREM KubeInvariance == Spec => []KubeInv
<1>1. KubeInv /\ [Next]_vars => KubeInv'
  BY KubeInvStep
<1> QED  BY KubeInvInit, <1>1, PTL DEF Spec

\* TypeOK is invariant: above all, no call attempts a create more often than
\* the Attempts of its back-off.
THEOREM KubeAPITypeOK == Spec => []TypeOK
<1>1. KubeInv => TypeOK
  BY DEF KubeInv, Typed, CallState, Locations, Results, TypeOK
<1> QED  BY KubeInvariance, <1>1, PTL

-----------------------------------------------------------------------------
(* An undisturbed launch keeps its VM and its Secret.                       *)

LEMMA DisturbedGrows ==
    ASSUME KubeInv, [Next]_vars
    PROVE  disturbed \subseteq disturbed'
<1>1. ASSUME NEW l \in Launches, LaunchStep(l) PROVE disturbed' = disturbed
  BY <1>1, LaunchStepEffect
<1>2. ASSUME NEW c \in Calls, TerminateStep(c) PROVE disturbed \subseteq disturbed'
  BY <1>2 DEF TerminateStep, DeleteVM, DeleteDataVolume, DeleteSecret, TerminateReturn, Deleting, history
<1>3. CASE CheckReady \/ Cluster \/ Crash \/ UNCHANGED vars
  BY <1>3, ClusterEffect DEF CheckReady, Crash, history, vars
<1>4. ASSUME NEW l \in Launches, NEW time \in now..MaxNow, LaunchStart(l, time)
      PROVE  disturbed \subseteq disturbed'
  BY <1>4 DEF LaunchStart
<1>5. ASSUME NEW t \in Terminates, TerminateStart(t) PROVE disturbed \subseteq disturbed'
  BY <1>5 DEF TerminateStart
<1> QED  BY <1>1, <1>2, <1>3, <1>4, <1>5 DEF Next

\* What the server does with a create, at once, unnoticed or late, leaves a VM
\* that is there and a Secret that is there as they are; a new VM has a UID of
\* its own and a new Secret the digest it was created with.
Creates(d) ==
    /\ \A u \in 1..Len(made) : vm'.uid = u => vm' = vm
    /\ secret # NoSecret => secret' = secret
    /\ secret' \in {secret, NoSecret} \/ secret'.digest = d

LEMMA PutCreates ==
    ASSUME ObjectsTyped, NEW k \in {"secret", "vm"}, NEW d \in Digests, Put(k, d), ~Has(k),
           UNCHANGED dv
    PROVE  Creates(d) /\ MadeGrows
<1>1. Len(made) \in Nat /\ MadeGrows
  BY PutEffect DEF MadeGrows
<1>2. CASE k = "secret"
  BY <1>1, <1>2, PutEffect DEF Creates
<1>3. CASE k = "vm"
  <2>1. vm'.uid = Len(made) + 1 /\ secret' = secret
    BY <1>3, PutEffect
  <2> QED  BY <1>1, <2>1 DEF Creates
<1> QED  BY <1>2, <1>3

LEMMA LostCreates ==
    ASSUME KubeInv, NEW l \in Launches, NEW r \in CallState, AnswerLost(l, r)
    PROVE  Creates(call[l].digest) /\ MadeGrows
<1>1. ObjectsTyped /\ call[l].kind \in {"secret", "vm"} /\ call[l].digest \in Digests /\ UNCHANGED dv
      /\ Len(made) \in Nat
  BY DEF KubeInv, Typed, ObjectsTyped, CallsAreSound, CallState, Calls, InFlight, AnswerLost, AsksOn, GivesUp
<1>2. CASE Put(call[l].kind, call[l].digest) /\ ~Has(call[l].kind)
  BY <1>1, <1>2, PutCreates
<1>3. CASE UNCHANGED <<secret, vm, made>>
  BY <1>1, <1>3 DEF Creates, MadeGrows
<1> QED  BY <1>2, <1>3 DEF AnswerLost, Unanswered

\* A step of a launch replaces no VM that is there.
LEMMA LaunchKeepsVM ==
    ASSUME KubeInv, NEW k \in Launches, NEW r \in CallState, LaunchEffect(k, r)
    PROVE  /\ MadeGrows
           /\ \A u \in 1..Len(made) : vm'.uid = u => vm' = vm
<1>1. Len(made) \in Nat /\ made \in Seq(Digests)
  BY DEF KubeInv, Typed
<1>2. CASE AnswerLost(k, r)
  BY <1>2, LostCreates DEF Creates
<1>3. CASE VMVerified(k, r) /\ ~(UNCHANGED <<vm, made>>)
  <2>1. made' = Append(made, call[k].digest) /\ vm'.uid = Len(made) + 1
    BY <1>3 DEF VMVerified
  <2>2. Len(made') = Len(made) + 1 /\ \A i \in 1..Len(made) : made'[i] = made[i]
    BY <1>1, <2>1
  <2> QED  BY <1>1, <2>1, <2>2 DEF MadeGrows
<1>4. CASE UNCHANGED <<vm, made>>
  BY <1>1, <1>4 DEF MadeGrows
<1> QED  BY <1>2, <1>3, <1>4 DEF LaunchEffect, Answered, objects, SecretVerified, SecretDropped,
           SecretOwned, SecretNotOwned

\* What an intact launch has is there.
LEMMA IntactHas ==
    ASSUME KubeInv, NEW l \in Launches, Alone(l), Intact(l)
    PROVE  /\ call[l].uid \in 1..Len(made) /\ Len(made) \in Nat /\ vm # NoVM
           /\ secret # NoSecret /\ ~InFlight(l)
<1>1. call[l].uid \in 1..Len(made) /\ Len(made) \in Nat /\ secret.owner = vm.uid /\ vm.uid = call[l].uid
  BY DEF Alone, Intact, KubeInv, Typed
<1>2. call[l].pc \in {"drop", "done"} /\ call[l].pc # "drop"
  BY DEF Alone, Intact, KubeInv, CallsAreSound, Calls
<1> QED  BY <1>1, <1>2 DEF NoVM, NoSecret, InFlight

\* A step of another launch.
LEMMA AloneBesideLaunch ==
    ASSUME KubeInv, NEW l \in Launches, Alone(l), NEW k \in Launches \ {l}, LaunchStep(k)
    PROVE  Alone(l)'
<1>0. k \in Calls /\ l \in Calls /\ call \in [Calls -> CallState] /\ InFlight(k)
  BY DEF KubeInv, Typed, Calls, LaunchStep, Create, Get, DropSecret, OwnSecret, InFlight
<1>1. ~InFlight(l)
  BY <1>0 DEF Alone
<1>2. PICK r \in CallState : Moved(k, r) /\ LaunchEffect(k, r)
  BY LaunchStepEffect
<1>3. call'[l] = call[l] /\ call'[k] = r /\ \A c \in Calls \ {k} : call'[c] = call[c]
  BY <1>0, <1>2 DEF Moved, Calls
<1>4. ~InFlight(l)' /\ ~Verifies(l)' /\ call'[l].pc # "own"
  BY <1>1, <1>3 DEF InFlight, Verifies
<1>5. MadeGrows /\ \A u \in 1..Len(made) : vm'.uid = u => vm' = vm
  BY <1>2, LaunchKeepsVM
<1>6. call'[l].result = "ok" => call'[l].uid \in 1..Len(made')
  BY <1>3, <1>5 DEF MadeGrows, Alone
<1>7. ASSUME Intact(l)'
      PROVE  /\ secret'.digest = call'[l].digest /\ secret'.owner = vm'.uid
             /\ \A c \in Calls : /\ ~Deletes(c)' /\ call'[c].pc # "drop"
                                 /\ Verifies(c)' => ~call'[c].fresh
                                 /\ call'[c].pc = "own" => call'[c].uid = vm'.uid
  <2>1. call[l].result = "ok" /\ call[l].uid \in 1..Len(made) /\ vm'.uid = call[l].uid /\ ~vm'.deleting
    BY <1>3, <1>7 DEF Intact, Alone
  <2>2. vm' = vm /\ Intact(l)
    BY <1>5, <2>1 DEF Intact
  <2>3. /\ secret # NoSecret /\ secret.digest = call[l].digest /\ secret.owner = vm.uid
        /\ \A c \in Calls : /\ ~Deletes(c) /\ call[c].pc # "drop"
                            /\ Verifies(c) => ~call[c].fresh
                            /\ call[c].pc = "own" => call[c].uid = vm.uid
    BY <2>2, IntactHas DEF Alone
  <2>4. /\ secret'.digest = secret.digest /\ secret'.owner = vm.uid
        /\ r.pc \notin {"dv", "secret", "drop"}
        /\ r.pc \in {"create", "get"} /\ r.kind = "vm" => ~r.fresh
        /\ r.pc = "own" => r.uid = vm.uid
    <3>1. CASE Answered(k, r) \/ AnswerLost(k, r)
      <4>1. secret' = secret
        BY <2>3, <3>1, LostCreates DEF Answered, Creates, objects
      <4> QED  BY <1>0, <2>3, <3>1, <4>1 DEF Answered, AnswerLost, AsksOn, GivesUp, Verifies
    <3>2. CASE SecretVerified(k, r) \/ VMVerified(k, r) \/ SecretDropped(k, r)
      BY <1>0, <2>2, <2>3, <3>2 DEF SecretVerified, VMVerified, SecretDropped
    <3>3. CASE SecretOwned(k, r) \/ SecretNotOwned(k, r)
      <4>1. call[k].uid = vm.uid
        BY <1>0, <2>3, <3>3 DEF SecretOwned, SecretNotOwned
      <4>2. secret' = secret \/ secret' = [secret EXCEPT !.owner = vm.uid]
        BY <3>3, <4>1 DEF SecretOwned, SecretNotOwned
      <4>3. secret \in [digest : Digests \cup {0}, owner : Nat]
        BY DEF KubeInv, Typed
      <4> QED  BY <2>3, <3>3, <4>2, <4>3 DEF SecretOwned, SecretNotOwned
    <3> QED  BY <1>2, <3>1, <3>2, <3>3 DEF LaunchEffect
  <2> QED  BY <1>3, <2>2, <2>3, <2>4 DEF Verifies, Deletes
<1> QED  BY <1>4, <1>6, <1>7 DEF Alone

\* A step of its own.
LEMMA AloneInItsStep ==
    ASSUME KubeInv, NEW l \in Launches, Alone(l), LaunchStep(l)
    PROVE  Alone(l)'
<1>0. l \in Calls /\ call \in [Calls -> CallState] /\ InFlight(l)
      /\ secret \in [digest : Digests \cup {0}, owner : Nat]
      /\ ~(call[l].result = "ok")
  BY DEF KubeInv, Typed, Calls, LaunchStep, Create, Get, DropSecret, OwnSecret, InFlight, CallsAreSound
<1>1. /\ \A k \in Launches \ {l} : ~InFlight(k)
      /\ \A c \in Calls \ {l} : ~Deletes(c)
  BY <1>0 DEF Alone
<1>2. PICK r \in CallState : Moved(l, r) /\ LaunchEffect(l, r)
  BY LaunchStepEffect
<1>3. call'[l] = r /\ r.digest = call[l].digest /\ \A c \in Calls \ {l} : call'[c] = call[c]
  BY <1>0, <1>2 DEF Moved, Calls
<1>4. /\ \A k \in Launches \ {l} : ~InFlight(k)'
      /\ \A c \in Calls \ {l} : ~Deletes(c)'
  BY <1>1, <1>3 DEF InFlight, Deletes, Calls
<1>5. \A c \in Calls \ {l} : call'[c].pc \notin {"create", "get", "drop", "own"}
  <2>1. \A c \in Calls \ {l} : call[c].pc \notin {"create", "get", "drop", "own"}
    BY <1>1 DEF KubeInv, CallsAreSound, InFlight
  <2> QED  BY <1>3, <2>1
<1>6. ASSUME (r.pc \in {"create", "get"} /\ r.kind = "vm") \/ r.pc = "own"
      PROVE  secret' = NoSecret \/ secret'.digest = r.digest
  <2>1. CASE SecretVerified(l, r)
    BY <1>3, <2>1 DEF SecretVerified
  <2>2. CASE VMVerified(l, r) \/ Answered(l, r) \/ AnswerLost(l, r)
    <3>1. secret = NoSecret \/ secret.digest = r.digest
      BY <1>3, <1>6, <2>2 DEF Alone, VMVerified, Answered, AnswerLost, AsksOn, GivesUp, Verifies
    <3>2. secret' \in {secret, NoSecret} \/ secret'.digest = call[l].digest
      BY <2>2, LostCreates DEF VMVerified, Answered, objects, Creates
    <3> QED  BY <1>3, <3>1, <3>2
  <2> QED  BY <1>2, <1>6, <2>1, <2>2 DEF LaunchEffect, SecretDropped, SecretOwned, SecretNotOwned
<1>7. ASSUME r.result = "ok"
      PROVE  /\ r.uid \in 1..Len(made') /\ r.pc = "done"
             /\ secret'.digest = r.digest /\ secret'.owner = r.uid
  <2>1. SecretOwned(l, r)
    BY <1>0, <1>2, <1>7 DEF LaunchEffect, Answered, AnswerLost, AsksOn, GivesUp, Verifies, SecretVerified,
           VMVerified, SecretDropped, SecretOwned, SecretNotOwned
  <2>2. call[l].pc = "own" /\ r.pc = "done" /\ r.uid = call[l].uid /\ made' = made
        /\ secret # NoSecret /\ secret' = [secret EXCEPT !.owner = call[l].uid]
    BY <2>1 DEF SecretOwned
  <2>3. call[l].uid \in 1..Len(made) /\ secret.digest = r.digest
    BY <1>0, <1>3, <2>2 DEF Alone, KubeInv, CallsAreSound
  <2> QED  BY <1>0, <2>2, <2>3
<1>8. r.result = "ok" => call'[l].uid \in 1..Len(made')
  BY <1>3, <1>7
<1>9. ASSUME Intact(l)'
      PROVE  /\ secret'.digest = call'[l].digest /\ secret'.owner = vm'.uid
             /\ \A c \in Calls : /\ ~Deletes(c)' /\ call'[c].pc # "drop"
                                 /\ Verifies(c)' => ~call'[c].fresh
                                 /\ call'[c].pc = "own" => call'[c].uid = vm'.uid
  <2>1. r.result = "ok" /\ vm'.uid = r.uid
    BY <1>3, <1>9 DEF Intact
  <2>2. \A c \in Calls : ~Deletes(c)' /\ call'[c].pc \notin {"create", "get", "drop", "own"}
    BY <1>3, <1>4, <1>5, <1>7, <2>1 DEF Deletes
  <2> QED  BY <1>3, <1>7, <2>1, <2>2 DEF Verifies
<1> QED  BY <1>3, <1>4, <1>6, <1>8, <1>9 DEF Alone, Verifies

\* The start of a launch disturbs the launches it does not leave alone.
LEMMA AloneWhenLaunchStarts ==
    ASSUME KubeInv, NEW l \in Launches \ disturbed', Alone(l),
           NEW k \in Launches, NEW time \in now..MaxNow, LaunchStart(k, time)
    PROVE  Alone(l)'
<1>1. /\ call[k].pc = "idle" /\ UNCHANGED <<ready, secret, vm, dv, made, late, faulty>>
      /\ disturbed' = disturbed \cup {c \in Calls : InFlight(c)}
                                \cup {t \in Terminates : call[t].pc # "idle"}
                                \cup IF {c \in Calls : InFlight(c)} = {} THEN {} ELSE {k}
  BY LaunchStartEffect
<1>2. PICK r \in CallState : /\ call' = [call EXCEPT ![k] = r]
                             /\ r.pc = "create" /\ r.kind = "secret" /\ ~r.fresh /\ r.uid = 0
                             /\ r.seen = "none" /\ r.result = "none" /\ r.digest = time
  BY LaunchStartEffect
<1>3. call'[k] = r /\ \A c \in Calls \ {k} : call'[c] = call[c]
  BY <1>2 DEF KubeInv, Typed, Calls
<1>4. l \in Calls /\ k \in Calls /\ ~InFlight(l)
  BY <1>1 DEF Calls
<1>6. CASE l = k
  <2>1. \A c \in Calls : ~InFlight(c)
    BY <1>1, <1>6
  <2>2. \A c \in Calls \ {l} : ~InFlight(c)' /\ ~Deletes(c)'
    BY <1>3, <1>6, <2>1 DEF InFlight, Deletes
  <2> QED  BY <1>2, <1>3, <1>6, <2>2 DEF Alone, Verifies, Intact, Calls
<1>7. CASE l # k
  <2>1. call'[l] = call[l] /\ ~InFlight(l)'
    BY <1>3, <1>4, <1>7 DEF InFlight
  <2>2. \A c \in Calls : /\ Deletes(c)' => Deletes(c)
                         /\ call[c].pc # "drop" => call'[c].pc # "drop"
                         /\ (Verifies(c) => ~call[c].fresh) => (Verifies(c)' => ~call'[c].fresh)
                         /\ call'[c].pc = "own" => call[c].pc = "own" /\ call'[c].uid = call[c].uid
    BY <1>2, <1>3 DEF Verifies, Deletes
  <2> QED  BY <1>1, <1>4, <2>1, <2>2 DEF Alone, Verifies, InFlight, Intact
<1> QED  BY <1>6, <1>7

\* A termination that starts or returns leaves every launch alone.
LEMMA AloneBesideOther ==
    ASSUME KubeInv, NEW l \in Launches, Alone(l), NEW c \in Calls \ {l}, NEW r \in CallState,
           call' = [call EXCEPT ![c] = r],
           UNCHANGED <<secret, vm, made>>,
           r.pc \in {"vm", "return", "done"} \/ (r.pc \in {"dv", "secret"} /\ Deletes(c)),
           c \in Launches => InFlight(c)
    PROVE  Alone(l)'
<1>1. call'[l] = call[l] /\ call'[c] = r /\ \A b \in Calls \ {c} : call'[b] = call[b]
  BY DEF KubeInv, Typed, Calls
<1>2. \A b \in Calls : /\ b \in Launches /\ InFlight(b)' => InFlight(b)
                       /\ Deletes(b)' => Deletes(b)
                       /\ call[b].pc # "drop" => call'[b].pc # "drop"
                       /\ Verifies(b)' => Verifies(b) /\ call'[b] = call[b]
                       /\ call'[b].pc = "own" => call'[b] = call[b]
  BY <1>1 DEF InFlight, Verifies, Deletes
<1>3. l \in Calls /\ (Intact(l)' <=> Intact(l)) /\ (InFlight(l)' <=> InFlight(l))
      /\ (Verifies(l)' <=> Verifies(l))
  BY <1>1 DEF Intact, Verifies, InFlight, Calls
<1>4. /\ InFlight(l)' => /\ \A k \in Launches \ {l} : ~InFlight(k)'
                         /\ \A b \in Calls \ {l} : ~Deletes(b)'
      /\ Intact(l)' => \A b \in Calls : /\ ~Deletes(b)' /\ call'[b].pc # "drop"
                                        /\ Verifies(b)' => ~call'[b].fresh
                                        /\ call'[b].pc = "own" => call'[b].uid = vm'.uid
  BY <1>2, <1>3 DEF Alone, Calls
<1> QED  BY <1>1, <1>3, <1>4 DEF Alone

\* A deletion disturbs the launches in flight, and finds none intact that it
\* does not disturb or whose VM it does not delete.
LEMMA AloneInTermination ==
    ASSUME KubeInv, NEW l \in Launches \ disturbed', Alone(l), NEW c \in Calls, TerminateStep(c)
    PROVE  Alone(l)'
<1>0. l \in Calls /\ InFlight(c) /\ call[c].result = "none" /\ Len(made) \in Nat
  BY DEF Calls, TerminateStep, DeleteVM, DeleteDataVolume, DeleteSecret, TerminateReturn, Deleting,
         InFlight, KubeInv, CallsAreSound, Typed
<1>1. ASSUME c = l, NEW r \in CallState, call' = [call EXCEPT ![c] = r], r.result # "ok",
             r.pc \in {"dv", "secret", "return", "done"}
      PROVE  Alone(l)'
  <2>1. call'[l] = r /\ \A b \in Calls \ {l} : call'[b] = call[b]
    BY <1>1 DEF KubeInv, Typed, Calls
  <2>2. /\ \A k \in Launches \ {l} : ~InFlight(k)'
        /\ \A b \in Calls \ {l} : ~Deletes(b)'
    BY <1>0, <1>1, <2>1 DEF Alone, InFlight, Deletes, Calls
  <2> QED  BY <1>1, <2>1, <2>2 DEF Alone, Verifies, Intact
<1>2. CASE DeleteVM(c)
  <2>1. PICK r \in CallState : Deleted(c, r, "dv")
    BY <1>2, DeleteVMEffect
  <2>2. /\ UNCHANGED <<secret, made>> /\ Disturbs(c)
        /\ \/ vm' = NoVM \/ vm'.deleting
           \/ {k \in Launches \ {c} : call[k].pc # "idle"} \subseteq disturbed'
    BY <1>2, DeleteVMEffect
  <2>3. CASE c = l
    BY <1>0, <1>1, <2>1, <2>3 DEF Deleted
  <2>4. CASE c # l
    <3>1. call'[l] = call[l] /\ ~InFlight(l)
      BY <2>1, <2>2, <2>4 DEF Disturbs, Deleted, KubeInv, Typed, Calls
    <3>2. ~InFlight(l)' /\ ~Verifies(l)' /\ call'[l].pc # "own"
      BY <3>1 DEF InFlight, Verifies
    <3>3. call[l].result = "ok" => call[l].pc # "idle" /\ call[l].uid \in 1..Len(made)
      BY <1>0 DEF Alone, KubeInv, CallsAreSound, Idle
    <3>4. ~Intact(l)'
      BY <1>0, <2>2, <2>4, <3>1, <3>3 DEF Intact, NoVM
    <3> QED  BY <2>2, <3>1, <3>2, <3>3, <3>4 DEF Alone
  <2> QED  BY <2>3, <2>4
<1>3. CASE DeleteDataVolume(c) \/ DeleteSecret(c)
  <2>1. PICK r \in CallState : /\ call' = [call EXCEPT ![c] = r] /\ r.pc \in {"secret", "return"}
                               /\ r.result = "none"
    BY <1>0, <1>3, DeleteDataVolumeEffect, DeleteSecretEffect DEF Deleted
  <2>2. UNCHANGED <<vm, made>> /\ Deletes(c)
    BY <1>3, DeleteDataVolumeEffect, DeleteSecretEffect DEF Deletes
  <2>3. CASE c = l
    BY <1>1, <2>1, <2>3
  <2>4. CASE c # l
    <3>1. call'[l] = call[l] /\ ~InFlight(l) /\ ~Intact(l)
      BY <1>0, <2>1, <2>2, <2>4 DEF Alone, KubeInv, Typed, Calls
    <3>2. ~InFlight(l)' /\ ~Verifies(l)' /\ call'[l].pc # "own" /\ ~Intact(l)'
      BY <2>2, <3>1 DEF InFlight, Verifies, Intact
    <3> QED  BY <2>2, <3>1, <3>2 DEF Alone
  <2> QED  BY <2>3, <2>4
<1>4. CASE TerminateReturn(c)
  <2>1. UNCHANGED <<secret, vm, made>>
    BY <1>4, TerminateReturnEffect
  <2>2. PICK r \in CallState : /\ call' = [call EXCEPT ![c] = r] /\ r.pc = "done"
                               /\ r.result = IF c \in Launches \/ call[c].bad THEN "error" ELSE "ok"
    BY <1>4, TerminateReturnEffect
  <2>3. CASE c # l
    BY <1>0, <2>1, <2>2, <2>3, AloneBesideOther
  <2>4. CASE c = l
    BY <1>1, <2>2, <2>4
  <2> QED  BY <2>3, <2>4
<1> QED  BY <1>2, <1>3, <1>4 DEF TerminateStep

\* The collector leaves what belongs to an intact launch, and a late create
\* finds its objects there.
LEMMA AloneInCluster ==
    ASSUME KubeInv, NEW l \in Launches \ disturbed', Alone(l), Cluster
    PROVE  Alone(l)'
<1>1. UNCHANGED call /\ MadeGrows /\ Len(made) \in Nat /\ l \in Calls
  BY ClusterEffect DEF KubeInv, Typed, Calls
<1>2. /\ \A u \in 1..Len(made) : vm'.uid = u => vm' = vm
      /\ Intact(l) => secret' = secret
      /\ InFlight(l) => secret' \in {secret, NoSecret} \/ secret'.digest = call[l].digest
  <2>1. CASE Provision
    BY <2>1 DEF Provision
  <2>2. CASE Collect
    <3>1. Intact(l) => ~Orphaned(secret.owner)
      BY DEF Alone, Intact, Orphaned
    <3> QED  BY <1>1, <2>2, <3>1 DEF Collect, NoVM, NoSecret
  <2>3. CASE ApplyLate
    <3>1. PICK p \in late : \/ ~Has(p[1]) /\ Put(p[1], p[2]) /\ disturbed' = disturbed \cup Upset(p[1], p[2])
                            \/ Has(p[1]) /\ UNCHANGED <<secret, vm, made, disturbed>>
      BY <2>3 DEF ApplyLate
    <3>2. p[1] \in {"secret", "vm"} /\ p[2] \in Digests /\ UNCHANGED dv /\ ObjectsTyped
      BY <2>3 DEF KubeInv, Typed, ObjectsTyped, ApplyLate
    <3>3. CASE ~Has(p[1]) /\ Put(p[1], p[2]) /\ disturbed' = disturbed \cup Upset(p[1], p[2])
      <4>1. Creates(p[2])
        BY <3>2, <3>3, PutCreates
      <4>2. InFlight(l) => secret' = secret \/ call[l].digest = p[2]
        BY <3>2, <3>3, PutEffect DEF Upset
      <4> QED  BY <4>1, <4>2, IntactHas DEF Creates
    <3>4. CASE UNCHANGED <<secret, vm, made>>
      BY <3>4
    <3> QED  BY <3>1, <3>3, <3>4
  <2> QED  BY <2>1, <2>2, <2>3 DEF Cluster
<1>3. Verifies(l)' \/ call'[l].pc = "own" => secret' = NoSecret \/ secret'.digest = call'[l].digest
  BY <1>1, <1>2 DEF Alone, Verifies, InFlight
<1>4. call'[l].result = "ok" => call'[l].uid \in 1..Len(made')
  BY <1>1 DEF Alone, MadeGrows
<1>5. Intact(l)' => Intact(l) /\ secret' = secret /\ vm' = vm
  BY <1>1, <1>2 DEF Intact, Alone
<1> QED  BY <1>1, <1>3, <1>4, <1>5 DEF Alone, Verifies, InFlight, Deletes

LEMMA AloneStep ==
    ASSUME KubeInv, NEW l \in Launches \ disturbed', Alone(l), [Next]_vars
    PROVE  Alone(l)'
<1>1. CASE CheckReady \/ UNCHANGED vars
  BY <1>1 DEF CheckReady, vars, objects, history, Alone, InFlight, Verifies, Intact, Deletes
<1>2. CASE Cluster
  BY <1>2, AloneInCluster
<1>3. CASE Crash
  <2>1. /\ UNCHANGED <<secret, vm, made>> /\ l \in Calls
        /\ \A c \in Calls :
              /\ ~InFlight(c) => call'[c] = call[c]
              /\ InFlight(c) => call'[c].pc = "done" /\ call'[c].result = "error"
    BY <1>3, CrashEffect DEF Calls
  <2>2. \A c \in Calls : ~InFlight(c)' /\ ~Deletes(c)' /\ call'[c].pc \notin {"create", "get", "drop", "own"}
    BY <2>1 DEF InFlight, Deletes
  <2>3. call'[l].result = "ok" => call'[l] = call[l]
    BY <2>1
  <2> QED  BY <2>1, <2>2, <2>3 DEF Alone, Verifies, Intact
<1>4. CASE \E k \in Launches : LaunchStep(k)
  BY <1>4, AloneBesideLaunch, AloneInItsStep
<1>5. ASSUME NEW k \in Launches, NEW time \in now..MaxNow, LaunchStart(k, time)
      PROVE  Alone(l)'
  BY <1>5, AloneWhenLaunchStarts
<1>6. ASSUME NEW t \in Terminates, TerminateStart(t)
      PROVE  Alone(l)'
  <2>1. PICK r \in CallState : /\ call' = [call EXCEPT ![t] = r] /\ r.pc = "vm"
    BY <1>6, TerminateStartEffect
  <2>2. UNCHANGED <<secret, vm, made>> /\ t \in Calls \ {l} /\ t \notin Launches
    BY <1>6, TerminateStartEffect, CallsAreDistinct DEF Calls
  <2> QED  BY <2>1, <2>2, AloneBesideOther
<1>7. CASE \E c \in Calls : TerminateStep(c)
  BY <1>7, AloneInTermination
<1> QED  BY <1>1, <1>2, <1>3, <1>4, <1>5, <1>6, <1>7 DEF Next

\* LaunchedIsComplete: a VM that Launch returned has its Secret, with its own
\* request's data and owned by it, as long as it lives; unless another launch,
\* a deletion or a late Secret of another request ran beside that launch, or a
\* deletion failed after it.
THEOREM LaunchedStaysComplete == Spec => []LaunchedIsComplete
<1>1. Init /\ KubeInv => UndisturbedIsAlone
  <2> SUFFICES ASSUME Init, KubeInv, NEW l \in Launches PROVE Alone(l)
    BY DEF UndisturbedIsAlone
  <2>1. call[l] = Idle
    BY DEF Init, Calls
  <2>2. Idle.pc = "idle" /\ Idle.result = "none"
    BY DEF Idle
  <2> QED  BY <2>1, <2>2 DEF Alone, InFlight, Verifies, Intact
<1>2. UndisturbedIsAlone /\ KubeInv /\ [Next]_vars => UndisturbedIsAlone'
  BY AloneStep, DisturbedGrows DEF UndisturbedIsAlone
<1>3. UndisturbedIsAlone /\ KubeInv => LaunchedIsComplete
  <2> SUFFICES ASSUME UndisturbedIsAlone, KubeInv, NEW l \in Launches \ disturbed, Intact(l)
               PROVE  secret = [digest |-> call[l].digest, owner |-> vm.uid]
    BY DEF LaunchedIsComplete, Intact
  <2>1. secret \in [digest : Digests \cup {0}, owner : Nat]
    BY DEF KubeInv, Typed
  <2>2. secret.digest = call[l].digest /\ secret.owner = vm.uid
    BY DEF UndisturbedIsAlone, Alone
  <2> QED  BY <2>1, <2>2
<1> QED  BY KubeInvariance, <1>1, <1>2, <1>3, PTL DEF Spec

-----------------------------------------------------------------------------
(* A failed launch leaves no Secret behind.                                 *)

LEMMA FaultsLast ==
    ASSUME KubeInv, [Next]_vars, ~faulty'
    PROVE  ~faulty /\ ~Crash
<1>1. ASSUME NEW l \in Launches, LaunchStep(l) PROVE ~faulty
  BY <1>1 DEF LaunchStep, Create, Get, DropSecret, OwnSecret
<1>2. ASSUME NEW c \in Calls, TerminateStep(c) PROVE ~faulty
  BY <1>2 DEF TerminateStep, DeleteVM, DeleteDataVolume, DeleteSecret, TerminateReturn, Deleting, history
<1>3. ASSUME CheckReady \/ Cluster \/ UNCHANGED vars PROVE ~faulty
  BY <1>3, ClusterEffect DEF CheckReady, history, vars
<1>4. ASSUME NEW l \in Launches, NEW time \in now..MaxNow, LaunchStart(l, time) PROVE ~faulty
  BY <1>4 DEF LaunchStart
<1>5. ASSUME NEW t \in Terminates, TerminateStart(t) PROVE ~faulty
  BY <1>5 DEF TerminateStart
<1>6. ~Crash
  BY DEF Crash
<1> QED  BY <1>1, <1>2, <1>3, <1>4, <1>5, <1>6 DEF Next

\* One call moves: it is responsible afterwards, or it was not, or the Secret
\* is no longer abandoned.
LEMMA ResponsibilityIsPassedOn ==
    ASSUME KubeInv, SecretIsSeenTo, ~faulty, late' = late, NEW c \in Calls, NEW r \in CallState,
           call' = [call EXCEPT ![c] = r],
           Abandoned' => \/ r.pc \in {"create", "get"} /\ r.kind = "vm" /\ r.fresh
                         \/ r.pc \in {"drop", "own", "vm", "dv", "secret"}
                         \/ Abandoned /\ ~Responsible(c)
    PROVE  SecretIsSeenTo'
<1>1. call'[c] = r /\ \A b \in Calls \ {c} : call'[b] = call[b]
  BY DEF KubeInv, Typed
<1>2. \A b \in Calls \ {c} : Responsible(b) => Responsible(b)'
  BY <1>1 DEF Responsible, Verifies
<1>3. Abandoned' => \E b \in Calls : Responsible(b)'
  BY <1>1, <1>2 DEF SecretIsSeenTo, Responsible, Verifies
<1> QED  BY <1>1, <1>3 DEF SecretIsSeenTo

LEMMA SeenToStep ==
    ASSUME KubeInv, SecretIsSeenTo, [Next]_vars
    PROVE  SecretIsSeenTo'
<1> SUFFICES ASSUME ~faulty' PROVE SecretIsSeenTo'
  BY DEF SecretIsSeenTo
<1>0. ~faulty /\ ~Crash /\ late = {}
  BY FaultsLast DEF SecretIsSeenTo
<1>1. CASE CheckReady \/ UNCHANGED vars
  BY <1>1 DEF CheckReady, vars, objects, history, SecretIsSeenTo, Abandoned, Responsible, Verifies
<1>2. CASE Cluster
  <2>1. ~ApplyLate
    BY <1>0 DEF ApplyLate
  <2>2. late' = late /\ call' = call /\ (Abandoned' => Abandoned)
    BY <1>2, <2>1 DEF Cluster, Provision, Collect, Abandoned
  <2> QED  BY <2>2, <1>0 DEF SecretIsSeenTo, Responsible, Verifies
<1>3. ASSUME NEW l \in Launches, LaunchStep(l)
      PROVE  SecretIsSeenTo'
  <2>1. PICK r \in CallState : Moved(l, r) /\ LaunchEffect(l, r)
    BY <1>3, LaunchStepEffect
  <2>2. ~AnswerLost(l, r)
    BY DEF AnswerLost
  <2>3. late' = late /\ l \in Calls
    BY <2>1, <2>2 DEF LaunchEffect, Answered, AsksOn, GivesUp, objects, SecretVerified, VMVerified,
         SecretDropped, SecretOwned, SecretNotOwned, Calls
  <2>4. Abandoned' => \/ r.pc \in {"create", "get"} /\ r.kind = "vm" /\ r.fresh
                      \/ r.pc \in {"drop", "own", "vm", "dv", "secret"}
                      \/ Abandoned /\ ~Responsible(l)
    <3>1. CASE Answered(l, r)
      BY <3>1 DEF Answered, AsksOn, GivesUp, objects, Abandoned, Responsible, Verifies
    <3>2. CASE SecretVerified(l, r)
      BY <3>2 DEF SecretVerified, Abandoned, Responsible, Verifies
    <3>3. CASE VMVerified(l, r) \/ SecretDropped(l, r) \/ SecretNotOwned(l, r)
      BY <3>3 DEF VMVerified, SecretDropped, SecretNotOwned, Abandoned
    <3>4. CASE SecretOwned(l, r)
      <4>1. call[l].uid # 0
        BY <2>3, <3>4 DEF SecretOwned, KubeInv, CallsAreSound, Typed
      <4>2. secret'.owner = call[l].uid
        BY <3>4 DEF SecretOwned, KubeInv, Typed
      <4> QED  BY <4>1, <4>2 DEF Abandoned
    <3> QED  BY <2>1, <2>2, <3>1, <3>2, <3>3, <3>4 DEF LaunchEffect
  <2> QED  BY <1>0, <2>1, <2>3, <2>4, ResponsibilityIsPassedOn DEF Moved
<1>4. ASSUME NEW l \in Launches, NEW time \in now..MaxNow, LaunchStart(l, time)
      PROVE  SecretIsSeenTo'
  <2>1. PICK r \in CallState : call' = [call EXCEPT ![l] = r]
    BY <1>4, LaunchStartEffect
  <2>2. UNCHANGED <<secret, vm, late>> /\ call[l].pc = "idle" /\ l \in Calls
    BY <1>4, LaunchStartEffect DEF Calls
  <2>3. (Abandoned' => Abandoned) /\ ~Responsible(l)
    BY <2>2 DEF Abandoned, Responsible, Verifies
  <2> QED  BY <1>0, <2>1, <2>2, <2>3, ResponsibilityIsPassedOn
<1>5. ASSUME NEW t \in Terminates, TerminateStart(t)
      PROVE  SecretIsSeenTo'
  <2>1. PICK r \in CallState : call' = [call EXCEPT ![t] = r] /\ r.pc = "vm"
    BY <1>5, TerminateStartEffect
  <2>2. UNCHANGED <<secret, vm, late>> /\ t \in Calls
    BY <1>5, TerminateStartEffect DEF Calls
  <2> QED  BY <1>0, <2>1, <2>2, ResponsibilityIsPassedOn
<1>6. ASSUME NEW c \in Calls, TerminateStep(c)
      PROVE  SecretIsSeenTo'
  <2>1. CASE DeleteVM(c) \/ DeleteDataVolume(c) \/ DeleteSecret(c)
    <3>1. late' = late
      BY <2>1 DEF DeleteVM, DeleteDataVolume, DeleteSecret
    <3>2. PICK r \in CallState : /\ call' = [call EXCEPT ![c] = r]
                                 /\ r.pc \in {"dv", "secret"} \/ secret' = NoSecret
      BY <2>1, DeleteVMEffect, DeleteDataVolumeEffect, DeleteSecretEffect DEF Deleted
    <3>3. Abandoned' => r.pc \in {"dv", "secret"}
      BY <3>2 DEF Abandoned
    <3> QED  BY <1>0, <3>1, <3>2, <3>3, ResponsibilityIsPassedOn
  <2>2. CASE TerminateReturn(c)
    <3>1. UNCHANGED <<secret, vm, late>> /\ call[c].pc = "return"
      BY <2>2, TerminateReturnEffect
    <3>2. PICK r \in CallState : call' = [call EXCEPT ![c] = r]
      BY <2>2, TerminateReturnEffect
    <3>3. (Abandoned' => Abandoned) /\ ~Responsible(c)
      BY <3>1 DEF Abandoned, Responsible, Verifies
    <3> QED  BY <1>0, <3>1, <3>2, <3>3, ResponsibilityIsPassedOn
  <2> QED  BY <1>6, <2>1, <2>2 DEF TerminateStep
<1> QED  BY <1>0, <1>1, <1>2, <1>3, <1>4, <1>5, <1>6 DEF Next

\* FailureLeavesNoSecret: when no answer was lost and no call is in flight, a
\* Secret without an owner stands beside a VM that was created and not deleted.
THEOREM FailedLaunchCleansUp == Spec => []FailureLeavesNoSecret
<1>1. Init => SecretIsSeenTo
  BY DEF Init, SecretIsSeenTo, Idle, Abandoned
<1>2. KubeInv /\ SecretIsSeenTo /\ [Next]_vars => SecretIsSeenTo'
  BY SeenToStep
<1>3. SecretIsSeenTo => FailureLeavesNoSecret
  <2>1. \A c \in Calls : ~InFlight(c) => ~Responsible(c)
    BY DEF InFlight, Responsible, Verifies
  <2> QED  BY <2>1 DEF SecretIsSeenTo, FailureLeavesNoSecret, Quiet, Abandoned
<1> QED  BY KubeInvariance, <1>1, <1>2, <1>3, PTL DEF Spec

-----------------------------------------------------------------------------
(* A termination that reports success has removed everything.               *)

LEMMA LastStep ==
    ASSUME KubeInv, NEW t \in Terminates \ disturbed', Last(t), [Next]_vars
    PROVE  Last(t)'
<1>0. /\ t \in Calls /\ t \notin Launches /\ call \in [Calls -> CallState]
      /\ call[t].pc \notin {"drop", "done"} => call[t].result = "none"
      /\ call[t].pc = "drop" => call[t].result # "ok"
  BY CallsAreDistinct DEF KubeInv, Typed, CallsAreSound, Calls
<1>1. CASE CheckReady \/ UNCHANGED vars
  BY <1>1 DEF CheckReady, vars, objects, history, Last, Past, Launching, InFlight
<1>2. CASE Cluster
  <2>1. call' = call
    BY <1>2, ClusterEffect
  <2>2. CASE call[t].pc = "idle"
    BY <2>1, <2>2 DEF Last
  <2>3. CASE call[t].pc # "idle"
    <3>1. CASE ApplyLate
      <4>1. PICK p \in late : \/ ~Has(p[1]) /\ Put(p[1], p[2]) /\ disturbed' = disturbed \cup Upset(p[1], p[2])
                              \/ Has(p[1]) /\ UNCHANGED <<secret, vm, made, disturbed>>
        BY <3>1 DEF ApplyLate
      <4>2. p[1] \in {"secret", "vm"} /\ p[2] \in Digests /\ UNCHANGED dv /\ ObjectsTyped
        BY <3>1 DEF KubeInv, Typed, ObjectsTyped, ApplyLate
      <4>3. CASE ~Has(p[1]) /\ Put(p[1], p[2]) /\ disturbed' = disturbed \cup Upset(p[1], p[2])
        <5>1. CASE p[1] = "vm"
          <6>1. ~Past(t, {"dv", "secret", "return"}) /\ ~Past(t, {"secret", "return"}) /\ ~Past(t, {"return"})
            BY <1>0, <4>3, <5>1 DEF Upset, Past
          <6> QED  BY <2>1, <2>3, <6>1 DEF Last, Past, Launching, InFlight
        <5>2. CASE p[1] = "secret"
          <6>1. ~Past(t, {"return"})
            BY <1>0, <4>3, <5>2 DEF Upset, Past
          <6>2. UNCHANGED vm
            BY <4>2, <4>3, <5>2, PutEffect
          <6> QED  BY <2>1, <2>3, <4>2, <6>1, <6>2 DEF Last, Past, Launching, InFlight
        <5> QED  BY <4>2, <5>1, <5>2
      <4>4. CASE UNCHANGED <<secret, vm, made>>
        BY <2>1, <2>3, <4>2, <4>4 DEF Last, Past, Launching, InFlight
      <4> QED  BY <4>1, <4>3, <4>4
    <3>2. CASE Provision
      <4>1. ~Past(t, {"dv", "secret", "return"})
        BY <2>3, <3>2 DEF Provision, Last
      <4> QED  BY <2>1, <2>3, <4>1 DEF Last, Past, Launching, InFlight
    <3>3. CASE Collect
      BY <2>1, <2>3, <3>3 DEF Collect, Last, Past, Launching, InFlight
    <3> QED  BY <1>2, <3>1, <3>2, <3>3 DEF Cluster
  <2> QED  BY <2>2, <2>3
<1>3. CASE Crash
  <2>1. /\ UNCHANGED <<secret, vm, dv, late>>
        /\ ~InFlight(t) => call'[t] = call[t]
        /\ InFlight(t) => call'[t].pc = "done" /\ call'[t].result = "error"
        /\ \A l \in Launches : ~InFlight(l)'
    BY <1>0, <1>3, CrashEffect DEF Calls, InFlight
  <2> QED  BY <2>1 DEF Last, Past, Launching, InFlight
<1>4. ASSUME NEW l \in Launches, LaunchStep(l)
      PROVE  Last(t)'
  <2>1. Launching
    BY <1>4 DEF Launching, InFlight, LaunchStep, Create, Get, DropSecret, OwnSecret
  <2>2. PICK r \in CallState : call' = [call EXCEPT ![l] = r]
    BY <1>4, LaunchStepEffect DEF Moved
  <2>3. call'[t] = call[t]
    BY <1>0, <2>2
  <2> QED  BY <2>1, <2>3 DEF Last
<1>5. ASSUME NEW l \in Launches, NEW time \in now..MaxNow, LaunchStart(l, time)
      PROVE  Last(t)'
  <2>1. call[t].pc = "idle"
    BY <1>5, LaunchStartEffect
  <2>2. PICK r \in CallState : call' = [call EXCEPT ![l] = r]
    BY <1>5, LaunchStartEffect
  <2>3. call'[t] = call[t]
    BY <1>0, <2>2
  <2> QED  BY <2>1, <2>3 DEF Last
<1>6. ASSUME NEW u \in Terminates, TerminateStart(u)
      PROVE  Last(t)'
  <2>1. PICK r \in CallState : call' = [call EXCEPT ![u] = r] /\ r.pc = "vm" /\ r.result = "none"
    BY <1>6, TerminateStartEffect
  <2>2. /\ UNCHANGED <<secret, vm, dv, late>> /\ u \in Calls /\ u \notin Launches
        /\ disturbed' = IF Launching THEN disturbed \cup {u} ELSE disturbed
    BY <1>6, TerminateStartEffect, CallsAreDistinct DEF Calls
  <2>3. Launching' => Launching
    BY <1>0, <2>1, <2>2 DEF Launching, InFlight, Calls
  <2>4. CASE u = t
    BY <1>0, <2>1, <2>2, <2>3, <2>4 DEF Last, Past
  <2>5. CASE u # t
    BY <1>0, <2>1, <2>2, <2>3, <2>5 DEF Last, Past
  <2> QED  BY <2>4, <2>5
<1>7. ASSUME NEW c \in Calls, TerminateStep(c)
      PROVE  Last(t)'
  <2>0. InFlight(c) /\ call[c].result = "none"
    BY <1>7 DEF TerminateStep, DeleteVM, DeleteDataVolume, DeleteSecret, TerminateReturn, Deleting,
         InFlight, objects, KubeInv, CallsAreSound
  <2>1. ASSUME NEW r \in CallState, call' = [call EXCEPT ![c] = r], call[t].pc # "idle"
        PROVE  /\ c \notin Launches /\ ~Launching'
               /\ c # t => call'[t] = call[t]
               /\ c = t => call'[t] = r
    <3>1. c \notin Launches
      BY <2>0, <2>1 DEF Last, Launching
    <3>2. ~Launching
      BY <2>0, <2>1 DEF Last
    <3>3. call'[c] = r /\ \A b \in Calls \ {c} : call'[b] = call[b]
      BY <1>0, <2>1
    <3>4. \A l \in Launches : call'[l] = call[l]
      BY <3>1, <3>3 DEF Calls
    <3> QED  BY <1>0, <3>1, <3>2, <3>3, <3>4 DEF Launching, InFlight
  <2>2. ASSUME NEW r \in CallState, call' = [call EXCEPT ![c] = r], call[t].pc = "idle"
        PROVE  Last(t)'
    BY <1>0, <2>0, <2>2 DEF Last, InFlight
  <2>3. CASE DeleteVM(c)
    <3>1. PICK r \in CallState : Deleted(c, r, "dv") /\ (r.bad \/ vm' = NoVM \/ vm'.deleting)
      BY <2>3, DeleteVMEffect
    <3>2. /\ UNCHANGED <<secret, dv>>
          /\ vm = NoVM \/ vm.deleting => vm' = NoVM \/ vm'.deleting
      BY <2>3, DeleteVMEffect DEF KubeInv, Typed
    <3>3. r.result # "ok"
      BY <2>0, <3>1 DEF Deleted
    <3> QED  BY <2>1, <2>2, <3>1, <3>2, <3>3 DEF Last, Past, Deleted
  <2>4. CASE DeleteDataVolume(c)
    <3>1. PICK r \in CallState : Deleted(c, r, "secret") /\ (r.bad \/ dv' = 0)
      BY <2>4, DeleteDataVolumeEffect
    <3>2. UNCHANGED <<secret, vm>> /\ dv' \in {dv, 0} /\ call[c].pc = "dv"
      BY <2>4, DeleteDataVolumeEffect
    <3>3. r.result # "ok"
      BY <2>0, <3>1 DEF Deleted
    <3> QED  BY <2>1, <2>2, <3>1, <3>2, <3>3 DEF Last, Past, Deleted
  <2>5. CASE DeleteSecret(c)
    <3>1. PICK r \in CallState : Deleted(c, r, "return") /\ (r.bad \/ secret' = NoSecret)
      BY <2>5, DeleteSecretEffect
    <3>2. UNCHANGED <<dv, vm>> /\ secret' \in {secret, NoSecret} /\ call[c].pc = "secret"
      BY <2>5, DeleteSecretEffect
    <3>3. r.result # "ok"
      BY <2>0, <3>1 DEF Deleted
    <3> QED  BY <2>1, <2>2, <3>1, <3>2, <3>3 DEF Last, Past, Deleted
  <2>6. CASE TerminateReturn(c)
    <3>1. UNCHANGED <<secret, dv, vm>> /\ call[c].pc = "return"
      BY <2>6, TerminateReturnEffect
    <3>2. PICK r \in CallState : /\ call' = [call EXCEPT ![c] = r] /\ r.pc = "done"
                                 /\ r.result = IF c \in Launches \/ call[c].bad THEN "error" ELSE "ok"
      BY <2>6, TerminateReturnEffect
    <3> QED  BY <1>0, <2>1, <2>2, <3>1, <3>2 DEF Last, Past
  <2> QED  BY <1>7, <2>3, <2>4, <2>5, <2>6 DEF TerminateStep
<1> QED  BY <1>1, <1>2, <1>3, <1>4, <1>5, <1>6, <1>7 DEF Next

\* TerminateLeavesNothing: a Terminate that reports success leaves no object
\* of the sandbox, unless a launch ran beside it or later or the server applied
\* a create after Terminate had deleted that object.
THEOREM TerminateRemovesAll == Spec => []TerminateLeavesNothing
<1>1. Init => TerminationIsLast
  BY DEF Init, TerminationIsLast, Last, Idle, Calls
<1>2. KubeInv /\ TerminationIsLast /\ [Next]_vars => TerminationIsLast'
  BY LastStep, DisturbedGrows DEF TerminationIsLast
<1>3. KubeInv /\ TerminationIsLast => TerminateLeavesNothing
  <2> SUFFICES ASSUME KubeInv, NEW t \in Terminates, Last(t), call[t].result = "ok", Settled
               PROVE  secret = NoSecret /\ vm = NoVM /\ dv = 0
    BY DEF TerminationIsLast, TerminateLeavesNothing
  <2>1. call[t].pc # "idle"
    BY DEF KubeInv, CallsAreSound, Idle, Calls
  <2> QED  BY <2>1 DEF Last, Past, Settled
<1> QED  BY KubeInvariance, <1>1, <1>2, <1>3, PTL DEF Spec

-----------------------------------------------------------------------------
(* The adapter implements VMProvider.                                       *)

asked == [l \in Launches |-> call[l].digest]
answered == [l \in Launches |-> IF call[l].result = "ok" THEN call[l].uid ELSE 0]

\* A call moves without an answer of its own.
LEMMA NothingAnswered ==
    ASSUME KubeInv, NEW c \in Calls, NEW r \in CallState, call' = [call EXCEPT ![c] = r],
           r.digest = call[c].digest,
           c \in Launches => r.result # "ok" /\ call[c].result # "ok"
    PROVE  asked' = asked /\ answered' = answered
<1>1. call'[c] = r /\ \A b \in Calls \ {c} : call'[b] = call[b]
  BY DEF KubeInv, Typed
<1>2. \A l \in Launches : /\ call'[l].digest = call[l].digest
                          /\ (IF call'[l].result = "ok" THEN call'[l].uid ELSE 0)
                             = (IF call[l].result = "ok" THEN call[l].uid ELSE 0)
  BY <1>1 DEF Calls
<1> QED  BY <1>2 DEF asked, answered

\* A put of a VM makes it for a launch that asked for it.
LEMMA PutMakes ==
    ASSUME KubeInv, NEW l \in Launches, Put("vm", call[l].digest), ~Has("vm"),
           call[l].digest \in Digests, UNCHANGED dv, asked' = asked, answered' = answered
    PROVE  Provider!Make(l)
<1>1. vm = NoVM /\ made' = Append(made, call[l].digest) /\ vm' = [uid |-> Len(made'), deleting |-> FALSE]
  BY PutEffect DEF KubeInv, Typed, ObjectsTyped
<1>2. asked[l] = call[l].digest /\ asked[l] # 0
  BY NumbersAreNumbers DEF asked, Digests
<1> QED  BY <1>1, <1>2 DEF Provider!Make, asked, answered, NoVM

LEMMA LaunchImplements ==
    ASSUME KubeInv, NEW l \in Launches, LaunchStep(l)
    PROVE  [Provider!Next]_Provider!vars
<1>0. /\ l \in Calls /\ call \in [Calls -> CallState] /\ call[l].digest \in Digests
      /\ call[l].result # "ok"
  BY DEF KubeInv, Typed, Calls, LaunchStep, Create, Get, DropSecret, OwnSecret, CallsAreSound, InFlight
<1>1. PICK r \in CallState : Moved(l, r) /\ LaunchEffect(l, r)
  BY LaunchStepEffect
<1>2. CASE SecretOwned(l, r)
  <2>1. call[l].uid \in 1..Len(made) /\ made[call[l].uid] = call[l].digest /\ DOMAIN made = 1..Len(made)
    BY <1>2 DEF SecretOwned, KubeInv, CallsAreSound, Typed, Calls
  <2>2. answered[l] = 0 /\ asked[l] = made[call[l].uid]
    BY <1>0, <2>1 DEF asked, answered
  <2>3. call'[l] = r /\ \A k \in Launches \ {l} : call'[k] = call[k]
    BY <1>0, <1>1 DEF Moved, Calls
  <2>4. asked' = asked /\ answered' = [answered EXCEPT ![l] = call[l].uid]
    <3>1. \A k \in Launches : /\ call'[k].digest = call[k].digest
                              /\ (IF call'[k].result = "ok" THEN call'[k].uid ELSE 0)
                                 = (IF k = l THEN call[l].uid
                                    ELSE IF call[k].result = "ok" THEN call[k].uid ELSE 0)
      BY <1>1, <1>2, <2>3 DEF Moved, SecretOwned
    <3>2. answered' = [k \in Launches |-> IF k = l THEN call[l].uid ELSE answered[k]]
      BY <3>1 DEF answered
    <3> QED  BY <3>1, <3>2 DEF asked, answered
  <2>5. PICK u \in DOMAIN made : u = call[l].uid
    BY <2>1
  <2>6. Provider!Answer(l, u)
    BY <1>2, <2>2, <2>4, <2>5 DEF Provider!Answer, SecretOwned, asked, answered
  <2> QED  BY <2>6, Zenon DEF Provider!Next
<1>3. CASE ~SecretOwned(l, r)
  <2>1. r.result # "ok"
    BY <1>0, <1>1, <1>3 DEF LaunchEffect, Answered, AnswerLost, AsksOn, GivesUp, SecretVerified, VMVerified,
         SecretDropped, SecretNotOwned
  <2>2. asked' = asked /\ answered' = answered
    BY <1>0, <1>1, <2>1, NothingAnswered DEF Moved
  <2>3. CASE vm' = vm /\ made' = made
    BY <2>2, <2>3 DEF Provider!vars, asked, answered
  <2>4. CASE ~Has("vm") /\ Put("vm", call[l].digest) /\ UNCHANGED dv
    BY <1>0, <2>2, <2>4, PutMakes DEF Provider!Next
  <2>5. CASE AnswerLost(l, r)
    <3>1. call[l].kind \in {"secret", "vm"}
      BY <1>0 DEF CallState
    <3> QED  BY <2>3, <2>4, <2>5, <3>1 DEF AnswerLost, Unanswered, Put
  <2>6. CASE VMVerified(l, r) /\ ~(UNCHANGED <<vm, made>>)
    <3>1. /\ vm = NoVM /\ made' = Append(made, call[l].digest)
          /\ vm' = [uid |-> Len(made) + 1, deleting |-> FALSE] /\ UNCHANGED <<secret, dv>>
      BY <2>6 DEF VMVerified
    <3>2. Len(made') = Len(made) + 1
      BY <1>0, <3>1 DEF KubeInv, Typed
    <3> QED  BY <2>4, <3>1, <3>2 DEF Put, Has
  <2> QED  BY <1>1, <1>3, <2>3, <2>5, <2>6 DEF LaunchEffect, Answered, objects, SecretVerified,
             SecretDropped, SecretNotOwned
<1> QED  BY <1>2, <1>3

LEMMA TerminateImplements ==
    ASSUME KubeInv, NEW c \in Calls, TerminateStep(c)
    PROVE  [Provider!Next]_Provider!vars
<1>0. call[c].result # "ok"
  BY DEF TerminateStep, DeleteVM, DeleteDataVolume, DeleteSecret, TerminateReturn, Deleting,
         KubeInv, CallsAreSound
<1>1. CASE DeleteVM(c)
  <2>1. PICK r \in CallState : Deleted(c, r, "dv")
    BY <1>1, DeleteVMEffect
  <2>2. made' = made /\ vm' \in {vm, IF vm = NoVM THEN NoVM ELSE [vm EXCEPT !.deleting = TRUE]}
    BY <1>1, DeleteVMEffect
  <2>3. asked' = asked /\ answered' = answered
    BY <1>0, <2>1, NothingAnswered DEF Deleted
  <2>4. CASE vm' = vm
    BY <2>2, <2>3, <2>4 DEF Provider!vars, asked, answered
  <2>5. CASE vm # NoVM /\ vm' = [vm EXCEPT !.deleting = TRUE]
    <3>1. vm.uid # 0 /\ vm'.uid = vm.uid /\ vm'.deleting = TRUE
      BY <2>5 DEF KubeInv, Typed
    <3>2. Provider!Delete
      BY <2>2, <2>3, <3>1 DEF Provider!Delete, asked, answered
    <3> QED  BY <3>2 DEF Provider!Next
  <2> QED  BY <2>2, <2>4, <2>5
<1>2. CASE DeleteDataVolume(c) \/ DeleteSecret(c)
  <2>1. PICK r \in CallState : Deleted(c, r, "secret") \/ Deleted(c, r, "return")
    BY <1>2, DeleteDataVolumeEffect, DeleteSecretEffect
  <2>2. vm' = vm /\ made' = made
    BY <1>2 DEF DeleteDataVolume, DeleteSecret
  <2>3. asked' = asked /\ answered' = answered
    BY <1>0, <2>1, NothingAnswered DEF Deleted
  <2> QED  BY <2>2, <2>3 DEF Provider!vars, asked, answered
<1>3. CASE TerminateReturn(c)
  <2>1. PICK r \in CallState : /\ call' = [call EXCEPT ![c] = r] /\ r.digest = call[c].digest
                               /\ r.result = IF c \in Launches \/ call[c].bad THEN "error" ELSE "ok"
    BY <1>3, TerminateReturnEffect
  <2>2. vm' = vm /\ made' = made
    BY <1>3, TerminateReturnEffect
  <2>3. asked' = asked /\ answered' = answered
    BY <1>0, <2>1, NothingAnswered
  <2> QED  BY <2>2, <2>3 DEF Provider!vars, asked, answered
<1> QED  BY <1>1, <1>2, <1>3 DEF TerminateStep

LEMMA ClusterImplements ==
    ASSUME KubeInv, Cluster
    PROVE  [Provider!Next]_Provider!vars
<1>1. asked' = asked /\ answered' = answered
  BY ClusterEffect DEF asked, answered
<1>2. CASE vm' = vm /\ made' = made
  BY <1>1, <1>2 DEF Provider!vars, asked, answered
<1>3. CASE Collect
  <2>1. CASE vm.deleting /\ vm' = NoVM
    <3>1. Provider!Remove
      BY <1>1, <1>3, <2>1 DEF Provider!Remove, Collect, NoVM, asked, answered
    <3> QED  BY <3>1 DEF Provider!Next
  <2> QED  BY <1>2, <1>3, <2>1 DEF Collect
<1>4. CASE ApplyLate
  <2>1. PICK p \in late : \/ ~Has(p[1]) /\ Put(p[1], p[2])
                          \/ Has(p[1]) /\ UNCHANGED <<secret, vm, made>>
    BY <1>4 DEF ApplyLate
  <2>2. p[1] \in {"secret", "vm"} /\ p[2] \in Digests /\ UNCHANGED dv
    BY <1>4 DEF KubeInv, Typed, ApplyLate
  <2>3. PICK l \in Launches : call[l].digest = p[2]
    BY DEF KubeInv, LateIsAsked
  <2>4. CASE p[1] = "vm" /\ ~Has("vm") /\ Put("vm", call[l].digest)
    BY <1>1, <2>2, <2>3, <2>4, PutMakes DEF Provider!Next
  <2> QED  BY <1>2, <2>1, <2>2, <2>3, <2>4 DEF Put
<1> QED  BY <1>2, <1>3, <1>4 DEF Cluster, Provision

LEMMA ProviderStep ==
    ASSUME KubeInv, [Next]_vars
    PROVE  [Provider!Next]_Provider!vars
<1>1. CASE CheckReady \/ UNCHANGED vars
  BY <1>1 DEF CheckReady, vars, objects, Provider!vars
<1>2. CASE Crash
  <2>1. /\ UNCHANGED <<vm, made>>
        /\ \A l \in Launches : /\ call'[l].digest = call[l].digest
                               /\ call[l].result = "ok" => call'[l] = call[l]
                               /\ call'[l].result = "ok" => call[l].result = "ok"
    BY <1>2, CrashEffect DEF KubeInv, CallsAreSound, InFlight, Calls
  <2>2. asked' = asked /\ answered' = answered
    BY <2>1 DEF asked, answered
  <2> QED  BY <2>1, <2>2 DEF Provider!vars, asked, answered
<1>3. ASSUME NEW l \in Launches, NEW time \in now..MaxNow, LaunchStart(l, time)
      PROVE  [Provider!Next]_Provider!vars
  <2>1. call[l].pc = "idle" /\ UNCHANGED <<vm, made>> /\ time \in Digests
    BY <1>3, LaunchStartEffect
  <2>2. PICK r \in CallState : call' = [call EXCEPT ![l] = r] /\ r.result = "none" /\ r.digest = time
    BY <1>3, LaunchStartEffect
  <2>3. call[l].digest = 0 /\ call[l].result = "none"
    BY <2>1 DEF KubeInv, CallsAreSound, Idle, Calls
  <2>4. call'[l] = r /\ \A k \in Launches \ {l} : call'[k] = call[k]
    BY <2>2 DEF KubeInv, Typed, Calls
  <2>5. asked[l] = 0 /\ asked' = [asked EXCEPT ![l] = time] /\ answered' = answered
    <3>1. \A k \in Launches : /\ call'[k].digest = (IF k = l THEN time ELSE call[k].digest)
                              /\ (IF call'[k].result = "ok" THEN call'[k].uid ELSE 0)
                                 = (IF call[k].result = "ok" THEN call[k].uid ELSE 0)
      BY <2>2, <2>3, <2>4
    <3>2. asked' = [k \in Launches |-> IF k = l THEN time ELSE asked[k]]
      BY <3>1 DEF asked
    <3> QED  BY <2>3, <3>1, <3>2 DEF asked, answered
  <2>6. Provider!Ask(l, time)
    BY <2>1, <2>5 DEF Provider!Ask, asked, answered
  <2> QED  BY <2>1, <2>6 DEF Provider!Next
<1>4. ASSUME NEW t \in Terminates, TerminateStart(t)
      PROVE  [Provider!Next]_Provider!vars
  <2>1. PICK r \in CallState : call' = [call EXCEPT ![t] = r] /\ r.digest = call[t].digest
    BY <1>4, TerminateStartEffect
  <2>2. UNCHANGED <<vm, made>> /\ t \in Calls /\ t \notin Launches
    BY <1>4, TerminateStartEffect, CallsAreDistinct DEF Calls
  <2>3. asked' = asked /\ answered' = answered
    BY <2>1, <2>2, NothingAnswered
  <2> QED  BY <2>2, <2>3 DEF Provider!vars, asked, answered
<1> QED  BY <1>1, <1>2, <1>3, <1>4, LaunchImplements, TerminateImplements, ClusterImplements DEF Next

\* ImplementsProvider: every behaviour of Launch and Terminate is one of the
\* provider the driver relies on: no VM beside another, none that was not
\* asked for, and no answer but a VM of the request it answers.
THEOREM AdapterImplementsProvider == Spec => ImplementsProvider
<1>1. Init => Provider!Init
  BY DEF Init, Provider!Init, NoVM, Idle, Calls
<1>2. KubeInv /\ [Next]_vars => [Provider!Next]_Provider!vars
  BY ProviderStep
<1> QED  BY KubeInvariance, <1>1, <1>2, PTL DEF Spec, ImplementsProvider, Provider!Spec

==============================================================================
