----------------------------- MODULE Safeguards -----------------------------
(***************************************************************************)
(* The registry of pkg/safeguards as the drivers use it: a map from        *)
(* sandbox ID to a Record, guarded by one mutex, plus a counter that hands *)
(* out leases.  Every operation below is one critical section of the       *)
(* mutex, so a driver step that uses one is atomic and everything between  *)
(* two of them interleaves.                                                *)
(*                                                                         *)
(* A record keeps the fields the drivers decide on.  Names, the spec, the  *)
(* rendered status and the redaction of the sandbox token are left out.    *)
(* An absent entry is the zero Record{}: the code returns that value too,  *)
(* and a stored record never has lease 0.                                  *)
(***************************************************************************)
EXTENDS Integers, FiniteSets

CONSTANTS Sandboxes,        \* sandbox IDs
          Instances,        \* provider instance names, as numbers that keep
                            \* the order of the names (used to break ties)
          MaxInstances,     \* Limits.EffectiveMaxInstances()
          MaxInstanceAge    \* Limits.EffectiveMaxAge()

ASSUME SandboxesFinite == IsFiniteSet(Sandboxes) /\ Sandboxes # {}
ASSUME InstancesAreNames == Instances \subseteq Nat \ {0}
ASSUME LimitsArePositive == MaxInstances \in Nat \ {0} /\ MaxInstanceAge \in Nat \ {0}

NoInstance == 0   \* InstanceID == ""
ZeroTime == 0     \* time.Time{}.IsZero()

Record(states) == [instance     : Instances \cup {NoInstance},
                   state        : states \cup {""},
                   createdAt    : Nat,
                   missingPolls : Nat,
                   lease        : Nat]

NoRecord == [instance |-> NoInstance, state |-> "", createdAt |-> ZeroTime,
             missingPolls |-> 0, lease |-> 0]

NewRegistry == [s \in Sandboxes |-> NoRecord]

\* The keys of the map; Cardinality(Tracked(recs)) is len(r.records).
Tracked(recs) == {s \in Sandboxes : recs[s].lease # 0}

\* nextLease.Add(1).
NextLease_Stuck(n) == 1
NextLease(n) == n + 1

CanReserve_OneTooMany(recs, s) == /\ s \notin Tracked(recs)
                                  /\ Cardinality(Tracked(recs)) <= MaxInstances
\* ReserveWithLease refuses a known ID first and a full registry second.
CanReserve(recs, s) == /\ s \notin Tracked(recs)
                       /\ Cardinality(Tracked(recs)) < MaxInstances

\* Add refuses a known ID only: existing instances stay tracked even above
\* the limit.
CanAdd(recs, s) == s \notin Tracked(recs)

Store(recs, s, rec, lease) == [recs EXCEPT ![s] = [rec EXCEPT !.lease = lease]]

Rollback_Unconditional(recs, s) == [recs EXCEPT ![s] = NoRecord]
\* Rollback goes by ID, not by lease.
Rollback(recs, s) == IF recs[s].instance = NoInstance
                       THEN [recs EXCEPT ![s] = NoRecord]
                       ELSE recs

Delete(recs, s) == [recs EXCEPT ![s] = NoRecord]

Expired(recs, now) == {s \in Tracked(recs) :
                         /\ recs[s].createdAt # ZeroTime
                         /\ now - recs[s].createdAt > MaxInstanceAge
                         /\ recs[s].state # "terminated"}
=============================================================================
