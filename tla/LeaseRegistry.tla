---------------------------- MODULE LeaseRegistry ----------------------------
(***************************************************************************)
(* What the registry of pkg/safeguards promises a driver, independent of   *)
(* any provider: sandbox slots that are handed out under a capacity limit, *)
(* each occupation under a lease of its own that stays with it to the end. *)
(*                                                                         *)
(*   free      no record                                                   *)
(*   reserved  a record without an instance: a launch is in flight         *)
(*   bound     a record with an instance                                   *)
(***************************************************************************)
EXTENDS Integers, FiniteSets

CONSTANTS Sandboxes, MaxInstances

VARIABLES slot,    \* slot[s] = [phase, lease]
          issued   \* leases handed out so far

Free == [phase |-> "free", lease |-> 0]
Occupied == {s \in Sandboxes : slot[s].phase # "free"}

Occupy(s, phase) ==
    /\ slot[s] = Free
    /\ issued' = issued + 1
    /\ slot' = [slot EXCEPT ![s] = [phase |-> phase, lease |-> issued + 1]]

\* A create is admitted below the limit only.
Reserve(s) == Cardinality(Occupied) < MaxInstances /\ Occupy(s, "reserved")

\* An instance found at the provider is tracked whatever the limit.
Recover(s) == Occupy(s, "bound")

\* The reservation gets its instance and keeps its lease.
Bind(s) ==
    /\ slot[s].phase = "reserved"
    /\ slot' = [slot EXCEPT ![s].phase = "bound"]
    /\ UNCHANGED issued

\* A reservation is rolled back, or a bound sandbox is forgotten.
Release(s) ==
    /\ slot[s].phase # "free"
    /\ slot' = [slot EXCEPT ![s] = Free]
    /\ UNCHANGED issued

\* The registry is not persisted.
Crash ==
    /\ slot' = [s \in Sandboxes |-> Free]
    /\ issued' = 0

Init == slot = [s \in Sandboxes |-> Free] /\ issued = 0

Next == Crash \/ \E s \in Sandboxes : Reserve(s) \/ Recover(s) \/ Bind(s) \/ Release(s)

Spec == Init /\ [][Next]_<<slot, issued>>
==============================================================================
