----------------------------- MODULE VMProvider -----------------------------
(***************************************************************************)
(* What the KubeVirt driver may rely on when it calls a VMProvider         *)
(* (drivers/kubevirt/provider.go) about one sandbox: at most one VM at a   *)
(* time has the sandbox's name, a VM is made only for a launch that was    *)
(* asked for and leaves only through deletion, and Launch returns nothing  *)
(* but a VM of its own request.  A request is known by its digest.         *)
(***************************************************************************)
EXTENDS Naturals, Sequences

CONSTANTS Launches,  \* calls of Launch
          Digests    \* request digests

VARIABLES made,      \* the digests of the VMs made so far; a VM's UID is its index
          current,   \* UID of the VM that exists, 0 if there is none
          deleting,  \* that VM is under deletion
          asked,     \* the digest each launch asked for, 0 before
          answered   \* UID each launch returned, 0 before

vars == <<made, current, deleting, asked, answered>>

Init ==
    /\ made = <<>> /\ current = 0 /\ deleting = FALSE
    /\ asked = [l \in Launches |-> 0]
    /\ answered = [l \in Launches |-> 0]

Ask(l, d) ==
    /\ asked[l] = 0
    /\ asked' = [asked EXCEPT ![l] = d]
    /\ UNCHANGED <<made, current, deleting, answered>>

\* Also after Launch gave up: the API server may apply a create late.
Make(l) ==
    /\ current = 0 /\ asked[l] # 0
    /\ made' = Append(made, asked[l])
    /\ current' = Len(made')
    /\ UNCHANGED <<deleting, asked, answered>>

Answer(l, u) ==
    /\ answered[l] = 0 /\ asked[l] = made[u]
    /\ answered' = [answered EXCEPT ![l] = u]
    /\ UNCHANGED <<made, current, deleting, asked>>

Delete ==
    /\ current # 0
    /\ deleting' = TRUE
    /\ UNCHANGED <<made, current, asked, answered>>

Remove ==
    /\ deleting
    /\ current' = 0 /\ deleting' = FALSE
    /\ UNCHANGED <<made, asked, answered>>

Next == \/ \E l \in Launches : Make(l) \/ \E d \in Digests : Ask(l, d)
        \/ \E l \in Launches, u \in DOMAIN made : Answer(l, u)
        \/ Delete \/ Remove

Spec == Init /\ [][Next]_vars
=============================================================================
