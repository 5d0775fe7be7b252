------------------------------ MODULE MCKubeVirt ------------------------------
(* Small instances of KubeVirtDriver for TLC.                                *)
EXTENDS KubeVirtDriver, TLC

CONSTANTS c1, c2, p1, a, b

\* One sandbox, one VM of its own.
OneSandboxOf == [v \in {1} |-> a]
OneVMName == [s \in {a} |-> 1]

\* Two sandboxes, each with its own VM.
TwoSandboxOf == [v \in {1, 2} |-> IF v = 1 THEN a ELSE b]
TwoVMName == [s \in {a, b} |-> IF s = a THEN 1 ELSE 2]

\* One sandbox and a second VM that carries its annotations.
DuplicateSandboxOf == [v \in {1, 2} |-> a]

\* VMs are deleted behind the driver's back, or stop.
Deletions == {<<"Starting", "Terminating">>, <<"Starting", "Stopped">>}

\* VMs boot.
Boots == {<<"Starting", "Running">>}

\* VMs fail.
Failures == {<<"Running", "Failed">>}

\* VMs of an earlier life, without a trustworthy creation time or soon expired.
UndatedLeftovers == [state : {"Running"}, createdAt : {ZeroTime}]
OldLeftovers == [state : {"Running"}, createdAt : {Start - 1}]

CreateSymmetry == Permutations(Creates)

\* No action and no property of the runs that use this view reads the last event
\* or the acknowledged deletions, so states that differ in them alone are one.
WhatIsRead == <<records, nextLease, vms, now, create, rpc, poll, serving, restarts, late, absentRun,
                excused>>
===============================================================================
