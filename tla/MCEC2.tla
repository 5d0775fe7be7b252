-------------------------------- MODULE MCEC2 --------------------------------
(* Small instances of EC2Driver for TLC.                                     *)
EXTENDS EC2Driver, TLC

CONSTANTS c1, c2, p1, a, b, t1, t2

\* Every instance is tagged with one sandbox.
OneSandboxOf == [v \in Instances |-> a]
TwoSandboxOf == [v \in Instances |-> IF v % 2 = 1 THEN a ELSE b]

\* Instances boot.
Boots == {<<"pending", "running">>}

\* Instances of an earlier life.
OldOf(states, times) == [state : states, createdAt : times, token : {t1}, visible : {TRUE}]
RunningLeftovers == OldOf({"running"}, {ZeroTime, Start})
TerminatedLeftovers == OldOf({"terminated"}, {Start - 1})
AnyLeftovers == OldOf({"running"}, {Start - 2, Start}) \cup OldOf({"terminated"}, {Start - 1})

CreateSymmetry == Permutations(Creates)
==============================================================================
