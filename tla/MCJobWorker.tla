------------------------------ MODULE MCJobWorker ------------------------------
(* Instances of JobWorker for TLC. *)
EXTENDS JobWorker, TLC

OneTenant == [j \in Jobs |-> 1]
TwoTenants == [j \in Jobs |-> IF j = 1 THEN 1 ELSE 2]
MixedCost == [j \in Jobs |-> IF j = 1 THEN 2 ELSE 1]
UnitSize == [j \in Jobs |-> 1]
LargeFirst == [j \in Jobs |-> IF j = 1 THEN 2 ELSE 1]

Base == [maxRunning |-> 1, maxQueued |-> 2, maxTries |-> 2, daily |-> 2, ceiling |-> 2]
FixedPolicy == {Base}
TightenedPolicy == {Base, [Base EXCEPT !.ceiling = 1]}

WorkerResults == {Placeholder, [time |-> 1, compile |-> "SUCCEEDED"]}
OneResult == {[time |-> 1, compile |-> "SUCCEEDED"]}
WorkerFailures == {Transient, CheckerFailure}
NoLocks == {{}}

WorkerSymmetry == Permutations(Workers)

=============================================================================
