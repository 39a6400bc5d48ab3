---------------------------- MODULE MCJobRepository ----------------------------
(* Instances of JobRepository for TLC. *)
EXTENDS JobRepository, TLC

\* One tenant.
OneTenant == [j \in Jobs |-> 1]
\* The odd jobs belong to tenant 1, the even ones to tenant 2.
TwoTenants == [j \in Jobs |-> IF j % 2 = 1 THEN 1 ELSE 2]

\* Job 1 needs two units of a daily budget, the others one.
MixedCost == [j \in Jobs |-> IF j = 1 THEN 2 ELSE 1]
UnitCost == [j \in Jobs |-> 1]
\* Job 1 asks for large execution limits.
LargeFirst == [j \in Jobs |-> IF j = 1 THEN 2 ELSE 1]

Base == [maxRunning |-> 1, maxQueued |-> 2, maxTries |-> 2, daily |-> 2, ceiling |-> 2]
Wide == [Base EXCEPT !.maxRunning = 2]
FixedPolicy == {Base}
WidePolicy == {Wide}
\* Policies that lower the daily budget, or the retries and the ceilings.
ChangingPolicies == {Wide, [Wide EXCEPT !.daily = 1],
                     [Wide EXCEPT !.maxTries = 1, !.ceiling = 1]}
\* One job may wait while another one runs.
NarrowPolicy == {[Base EXCEPT !.maxQueued = 1]}

\* No cases, a time within every reservation and one beyond every reservation.
AllResults == {[time |-> NoCases, compile |-> "SUCCEEDED"],
               [time |-> NoCases, compile |-> "FAILED"],
               [time |-> 1, compile |-> "SUCCEEDED"],
               [time |-> 3, compile |-> "SUCCEEDED"]}
OneResult == {[time |-> 1, compile |-> "SUCCEEDED"]}
AllFailures == {[permanent |-> FALSE, charge |-> FALSE],
                [permanent |-> TRUE, charge |-> TRUE]}

NoLocks == {{}}
AnyTenantLocks == SUBSET Tenants
AnyJobLocks == SUBSET Jobs

WorkerSymmetry == Permutations(Workers)
=============================================================================
