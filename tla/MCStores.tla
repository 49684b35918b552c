------------------------------- MODULE MCStores -------------------------------
(* Small instances of the two stores for TLC. *)
EXTENDS Stores

CONSTANTS r1, r2,                       \* readers of the schedules
          q1, q2, cost, service, u1, u2 \* requests, scenarios, runs

TwoReaders == {r1, r2}
TwoRequests == {q1, q2}
TwoScenarios == {cost, service}
TwoRuns == {u1, u2}
===============================================================================
