-------------------------- MODULE MCHealthMonitor --------------------------
(* HealthMonitor on a tier of one provider. *)
EXTENDS HealthMonitor, TLC

CONSTANTS p1

Alone == <<p1>>
Quick == [latency |-> 1, failed |-> FALSE]
Slow == [latency |-> 3, failed |-> FALSE]
Error == [latency |-> 1, failed |-> TRUE]
AllOutcomes == {Quick, Slow, Error}
=============================================================================
