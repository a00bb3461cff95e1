---------------------------- MODULE MCScheduler ----------------------------
(* Instances of Scheduler for TLC. *)
EXTENDS Scheduler

CONSTANTS a1, a2, a3, b1, op1, op2

\* Three requests of one signature, one of another, and operations on the
\* worker.
MCClass == [r \in Requests |-> IF r \in {a1, a2, a3} THEN "a" ELSE "b"]

Mixed == [r \in Requests |-> CASE r = op1 -> "sleep" [] r = op2 -> "wake"
                               [] OTHER -> "gen"]
Updating == [r \in Requests |-> IF r = op1 THEN "update" ELSE "gen"]

One == [r \in Requests |-> 1]
Two == [r \in Requests |-> 2]
Uneven == [r \in Requests |-> IF r \in {a2, a3} THEN 2 ELSE 1]
=============================================================================
