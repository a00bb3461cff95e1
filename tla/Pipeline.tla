------------------------------ MODULE Pipeline ------------------------------
(***************************************************************************)
(* What the disaggregated pipeline promises to a client, whatever the      *)
(* orchestrator does in between: a request is answered at most once, and   *)
(* it is answered with a result only when the three roles have computed    *)
(* it one after the other, each on the output of the one before.           *)
(* DiffusionServer is shown to implement this specification.               *)
(***************************************************************************)
EXTENDS Naturals

CONSTANT Requests

VARIABLES
    progress,       \* how many roles have computed the request
    replies         \* "none", then "ok" or "error" for ever

Init == /\ progress = [r \in Requests |-> 0]
        /\ replies = [r \in Requests |-> "none"]

\* The next role computes the request; it may do so after an error reply.
Compute(r) == /\ progress[r] < 3
              /\ progress' = [progress EXCEPT ![r] = @ + 1]
              /\ UNCHANGED replies

Succeed(r) == /\ progress[r] = 3
              /\ replies[r] = "none"
              /\ replies' = [replies EXCEPT ![r] = "ok"]
              /\ UNCHANGED progress

Fail(r) == /\ replies[r] = "none"
           /\ replies' = [replies EXCEPT ![r] = "error"]
           /\ UNCHANGED progress

Next == \E r \in Requests : Compute(r) \/ Succeed(r) \/ Fail(r)

Spec == Init /\ [][Next]_<<progress, replies>>
=============================================================================
