------------------------------- MODULE Queues -------------------------------
(***************************************************************************)
(* What the queues of the orchestrator, the scheduler and the caches share *)
(* beyond the standard module Sequences: Python's loops over a list and    *)
(* the comprehension that keeps part of one.  They are defined here and    *)
(* not taken from a library of sequences so that what they compute can be  *)
(* proved (CommonFacts).                                                   *)
(***************************************************************************)
EXTENDS Sequences, FiniteSetsExt

\* A fold over a sequence, its first element first.
FoldLeft(op(_, _), base, q) ==
    MapThenFoldSet(LAMBDA x, y : op(y, x), base, LAMBDA i : q[i], Max, DOMAIN q)

\* [x for x in q if x not in S]
Minus(q, S) ==
    LET Keep(kept, x) == IF x \in S THEN kept ELSE Append(kept, x)
    IN FoldLeft(Keep, <<>>, q)
=============================================================================
