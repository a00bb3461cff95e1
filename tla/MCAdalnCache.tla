---------------------------- MODULE MCAdalnCache ----------------------------
(***************************************************************************)
(* Four plans of one to three pages compete for three slots and three      *)
(* pages.  Schedules share plans, one is larger than the slab, and some    *)
(* fit the host tier only if others leave it, or not at all.               *)
(***************************************************************************)
EXTENDS AdalnCache, TLC

CONSTANTS p1, p2, p3, p4

MCLength == (p1 :> 1) @@ (p2 :> 1) @@ (p3 :> 3) @@ (p4 :> 1)
MCSchedules == {<<p1, p2>>, <<p2, p1>>, <<p3, p2>>, <<p3>>,
                <<p1, p2, p4>>, <<p1, p2, p3, p4>>}
Sym == Permutations(Slots) \cup Permutations(Pages)
=============================================================================
