-------------------------- MODULE MCBuddyAllocator --------------------------
(* A pool of eight blocks of two bytes, used by two threads. *)
EXTENDS BuddyAllocator, TLC

MCSizeAt == [k \in 0..3 |-> 2 * 2^k]

Symmetry == Permutations(Threads)
=============================================================================
