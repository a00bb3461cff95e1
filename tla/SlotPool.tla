------------------------------ MODULE SlotPool ------------------------------
(***************************************************************************)
(* What a transfer buffer promises to the code that stages tensors in it,  *)
(* whatever allocator is behind it: every slot that has been handed out    *)
(* and not yet freed lies inside the pool and shares no byte with another  *)
(* one.  BuddyAllocator is shown to implement this specification.          *)
(***************************************************************************)
EXTENDS Integers

CONSTANT PoolSize

VARIABLE slots          \* the slots handed out and not yet freed

Slot == [offset : 0..(PoolSize - 1), size : 1..PoolSize]

Inside(s) == s.offset + s.size <= PoolSize

Disjoint(s, u) == \/ s.offset + s.size <= u.offset
                  \/ u.offset + u.size <= s.offset

Init == slots = {}

Grant(s) == /\ Inside(s)
            /\ \A u \in slots : Disjoint(s, u)
            /\ slots' = slots \cup {s}

Release(s) == /\ s \in slots
              /\ slots' = slots \ {s}

Next == \/ \E s \in Slot : Grant(s)
        \/ \E s \in slots : Release(s)

Spec == Init /\ [][Next]_slots
=============================================================================
