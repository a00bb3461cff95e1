--------------------------- MODULE BuddyAllocator ---------------------------
(***************************************************************************)
(* The buddy allocator of a role instance's transfer pool                  *)
(* (disaggregation/transport/allocator.py) as the tensor buffer above it   *)
(* uses it (transport/buffer.py).  The main loop, the RDMA push thread and *)
(* the prefetch thread of the role call it concurrently: every call takes  *)
(* the allocator's lock, and one action here is one iteration of the loop  *)
(* a call runs while it holds it.                                          *)
(*                                                                         *)
(* A block's size is min_block_size << order; the model keeps the order    *)
(* and reads the size from the table SizeAt.                               *)
(***************************************************************************)
EXTENDS Integers, Sequences, FiniteSets

CONSTANTS
    Threads,        \* the threads of a role that use the buffer
    NoThread,       \* "nobody holds the lock"
    MaxOrder,       \* _max_order
    SizeAt,         \* SizeAt[k] = min_block_size << k
    ReqSizes        \* the sizes callers ask for

ASSUME ThreadsAssumption == NoThread \notin Threads

ASSUME OrderAssumption == MaxOrder \in Nat

\* The table is the one the code computes with shifts.
ASSUME SizeAssumption ==
    /\ SizeAt \in [0..MaxOrder -> Nat \ {0}]
    /\ \A k \in 0..MaxOrder : k > 0 => SizeAt[k] = 2 * SizeAt[k - 1]

\* allocate raises on a size that is not positive.
ASSUME ReqSizesAssumption == ReqSizes \subseteq Nat \ {0}

VARIABLES
    blocks,           \* _blocks: offset -> order and allocated flag
    free_lists,       \* _free_lists: order -> offsets, oldest first
    allocated_bytes,  \* _allocated_bytes
    num_allocations,  \* _num_allocations
    lock,             \* the thread that holds _lock
    call,             \* where each thread is in a call
    handles           \* the SlotHandles returned and not yet freed

vars == <<blocks, free_lists, allocated_bytes, num_allocations, lock, call,
          handles>>

Orders   == 0..MaxOrder
PoolSize == SizeAt[MaxOrder]
Offsets  == 0..(PoolSize - 1)
Block    == [order : Orders, allocated : BOOLEAN]
Handle   == [offset : Offsets, order : Orders]
Call     == [pc : {"idle", "split", "info", "coalesce"},
             offset : Offsets, target : Orders]

SizeOf(o) == SizeAt[blocks[o].order]

Idle == [pc |-> "idle", offset |-> 0, target |-> 0]

\* k is the order of the smallest block that holds n bytes.
IsTargetOrder(k, n) == SizeAt[k] >= n /\ \A j \in 0..(k - 1) : SizeAt[j] < n

\* offset ^ size, for a block whose offset is a multiple of its size.
BuddyOfRightOnly(o, k) == o + SizeAt[k]
BuddyOf(o, k) == IF (o \div SizeAt[k]) % 2 = 0 THEN o + SizeAt[k]
                                              ELSE o - SizeAt[k]

\* Where the upper half of a block at o starts, once halved to order k.
UpperHalfUnhalved(o, k) == o + SizeAt[k + 1]
UpperHalf(o, k) == o + SizeAt[k]

\* list.remove(x) on a list that holds x at position i only.
WithoutNothing(s, i) == s
Without(s, i) == [j \in 1..(Len(s) - 1) |-> IF j < i THEN s[j] ELSE s[j + 1]]

TypeOK ==
    /\ DOMAIN blocks \subseteq Offsets
    /\ \A o \in DOMAIN blocks : blocks[o] \in Block
    /\ free_lists \in [Orders -> Seq(Offsets)]
    /\ allocated_bytes \in Int
    /\ num_allocations \in Int
    /\ lock \in Threads \cup {NoThread}
    /\ call \in [Threads -> Call]
    /\ handles \subseteq Handle

Init ==
    /\ blocks = [o \in {0} |-> [order |-> MaxOrder, allocated |-> FALSE]]
    /\ free_lists = [k \in Orders |-> IF k = MaxOrder THEN <<0>> ELSE <<>>]
    /\ allocated_bytes = 0
    /\ num_allocations = 0
    /\ lock = NoThread
    /\ call = [t \in Threads |-> Idle]
    /\ handles = {}

\* Both counters move together, by one block up or down.
AccountUpOnly(o, d) ==
    /\ allocated_bytes' = allocated_bytes + (IF d = 1 THEN SizeOf(o) ELSE 0)
    /\ num_allocations' = num_allocations + d
Account(o, d) ==
    /\ allocated_bytes' = allocated_bytes + d * SizeOf(o)
    /\ num_allocations' = num_allocations + d

(***************************************************************************)
(* allocate(n): take the lock and pop the oldest block of the lowest       *)
(* order that has one.  A size beyond the pool, or no free block of a      *)
(* sufficient order, makes the call return None and leaves the allocator   *)
(* as it was.                                                              *)
(***************************************************************************)
AllocateBegin(t, n) ==
    /\ call[t].pc = "idle"
    /\ lock = NoThread
    /\ \E k \in Orders, f \in Orders :
         /\ IsTargetOrder(k, n)
         /\ k <= f
         /\ free_lists[f] # <<>>
         /\ \A j \in k..(f - 1) : free_lists[j] = <<>>
         /\ free_lists' = [free_lists EXCEPT ![f] = Tail(@)]
         /\ call' = [call EXCEPT ![t] = [pc     |-> "split",
                                         offset |-> Head(free_lists[f]),
                                         target |-> k]]
    /\ lock' = t
    /\ UNCHANGED <<blocks, allocated_bytes, num_allocations, handles>>

\* One turn of the split loop: the upper half becomes a free block.
SplitStep(t) ==
    LET o == call[t].offset
        k == blocks[o].order - 1
        b == UpperHalf(o, k)
    IN /\ call[t].pc = "split"
       /\ blocks[o].order > call[t].target
       /\ blocks' = [x \in DOMAIN blocks \cup {b} |->
                        IF x \in {o, b} THEN [order |-> k, allocated |-> FALSE]
                                        ELSE blocks[x]]
       /\ free_lists' = [free_lists EXCEPT ![k] = Append(@, b)]
       /\ UNCHANGED <<allocated_bytes, num_allocations, lock, call, handles>>

\* The block has the target order: mark it, count it, release the lock.
AllocateEnd(t) ==
    LET o == call[t].offset
    IN /\ call[t].pc = "split"
       /\ blocks[o].order = call[t].target
       /\ blocks' = [blocks EXCEPT ![o].allocated = TRUE]
       /\ Account(o, 1)
       /\ lock' = NoThread
       /\ call' = [call EXCEPT ![t].pc = "info"]
       /\ UNCHANGED <<free_lists, handles>>

\* The buffer reads the block back under a second acquisition of the lock
\* and returns a SlotHandle with its offset and size.
GetBlockInfo(t) ==
    LET o == call[t].offset
    IN /\ call[t].pc = "info"
       /\ lock = NoThread
       /\ handles' = handles \cup {[offset |-> o, order |-> blocks[o].order]}
       /\ call' = [call EXCEPT ![t] = Idle]
       /\ UNCHANGED <<blocks, free_lists, allocated_bytes, num_allocations,
                      lock>>

(***************************************************************************)
(* free(handle): mark the block free, uncount it, then merge it with its   *)
(* buddy as long as that one is free and whole.  The transfer manager pops *)
(* a handle from its table before it frees it, so no handle is freed       *)
(* twice; on an offset that is not allocated free returns False and        *)
(* changes nothing.                                                        *)
(***************************************************************************)
FreeBegin(t, h) ==
    LET o == h.offset
    IN /\ call[t].pc = "idle"
       /\ lock = NoThread
       /\ o \in DOMAIN blocks
       /\ blocks[o].allocated
       /\ blocks' = [blocks EXCEPT ![o].allocated = FALSE]
       /\ Account(o, -1)
       /\ lock' = t
       /\ call' = [call EXCEPT ![t] = [pc |-> "coalesce", offset |-> o,
                                       target |-> 0]]
       /\ handles' = handles \ {h}
       /\ UNCHANGED free_lists

\* The buddy of block o is a free block of the same size.
CanMergeUnequal(o) ==
    LET b == BuddyOf(o, blocks[o].order)
    IN blocks[o].order < MaxOrder /\ b \in DOMAIN blocks /\ ~blocks[b].allocated
CanMerge(o) ==
    LET b == BuddyOf(o, blocks[o].order)
    IN /\ blocks[o].order < MaxOrder
       /\ b \in DOMAIN blocks
       /\ ~blocks[b].allocated
       /\ blocks[b].order = blocks[o].order

\* One turn of _coalesce: the lower of the two blocks absorbs the other.
MergeStep(t) ==
    LET o  == call[t].offset
        b  == BuddyOf(o, blocks[o].order)
        k  == blocks[b].order
        lo == IF b < o THEN b ELSE o
        hi == IF b < o THEN o ELSE b
    IN /\ call[t].pc = "coalesce"
       /\ CanMerge(o)
       /\ \E i \in 1..Len(free_lists[k]) :
            /\ free_lists[k][i] = b
            /\ free_lists' = [free_lists EXCEPT ![k] = Without(@, i)]
       /\ blocks' = [x \in DOMAIN blocks \ {hi} |->
                        IF x = lo THEN [order     |-> blocks[lo].order + 1,
                                    allocated |-> FALSE]
                                  ELSE blocks[x]]
       /\ call' = [call EXCEPT ![t].offset = lo]
       /\ UNCHANGED <<allocated_bytes, num_allocations, lock, handles>>

\* No more to merge: list the block under its order, release the lock.
CoalesceEnd(t) ==
    LET o == call[t].offset
    IN /\ call[t].pc = "coalesce"
       /\ ~CanMerge(o)
       /\ free_lists' = [free_lists EXCEPT ![blocks[o].order] = Append(@, o)]
       /\ lock' = NoThread
       /\ call' = [call EXCEPT ![t] = Idle]
       /\ UNCHANGED <<blocks, allocated_bytes, num_allocations, handles>>

Next == \E t \in Threads :
            \/ \E n \in ReqSizes : AllocateBegin(t, n)
            \/ SplitStep(t)
            \/ AllocateEnd(t)
            \/ GetBlockInfo(t)
            \/ \E h \in handles : FreeBegin(t, h)
            \/ MergeStep(t)
            \/ CoalesceEnd(t)

Spec == Init /\ [][Next]_vars

-----------------------------------------------------------------------------
\* The block the lock's holder splits or merges: neither listed nor allocated.
InHand == IF lock = NoThread THEN {} ELSE {call[lock].offset}

\* A thread is inside a split or a coalesce loop exactly while it holds the
\* lock; the block it was given is large enough, and once it has left the
\* lock the block is its own: no handle and no other caller has it.
CallsConsistent ==
    \A t \in Threads :
      /\ call[t].pc \in {"split", "coalesce"} <=> lock = t
      /\ call[t].pc = "split" => call[t].target <= blocks[call[t].offset].order
      /\ call[t].pc = "info" =>
           /\ call[t].offset \in DOMAIN blocks
           /\ blocks[call[t].offset] = [order     |-> call[t].target,
                                        allocated |-> TRUE]
           /\ \A h \in handles : h.offset # call[t].offset
           /\ \A u \in Threads : call[u].pc = "info" /\ u # t
                                   => call[u].offset # call[t].offset

\* The blocks tile the pool: no two share a byte, none sticks out, and every
\* byte is in one (what splitting and merging must preserve for two requests
\* never to be staged over each other).
BlocksTilePool ==
    /\ \A o \in DOMAIN blocks : o + SizeOf(o) <= PoolSize
    /\ \A o, p \in DOMAIN blocks : o < p => o + SizeOf(o) <= p
    /\ \A a \in Offsets : \E o \in DOMAIN blocks : o <= a /\ a < o + SizeOf(o)

\* Every block lies at a multiple of its size, which is what makes offset ^ size
\* the address of its buddy: a merge with the wrong neighbour would lose it.
BlocksAligned == \A o \in DOMAIN blocks : o % SizeOf(o) = 0

\* A live SlotHandle describes an allocated block of exactly the size the
\* handle says, although the buffer read that size after the lock had been
\* released in between, and no two live handles share a byte.
HandlesAreSlots ==
    /\ \A h \in handles : /\ h.offset \in DOMAIN blocks
                          /\ blocks[h.offset] = [order     |-> h.order,
                                                 allocated |-> TRUE]
    /\ \A h, g \in handles :
         h.offset < g.offset => h.offset + SizeAt[h.order] <= g.offset

\* The free lists hold exactly the free blocks, each once and under its own
\* order; list.remove in _coalesce therefore always finds the buddy.
FreeListsExact ==
    /\ \A k \in Orders : \A i \in 1..Len(free_lists[k]) :
         /\ free_lists[k][i] \in DOMAIN blocks \ InHand
         /\ blocks[free_lists[k][i]] = [order |-> k, allocated |-> FALSE]
    /\ \A k \in Orders : \A i, j \in 1..Len(free_lists[k]) :
         free_lists[k][i] = free_lists[k][j] => i = j
    /\ \A o \in DOMAIN blocks \ InHand :
         blocks[o].allocated
           \/ \E i \in 1..Len(free_lists[blocks[o].order]) :
                 free_lists[blocks[o].order][i] = o
    /\ \A o \in InHand : o \in DOMAIN blocks /\ ~blocks[o].allocated

\* _num_allocations and _allocated_bytes count the allocated blocks.
CountersExact ==
    LET alloc == {o \in DOMAIN blocks : blocks[o].allocated}
        bytes == UNION {{o} \X (1..SizeOf(o)) : o \in alloc}
    IN /\ num_allocations = Cardinality(alloc)
       /\ allocated_bytes = Cardinality(bytes)

\* allocate returns None only when it has to: if no list of order k or above
\* has a block, then every aligned region of that size meets an allocated
\* block.  It rests on _coalesce having merged all that could be merged.
RefusalIsHonest ==
    lock = NoThread =>
      \A k \in Orders :
        (\A j \in k..MaxOrder : free_lists[j] = <<>>) =>
          \A a \in {x \in Offsets : x % SizeAt[k] = 0} :
            \E o \in DOMAIN blocks : /\ blocks[o].allocated
                                     /\ o < a + SizeAt[k]
                                     /\ a < o + SizeOf(o)

\* The allocator implements SlotPool: a handle is granted on a region no
\* other live handle touches, and a free gives back exactly that region.
Pool == INSTANCE SlotPool WITH
            slots <- {[offset |-> h.offset, size |-> SizeAt[h.order]] :
                         h \in handles}
ImplementsSlotPool == Pool!Spec
=============================================================================
