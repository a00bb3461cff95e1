------------------------ MODULE BuddyAllocatorProofs ------------------------
(***************************************************************************)
(* Proofs about BuddyAllocator for every pool, every set of threads and    *)
(* every set of requested sizes: first that the blocks tile the pool, the  *)
(* free lists are exact and the handles are slots of a SlotPool; then, by  *)
(* arithmetic on offsets and sizes, that blocks are aligned, the counters  *)
(* are exact and allocate refuses only when it has to.                     *)
(***************************************************************************)
EXTENDS BuddyAllocator, CommonFacts, FiniteSetTheorems

\* Each order's size is a positive number, twice the size below it.
LEMMA Sizes ==
    /\ PoolSize \in Nat \ {0}
    /\ \A k \in Orders : SizeAt[k] \in Nat \ {0}
    /\ \A k \in Orders : k > 0 => /\ k - 1 \in Orders
                                  /\ SizeAt[k] = 2 * SizeAt[k - 1]
BY OrderAssumption, SizeAssumption DEF Orders, PoolSize

\* Removing the i-th element of a list keeps the others and their order.
LEMMA WithoutProperties ==
    ASSUME NEW S, NEW s \in Seq(S), NEW i \in 1..Len(s)
    PROVE  /\ Without(s, i) \in Seq(S)
           /\ Len(Without(s, i)) = Len(s) - 1
           /\ \A j \in 1..(Len(s) - 1) :
                Without(s, i)[j] = IF j < i THEN s[j] ELSE s[j + 1]
<1>1. Len(s) - 1 \in Nat
  OBVIOUS
<1>2. Without(s, i) \in [1..(Len(s) - 1) -> S]
  BY <1>1 DEF Without
<1> QED
  BY <1>1, <1>2 DEF Without

\* The list operations, stated by what they do to membership and positions.
LEMMA TailProperties ==
    ASSUME NEW S, NEW s \in Seq(S), s # <<>>
    PROVE  /\ Tail(s) \in Seq(S) /\ Head(s) \in S /\ Head(s) = s[1]
           /\ Len(s) \in Nat \ {0} /\ Len(Tail(s)) = Len(s) - 1
           /\ \A j \in 1..(Len(s) - 1) : Tail(s)[j] = s[j + 1]
OBVIOUS

\* list.append adds one position, at the end.
LEMMA AppendFacts ==
    ASSUME NEW S, NEW s \in Seq(S), NEW e \in S
    PROVE  /\ Append(s, e) \in Seq(S)
           /\ Len(s) \in Nat /\ Len(Append(s, e)) = Len(s) + 1
           /\ \A j \in 1..Len(s) : Append(s, e)[j] = s[j]
           /\ Append(s, e)[Len(s) + 1] = e
OBVIOUS

\* What is inductive: besides the properties of the model, where every call
\* is and which block it has in hand.
IInv ==
    /\ TypeOK
    /\ CallsConsistent
    /\ BlocksTilePool
    /\ FreeListsExact
    /\ HandlesAreSlots

\* The initial allocator, one free block that is the whole pool, is sound.
LEMMA InitIInv == Init => IInv
<1> SUFFICES ASSUME Init PROVE IInv
  BY Zenon
<1>0. /\ DOMAIN blocks = {0} /\ 0 \in Offsets /\ MaxOrder \in Orders
      /\ blocks[0] = [order |-> MaxOrder, allocated |-> FALSE]
      /\ \A k \in Orders : free_lists[k] = IF k = MaxOrder THEN <<0>> ELSE <<>>
      /\ lock = NoThread /\ handles = {} /\ InHand = {}
      /\ \A t \in Threads : call[t] = Idle
  BY Sizes, OrderAssumption DEF Init, Orders, Offsets, InHand
<1>1. TypeOK
  <2>1. free_lists \in [Orders -> Seq(Offsets)]
    BY <1>0 DEF Init
  <2>2. call \in [Threads -> Call]
    BY <1>0, OrderAssumption DEF Init, Call, Idle, Orders
  <2>3. \A o \in DOMAIN blocks : blocks[o] \in Block
    <3>1. [order |-> MaxOrder, allocated |-> FALSE] \in Block
      BY <1>0, Zenon DEF Block
    <3> QED
      BY <3>1, <1>0, Zenon
  <2>4. allocated_bytes \in Int /\ num_allocations \in Int
    BY DEF Init
  <2> QED
    BY <1>0, <2>1, <2>2, <2>3, <2>4, Zenon DEF TypeOK
<1>2. CallsConsistent
  BY <1>0, ThreadsAssumption DEF CallsConsistent, Idle
<1>3. BlocksTilePool
  BY <1>0, Sizes DEF BlocksTilePool, SizeOf, PoolSize, Offsets
<1>4. FreeListsExact
  <2>1. Len(<<0>>) = 1 /\ <<0>>[1] = 0 /\ Len(<<>>) = 0
    BY Zenon
  <2>2. ASSUME NEW k \in Orders, NEW i \in 1..Len(free_lists[k]),
               NEW j \in 1..Len(free_lists[k])
        PROVE  /\ free_lists[k][i] \in DOMAIN blocks \ InHand
               /\ blocks[free_lists[k][i]] = [order |-> k, allocated |-> FALSE]
               /\ free_lists[k][i] = free_lists[k][j] => i = j
    <3>1. k = MaxOrder
      <4>1. k # MaxOrder => Len(free_lists[k]) = 0
        BY <1>0, <2>1, Zenon
      <4> QED
        BY <4>1
    <3>2. Len(free_lists[k]) = 1 /\ free_lists[k][1] = 0
      BY <1>0, <2>1, <3>1, Zenon
    <3>3. i = 1 /\ j = 1
      BY <3>2
    <3> QED
      BY <1>0, <3>1, <3>2, <3>3, Zenon
  <2>3. \A o \in DOMAIN blocks \ InHand :
          \E i \in 1..Len(free_lists[blocks[o].order]) :
              free_lists[blocks[o].order][i] = o
    <3> SUFFICES ASSUME NEW o \in DOMAIN blocks \ InHand
                 PROVE  \E i \in 1..Len(free_lists[blocks[o].order]) :
                            free_lists[blocks[o].order][i] = o
      BY Zenon
    <3>1. o = 0 /\ blocks[o].order = MaxOrder
      BY <1>0
    <3>2. Len(free_lists[MaxOrder]) = 1 /\ free_lists[MaxOrder][1] = 0
      BY <1>0, <2>1, Zenon
    <3>3. 1 \in 1..Len(free_lists[MaxOrder])
      BY <3>2
    <3> QED
      BY <3>1, <3>2, <3>3, Zenon
  <2> QED
    BY <1>0, <2>2, <2>3 DEF FreeListsExact
<1>5. HandlesAreSlots
  BY <1>0, Zenon DEF HandlesAreSlots
<1> QED
  BY <1>1, <1>2, <1>3, <1>4, <1>5, Zenon DEF IInv

-----------------------------------------------------------------------------
\* Taking the oldest block of a list puts it in the caller's hand.
LEMMA AllocateBeginIInv ==
    ASSUME IInv, NEW t \in Threads, NEW n \in ReqSizes, AllocateBegin(t, n)
    PROVE  IInv'
<1> USE Sizes DEF IInv
<1>1. PICK k \in Orders, f \in Orders :
         /\ k <= f
         /\ free_lists[f] # <<>>
         /\ free_lists' = [free_lists EXCEPT ![f] = Tail(@)]
         /\ call' = [call EXCEPT ![t] = [pc     |-> "split",
                                         offset |-> Head(free_lists[f]),
                                         target |-> k]]
  BY Zenon DEF AllocateBegin
<1> DEFINE o == Head(free_lists[f])
<1>2. /\ call[t].pc = "idle" /\ lock = NoThread /\ lock' = t
      /\ UNCHANGED <<blocks, allocated_bytes, num_allocations, handles>>
  BY Zenon DEF AllocateBegin
<1>3. /\ free_lists[f] \in Seq(Offsets)
      /\ Tail(free_lists[f]) \in Seq(Offsets)
      /\ o \in Offsets /\ o = free_lists[f][1]
      /\ Len(free_lists[f]) \in Nat \ {0}
      /\ Len(Tail(free_lists[f])) = Len(free_lists[f]) - 1
      /\ \A j \in 1..(Len(free_lists[f]) - 1) :
            Tail(free_lists[f])[j] = free_lists[f][j + 1]
  <2>1. free_lists[f] \in Seq(Offsets)
    BY Zenon DEF TypeOK
  <2> QED
    BY <2>1, <1>1, TailProperties, Zenon
<1>4. o \in DOMAIN blocks /\ blocks[o] = [order |-> f, allocated |-> FALSE]
  BY <1>3 DEF FreeListsExact
<1>5. TypeOK'
  <2>1. free_lists' \in [Orders -> Seq(Offsets)]
    BY <1>1, <1>3, Zenon DEF TypeOK
  <2>2. call' \in [Threads -> Call]
    BY <1>1, <1>3, Zenon DEF TypeOK, Call
  <2> QED
    BY <1>2, <2>1, <2>2, Zenon DEF TypeOK
<1>6. /\ call'[t] = [pc |-> "split", offset |-> o, target |-> k]
      /\ \A u \in Threads : u # t => call'[u] = call[u]
  BY <1>1, Zenon DEF TypeOK
<1>7. CallsConsistent'
  <2> SUFFICES ASSUME NEW u \in Threads
               PROVE  /\ call'[u].pc \in {"split", "coalesce"} <=> lock' = u
                      /\ call'[u].pc = "split" =>
                           call'[u].target <= blocks'[call'[u].offset].order
                      /\ call'[u].pc = "info" =>
                           /\ call'[u].offset \in DOMAIN blocks'
                           /\ blocks'[call'[u].offset] =
                                [order |-> call'[u].target, allocated |-> TRUE]
                           /\ \A h \in handles' : h.offset # call'[u].offset
                           /\ \A w \in Threads : call'[w].pc = "info" /\ w # u
                                    => call'[w].offset # call'[u].offset
    BY Zenon DEF CallsConsistent
  <2>1. CASE u = t
    BY <2>1, <1>1, <1>2, <1>4, <1>6
  <2>2. CASE u # t
    BY <2>2, <1>2, <1>6, ThreadsAssumption DEF CallsConsistent
  <2> QED
    BY <2>1, <2>2, Zenon
<1>8. BlocksTilePool'
  BY <1>2, Zenon DEF BlocksTilePool, SizeOf
<1>9. FreeListsExact'
  <2>1. InHand = {} /\ InHand' = {o}
    BY <1>2, <1>6, ThreadsAssumption DEF InHand
  <2>2. /\ free_lists'[f] = Tail(free_lists[f])
        /\ \A j \in Orders : j # f => free_lists'[j] = free_lists[j]
    BY <1>1, Zenon DEF TypeOK
  <2>3. \A j \in Orders : \A x \in 1..Len(free_lists'[j]) :
          /\ free_lists'[j][x] \in DOMAIN blocks' \ InHand'
          /\ blocks'[free_lists'[j][x]] = [order |-> j, allocated |-> FALSE]
    <3> SUFFICES ASSUME NEW j \in Orders, NEW x \in 1..Len(free_lists'[j])
                 PROVE  /\ free_lists'[j][x] \in DOMAIN blocks \ {o}
                        /\ blocks[free_lists'[j][x]] =
                              [order |-> j, allocated |-> FALSE]
      BY <2>1, <1>2, Zenon
    <3>1. CASE j = f
      <4>1. x + 1 \in 1..Len(free_lists[f]) /\ x + 1 # 1
            /\ free_lists'[f][x] = free_lists[f][x + 1]
            /\ 1 \in 1..Len(free_lists[f])
        BY <3>1, <2>2, <1>3
      <4> QED
        BY <3>1, <4>1, <1>3 DEF FreeListsExact
    <3>2. CASE j # f
      <4>1. blocks[o].order = f
        BY <1>4
      <4> QED
        BY <3>2, <4>1, <2>2 DEF FreeListsExact
    <3> QED
      BY <3>1, <3>2, Zenon
  <2>5. \A j \in Orders : \A x, y \in 1..Len(free_lists'[j]) :
          free_lists'[j][x] = free_lists'[j][y] => x = y
    <3> SUFFICES ASSUME NEW j \in Orders, NEW x \in 1..Len(free_lists'[j]),
                        NEW y \in 1..Len(free_lists'[j]),
                        free_lists'[j][x] = free_lists'[j][y]
                 PROVE  x = y
      BY Zenon
    <3>1. CASE j = f
      <4>1. /\ x + 1 \in 1..Len(free_lists[f]) /\ y + 1 \in 1..Len(free_lists[f])
            /\ free_lists[f][x + 1] = free_lists[f][y + 1]
        BY <3>1, <2>2, <1>3
      <4>2. x + 1 = y + 1
        BY <4>1, Zenon DEF FreeListsExact
      <4> QED
        BY <4>2, <2>2, <1>3, <3>1
    <3>2. CASE j # f
      BY <3>2, <2>2 DEF FreeListsExact
    <3> QED
      BY <3>1, <3>2, Zenon
  <2>4. ASSUME NEW x \in DOMAIN blocks' \ InHand', ~blocks'[x].allocated
        PROVE  \E i \in 1..Len(free_lists'[blocks'[x].order]) :
                   free_lists'[blocks'[x].order][i] = x
    <3>1. x \in DOMAIN blocks /\ blocks[x].order \in Orders /\ x # o
      BY <2>1, <1>2, Zenon DEF TypeOK, Block
    <3>2. PICK i \in 1..Len(free_lists[blocks[x].order]) :
                   free_lists[blocks[x].order][i] = x
      BY <3>1, <2>1, <2>4, <1>2, Zenon DEF FreeListsExact
    <3>3. CASE blocks[x].order # f
      BY <3>1, <3>2, <3>3, <2>2, <1>2, Zenon
    <3>4. CASE blocks[x].order = f
      <4>1. i # 1 /\ i - 1 \in 1..(Len(free_lists[f]) - 1)
        BY <3>1, <3>2, <3>4, <1>3
      <4>2. free_lists'[f][i - 1] = x /\ i - 1 \in 1..Len(free_lists'[f])
        BY <4>1, <3>2, <3>4, <2>2, <1>3
      <4> QED
        BY <4>2, <3>4, <1>2, Zenon
    <3> QED
      BY <3>3, <3>4, Zenon
  <2> QED
    BY <2>1, <2>3, <2>4, <2>5, <1>2, <1>4 DEF FreeListsExact
<1>10. HandlesAreSlots'
  BY <1>2, Zenon DEF HandlesAreSlots
<1> QED
  BY <1>5, <1>7, <1>8, <1>9, <1>10, Zenon

-----------------------------------------------------------------------------
\* The lock's holder has a free, unlisted block in hand.
LEMMA HolderFacts ==
    ASSUME IInv, NEW t \in Threads, call[t].pc \in {"split", "coalesce"}
    PROVE  /\ lock = t /\ InHand = {call[t].offset}
           /\ call[t].offset \in DOMAIN blocks
           /\ call[t].offset \in Offsets
           /\ ~blocks[call[t].offset].allocated
           /\ blocks[call[t].offset].order \in Orders
<1>1. lock = t
  BY Zenon DEF IInv, CallsConsistent
<1>2. InHand = {call[t].offset}
  BY <1>1, ThreadsAssumption, Zenon DEF InHand
<1>3. /\ call[t].offset \in DOMAIN blocks
      /\ ~blocks[call[t].offset].allocated
  BY <1>2, Zenon DEF IInv, FreeListsExact
<1> QED
  BY <1>1, <1>2, <1>3, Zenon DEF IInv, TypeOK, Block

\* The block in hand is nobody else's: neither a handle nor a caller that is
\* about to read its block back has it.
LEMMA InHandIsUnowned ==
    ASSUME IInv, NEW t \in Threads, call[t].pc \in {"split", "coalesce"}
    PROVE  /\ \A h \in handles : h.offset # call[t].offset
           /\ \A u \in Threads : call[u].pc = "info"
                                     => call[u].offset # call[t].offset
<1>1. \A h \in handles : blocks[h.offset].allocated
  <2> TAKE h \in handles
  <2>1. blocks[h.offset] = [order |-> h.order, allocated |-> TRUE]
    BY Zenon DEF IInv, HandlesAreSlots
  <2> QED
    BY <2>1
<1>2. \A u \in Threads : call[u].pc = "info" => blocks[call[u].offset].allocated
  <2> SUFFICES ASSUME NEW u \in Threads, call[u].pc = "info"
               PROVE  blocks[call[u].offset].allocated
    BY Zenon
  <2>1. blocks[call[u].offset] = [order |-> call[u].target, allocated |-> TRUE]
    BY Zenon DEF IInv, CallsConsistent
  <2> QED
    BY <2>1
<1>3. ~blocks[call[t].offset].allocated
  BY HolderFacts, Zenon
<1> QED
  BY <1>1, <1>2, <1>3, Zenon

\* The upper half of the block in hand starts inside it, at no other block.
LEMMA UpperHalfIsNew ==
    ASSUME IInv, NEW o \in DOMAIN blocks, NEW k \in Orders,
           blocks[o].order = k + 1
    PROVE  /\ UpperHalf(o, k) \in Offsets \ DOMAIN blocks
           /\ o < UpperHalf(o, k)
           /\ SizeOf(o) = 2 * SizeAt[k]
           /\ UpperHalf(o, k) = o + SizeAt[k]
<1>1. k + 1 \in Orders /\ o \in Offsets /\ DOMAIN blocks \subseteq Offsets
  BY Zenon DEF IInv, TypeOK, Block
<1>2. SizeOf(o) = 2 * SizeAt[k] /\ SizeAt[k] \in Nat \ {0}
  BY <1>1, Sizes DEF SizeOf, Orders
<1>3. o \in Nat /\ PoolSize \in Nat /\ o + SizeOf(o) <= PoolSize
  BY <1>1, Sizes DEF IInv, BlocksTilePool, Offsets
<1>4. UpperHalf(o, k) \in Offsets /\ o < UpperHalf(o, k)
  BY <1>2, <1>3 DEF UpperHalf, Offsets
<1>5. UpperHalf(o, k) \notin DOMAIN blocks
  BY <1>2, <1>3, <1>4 DEF IInv, BlocksTilePool, UpperHalf
<1> QED
  BY <1>2, <1>3, <1>4, <1>5, Zenon DEF UpperHalf

\* A split replaces the block in hand by its lower half and lists the upper.
LEMMA SplitStepIInv ==
    ASSUME IInv, NEW t \in Threads, SplitStep(t)
    PROVE  IInv'
<1>0. SUFFICES ASSUME NEW o, NEW k, NEW b,
                    o = call[t].offset, k = blocks[o].order - 1,
                    b = UpperHalf(o, k)
             PROVE  IInv'
  BY Zenon
<1>1. /\ call[t].pc = "split"
      /\ blocks[o].order > call[t].target
      /\ blocks' = [x \in DOMAIN blocks \cup {b} |->
                       IF x \in {o, b} THEN [order |-> k, allocated |-> FALSE]
                                       ELSE blocks[x]]
      /\ free_lists' = [free_lists EXCEPT ![k] = Append(@, b)]
      /\ UNCHANGED <<allocated_bytes, num_allocations, lock, call, handles>>
  BY <1>0, Zenon DEF SplitStep
<1>2. /\ lock = t /\ InHand = {o} /\ InHand' = {o}
      /\ o \in DOMAIN blocks /\ o \in Offsets
      /\ ~blocks[o].allocated /\ blocks[o].order \in Orders
  <2>1. call[t].pc \in {"split", "coalesce"}
    BY <1>1, Zenon
  <2>2. InHand' = InHand
    BY <1>1, Zenon DEF InHand
  <2> QED
    BY <1>0, <2>1, <2>2, HolderFacts, Zenon
<1>3. call[t].target \in Nat /\ k \in Orders /\ blocks[o].order = k + 1
  <2>1. call[t].target \in Orders
    BY Zenon DEF IInv, TypeOK, Call
  <2> QED
    BY <2>1, <1>0, <1>1, <1>2, OrderAssumption DEF Orders
<1>4. /\ b \in Offsets \ DOMAIN blocks /\ o < b
      /\ SizeOf(o) = 2 * SizeAt[k] /\ b = o + SizeAt[k]
      /\ SizeAt[k] \in Nat \ {0}
  BY <1>0, <1>2, <1>3, UpperHalfIsNew, Sizes, Zenon
<1>5. /\ DOMAIN blocks' = DOMAIN blocks \cup {b}
      /\ blocks'[o] = [order |-> k, allocated |-> FALSE]
      /\ blocks'[b] = [order |-> k, allocated |-> FALSE]
      /\ \A x \in DOMAIN blocks : x # o => x # b /\ blocks'[x] = blocks[x]
  BY <1>1, <1>2, <1>4, Zenon
<1>6. TypeOK'
  <2>1. free_lists' \in [Orders -> Seq(Offsets)]
    BY <1>1, <1>3, <1>4 DEF IInv, TypeOK
  <2>2. [order |-> k, allocated |-> FALSE] \in Block
    BY <1>3, Zenon DEF Block
  <2>3. DOMAIN blocks' \subseteq Offsets /\ \A x \in DOMAIN blocks' : blocks'[x] \in Block
    BY <2>2, <1>4, <1>5, Zenon DEF IInv, TypeOK
  <2> QED
    BY <1>1, <2>1, <2>3, Zenon DEF IInv, TypeOK
<1>7. CallsConsistent'
  <2> SUFFICES ASSUME NEW u \in Threads
               PROVE  /\ call[u].pc \in {"split", "coalesce"} <=> lock = u
                      /\ call[u].pc = "split" =>
                           call[u].target <= blocks'[call[u].offset].order
                      /\ call[u].pc = "info" =>
                           /\ call[u].offset \in DOMAIN blocks'
                           /\ blocks'[call[u].offset] =
                                [order |-> call[u].target, allocated |-> TRUE]
                           /\ \A h \in handles : h.offset # call[u].offset
                           /\ \A w \in Threads : call[w].pc = "info" /\ w # u
                                    => call[w].offset # call[u].offset
    BY <1>1, Zenon DEF CallsConsistent
  <2>1. CASE u = t
    <3>0. blocks[o].order > call[t].target
      BY <1>1, Zenon
    <3>1. call[t].target <= k
      BY <3>0, <1>3 DEF Orders
    <3> QED
      BY <2>1, <3>1, <1>0, <1>1, <1>2, <1>5, Zenon
  <2>2. CASE u # t
    <3>1. lock = t /\ ~(call[u].pc \in {"split", "coalesce"})
      BY <2>2, <1>0, <1>1, Zenon DEF IInv, CallsConsistent
    <3>2. ASSUME call[u].pc = "info"
          PROVE  /\ call[u].offset \in DOMAIN blocks
                 /\ blocks[call[u].offset] =
                      [order |-> call[u].target, allocated |-> TRUE]
                 /\ \A h \in handles : h.offset # call[u].offset
                 /\ \A w \in Threads : call[w].pc = "info" /\ w # u
                          => call[w].offset # call[u].offset
      BY <3>2, Zenon DEF IInv, CallsConsistent
    <3>3. ASSUME call[u].pc = "info"
          PROVE  call[u].offset # o
      BY <3>2, <3>3, <1>2
    <3>4. ASSUME call[u].pc = "info"
          PROVE  /\ call[u].offset \in DOMAIN blocks'
                 /\ blocks'[call[u].offset] = blocks[call[u].offset]
      BY <3>2, <3>3, <3>4, <1>5, Zenon
    <3> QED
      BY <2>2, <3>1, <3>2, <3>4, Zenon
  <2> QED
    BY <2>1, <2>2, Zenon
<1>8. BlocksTilePool'
  <2>1. SizeAt[blocks'[o].order] = SizeAt[k] /\ SizeAt[blocks'[b].order] = SizeAt[k]
    BY <1>5 DEF SizeOf
  <2>2. \A x \in DOMAIN blocks : /\ x # o => SizeAt[blocks'[x].order] = SizeOf(x)
                                 /\ x \in Nat /\ SizeOf(x) \in Nat
    BY <1>5, Sizes DEF SizeOf, IInv, TypeOK, Block, Offsets
  <2>3. \A x \in DOMAIN blocks' : x + SizeAt[blocks'[x].order] <= PoolSize
    BY <1>2, <1>4, <1>5, <2>1, <2>2, Sizes DEF IInv, BlocksTilePool, Offsets
  <2>4. \A x, y \in DOMAIN blocks' : x < y => x + SizeAt[blocks'[x].order] <= y
    <3> SUFFICES ASSUME NEW x \in DOMAIN blocks', NEW y \in DOMAIN blocks', x < y
                 PROVE  x + SizeAt[blocks'[x].order] <= y
      BY Zenon
    <3>1. \A z, w \in DOMAIN blocks : z < w => z + SizeOf(z) <= w
      BY Zenon DEF IInv, BlocksTilePool
    <3>2. CASE x = b
      BY <3>1, <3>2, <1>2, <1>4, <1>5, <2>1, <2>2 DEF Offsets
    <3>3. CASE x = o
      BY <3>1, <3>3, <1>2, <1>4, <1>5, <2>1, <2>2, Sizes DEF Offsets
    <3>4. CASE x # o /\ x # b
      BY <3>1, <3>4, <1>2, <1>4, <1>5, <2>1, <2>2 DEF Offsets
    <3> QED
      BY <3>2, <3>3, <3>4, Zenon
  <2>5. \A a \in Offsets : \E x \in DOMAIN blocks' : x <= a /\ a < x + SizeAt[blocks'[x].order]
    <3> SUFFICES ASSUME NEW a \in Offsets
                 PROVE  \E x \in DOMAIN blocks' : x <= a /\ a < x + SizeAt[blocks'[x].order]
      BY Zenon
    <3>1. PICK x \in DOMAIN blocks : x <= a /\ a < x + SizeOf(x)
      BY Zenon DEF IInv, BlocksTilePool
    <3>2. CASE x # o
      BY <3>1, <3>2, <1>5, <2>2, Zenon
    <3>3. CASE x = o /\ a < b
      BY <3>1, <3>3, <1>2, <1>4, <1>5, <2>1, <2>2, Sizes, Zenon DEF Offsets
    <3>4. CASE x = o /\ b <= a
      BY <3>1, <3>4, <1>2, <1>4, <1>5, <2>1, <2>2 DEF Offsets
    <3> QED
      BY <3>2, <3>3, <3>4, <1>4, Sizes DEF Offsets
  <2> QED
    BY <2>3, <2>4, <2>5, Zenon DEF BlocksTilePool, SizeOf
<1>9. FreeListsExact'
  <2>1. /\ free_lists[k] \in Seq(Offsets) /\ Len(free_lists[k]) \in Nat
        /\ free_lists'[k] = Append(free_lists[k], b)
        /\ Len(free_lists'[k]) = Len(free_lists[k]) + 1
        /\ \A j \in 1..Len(free_lists[k]) : free_lists'[k][j] = free_lists[k][j]
        /\ free_lists'[k][Len(free_lists[k]) + 1] = b
        /\ \A j \in Orders : j # k => free_lists'[j] = free_lists[j]
    <3>1. free_lists[k] \in Seq(Offsets) /\ free_lists'[k] = Append(free_lists[k], b)
      BY <1>1, <1>3, Zenon DEF IInv, TypeOK
    <3> QED
      BY <3>1, <1>1, <1>3, <1>4, AppendFacts DEF IInv, TypeOK
  <2>2. \A j \in Orders : \A z \in 1..Len(free_lists[j]) :
           /\ free_lists[j][z] \in DOMAIN blocks
           /\ free_lists[j][z] # o /\ free_lists[j][z] # b
           /\ blocks'[free_lists[j][z]] = [order |-> j, allocated |-> FALSE]
    <3>1. \A j \in Orders : \A z \in 1..Len(free_lists[j]) :
             /\ free_lists[j][z] \in DOMAIN blocks \ InHand
             /\ blocks[free_lists[j][z]] = [order |-> j, allocated |-> FALSE]
      BY Zenon DEF IInv, FreeListsExact
    <3> QED
      BY <3>1, <1>2, <1>4, <1>5, Zenon
  <2>4. \A z \in 1..Len(free_lists'[k]) :
           z \in 1..Len(free_lists[k]) \/ z = Len(free_lists[k]) + 1
    BY <2>1
  <2>5. \A j \in Orders : \A x \in 1..Len(free_lists'[j]) :
          /\ free_lists'[j][x] \in DOMAIN blocks' \ InHand'
          /\ blocks'[free_lists'[j][x]] = [order |-> j, allocated |-> FALSE]
    <3> SUFFICES ASSUME NEW j \in Orders, NEW x \in 1..Len(free_lists'[j])
                 PROVE  /\ free_lists'[j][x] \in DOMAIN blocks' \ {o}
                        /\ blocks'[free_lists'[j][x]] =
                              [order |-> j, allocated |-> FALSE]
      BY <1>2, Zenon
    <3>1. CASE j # k
      BY <3>1, <2>1, <2>2, <1>5
    <3>2. CASE j = k /\ x \in 1..Len(free_lists[k])
      BY <3>2, <2>1, <2>2, <1>5
    <3>3. CASE j = k /\ x = Len(free_lists[k]) + 1
      BY <3>3, <2>1, <1>2, <1>4, <1>5
    <3> QED
      BY <3>1, <3>2, <3>3, <2>4, Zenon
  <2>6. \A j \in Orders : \A x, y \in 1..Len(free_lists'[j]) :
          free_lists'[j][x] = free_lists'[j][y] => x = y
    <3> SUFFICES ASSUME NEW j \in Orders, NEW x \in 1..Len(free_lists'[j]),
                        NEW y \in 1..Len(free_lists'[j]),
                        free_lists'[j][x] = free_lists'[j][y]
                 PROVE  x = y
      BY Zenon
    <3>1. \A z, w \in 1..Len(free_lists[j]) :
             free_lists[j][z] = free_lists[j][w] => z = w
      BY Zenon DEF IInv, FreeListsExact
    <3>2. CASE j # k
      BY <3>1, <3>2, <2>1, Zenon
    <3>3. CASE j = k
      <4>1. \A z \in 1..Len(free_lists[k]) :
               free_lists'[k][z] = free_lists[k][z] /\ free_lists[k][z] # b
        BY <2>1, <2>2, <1>3, Zenon
      <4>2. CASE x \in 1..Len(free_lists[k]) /\ y \in 1..Len(free_lists[k])
        BY <3>1, <3>3, <4>1, <4>2, Zenon
      <4>3. CASE x = Len(free_lists[k]) + 1 \/ y = Len(free_lists[k]) + 1
        BY <3>3, <4>1, <4>3, <2>1, <2>4, Zenon
      <4> QED
        BY <3>3, <4>2, <4>3, <2>4, Zenon
    <3> QED
      BY <3>2, <3>3, Zenon
  <2>3. ASSUME NEW x \in DOMAIN blocks' \ InHand', ~blocks'[x].allocated
        PROVE  \E i \in 1..Len(free_lists'[blocks'[x].order]) :
                   free_lists'[blocks'[x].order][i] = x
    <3>1. CASE x = b
      BY <3>1, <2>1, <1>5
    <3>2. CASE x # b
      <4>1. x \in DOMAIN blocks /\ x # o /\ blocks'[x] = blocks[x]
            /\ blocks[x].order \in Orders
        BY <3>2, <1>2, <1>5, Zenon DEF IInv, TypeOK, Block
      <4>2. PICK i \in 1..Len(free_lists[blocks[x].order]) :
                     free_lists[blocks[x].order][i] = x
        BY <4>1, <2>3, <1>2, Zenon DEF IInv, FreeListsExact
      <4>3. /\ i \in 1..Len(free_lists'[blocks[x].order])
            /\ free_lists'[blocks[x].order][i] = x
        <5>1. CASE blocks[x].order = k
          BY <5>1, <4>2, <2>1
        <5>2. CASE blocks[x].order # k
          BY <5>2, <4>1, <4>2, <2>1, Zenon
        <5> QED
          BY <5>1, <5>2, Zenon
      <4> QED
        BY <4>1, <4>3, Zenon
    <3> QED
      BY <3>1, <3>2, Zenon
  <2> QED
    BY <2>3, <2>5, <2>6, <1>2, <1>5 DEF FreeListsExact
<1>10. HandlesAreSlots'
  BY <1>1, <1>2, <1>5 DEF IInv, HandlesAreSlots
<1> QED
  BY <1>6, <1>7, <1>8, <1>9, <1>10, Zenon DEF IInv

-----------------------------------------------------------------------------
\* The block that reaches the target order leaves the hand as the caller's.
LEMMA AllocateEndIInv ==
    ASSUME IInv, NEW t \in Threads, AllocateEnd(t)
    PROVE  IInv'
<1>0. SUFFICES ASSUME NEW o, o = call[t].offset PROVE IInv'
  BY Zenon
<1>1. /\ call[t].pc = "split" /\ blocks[o].order = call[t].target
      /\ blocks' = [blocks EXCEPT ![o].allocated = TRUE]
      /\ lock' = NoThread /\ call' = [call EXCEPT ![t].pc = "info"]
      /\ UNCHANGED <<free_lists, handles>>
  BY <1>0, Zenon DEF AllocateEnd
<1>2. /\ lock = t /\ InHand = {o} /\ InHand' = {}
      /\ o \in DOMAIN blocks /\ o \in Offsets
      /\ ~blocks[o].allocated /\ blocks[o].order \in Orders
  <2>1. call[t].pc \in {"split", "coalesce"} /\ InHand' = {}
    BY <1>1, Zenon DEF InHand
  <2> QED
    BY <1>0, <2>1, HolderFacts, Zenon
<1>3. /\ DOMAIN blocks' = DOMAIN blocks
      /\ blocks'[o] = [order |-> blocks[o].order, allocated |-> TRUE]
      /\ \A x \in DOMAIN blocks : x # o => blocks'[x] = blocks[x]
      /\ \A x \in DOMAIN blocks : blocks'[x].order = blocks[x].order
  <2>1. blocks[o] \in Block
    BY <1>2, Zenon DEF IInv, TypeOK
  <2> QED
    BY <2>1, <1>1, <1>2, Zenon DEF Block
<1>4. /\ call'[t] = [pc |-> "info", offset |-> o, target |-> blocks[o].order]
      /\ \A u \in Threads : u # t => call'[u] = call[u]
  <2>1. call[t] \in Call
    BY Zenon DEF IInv, TypeOK
  <2> QED
    BY <2>1, <1>0, <1>1, Zenon DEF IInv, TypeOK, Call
<1>5. TypeOK'
  <2>1. call' \in [Threads -> Call]
    BY <1>1, Zenon DEF IInv, TypeOK, Call
  <2>2. \A x \in DOMAIN blocks' : blocks'[x] \in Block
    <3>1. [order |-> blocks[o].order, allocated |-> TRUE] \in Block
      BY <1>2, Zenon DEF Block
    <3> QED
      BY <3>1, <1>3, Zenon DEF IInv, TypeOK
  <2>3. allocated_bytes' \in Int /\ num_allocations' \in Int
    <3>1. SizeOf(o) \in Int
      BY <1>2, Sizes DEF SizeOf
    <3> QED
      BY <3>1, <1>0 DEF AllocateEnd, Account, IInv, TypeOK
  <2> QED
    BY <2>1, <2>2, <2>3, <1>1, <1>3, Zenon DEF IInv, TypeOK
<1>6. CallsConsistent'
  <2> SUFFICES ASSUME NEW u \in Threads
               PROVE  /\ call'[u].pc \in {"split", "coalesce"} <=> lock' = u
                      /\ call'[u].pc = "split" =>
                           call'[u].target <= blocks'[call'[u].offset].order
                      /\ call'[u].pc = "info" =>
                           /\ call'[u].offset \in DOMAIN blocks'
                           /\ blocks'[call'[u].offset] =
                                [order |-> call'[u].target, allocated |-> TRUE]
                           /\ \A h \in handles' : h.offset # call'[u].offset
                           /\ \A w \in Threads : call'[w].pc = "info" /\ w # u
                                    => call'[w].offset # call'[u].offset
    BY Zenon DEF CallsConsistent
  <2>1. /\ \A w \in Threads : call[w].pc = "info" => call[w].offset # o
        /\ \A h \in handles : h.offset # o
    BY <1>0, <1>1, InHandIsUnowned, Zenon
  <2>2. CASE u = t
    <3>1. /\ call'[u].pc = "info" /\ call'[u].offset = o
          /\ call'[u].target = blocks[o].order
      BY <2>2, <1>4
    <3>2. lock' # u
      BY <1>1, ThreadsAssumption, Zenon
    <3> QED
      BY <2>1, <2>2, <3>1, <3>2, <1>1, <1>2, <1>3, <1>4
  <2>3. CASE u # t
    BY <2>1, <2>3, <1>1, <1>2, <1>3, <1>4, ThreadsAssumption
       DEF IInv, CallsConsistent
  <2> QED
    BY <2>2, <2>3, Zenon
<1>7. BlocksTilePool'
  BY <1>3, Zenon DEF IInv, BlocksTilePool, SizeOf
<1>8. FreeListsExact'
  <2>1. \A k \in Orders : \A i \in 1..Len(free_lists[k]) :
           /\ free_lists[k][i] \in DOMAIN blocks \ InHand
           /\ blocks[free_lists[k][i]] = [order |-> k, allocated |-> FALSE]
    BY Zenon DEF IInv, FreeListsExact
  <2>2. \A x \in DOMAIN blocks \ InHand :
          blocks[x].allocated
            \/ \E i \in 1..Len(free_lists[blocks[x].order]) :
                  free_lists[blocks[x].order][i] = x
    BY Zenon DEF IInv, FreeListsExact
  <2>3. \A k \in Orders : \A i, j \in 1..Len(free_lists[k]) :
          free_lists[k][i] = free_lists[k][j] => i = j
    BY Zenon DEF IInv, FreeListsExact
  <2>4. \A k \in Orders : \A i \in 1..Len(free_lists'[k]) :
           /\ free_lists'[k][i] \in DOMAIN blocks' \ InHand'
           /\ blocks'[free_lists'[k][i]] = [order |-> k, allocated |-> FALSE]
    <3> SUFFICES ASSUME NEW k \in Orders, NEW i \in 1..Len(free_lists'[k])
                 PROVE  /\ free_lists'[k][i] \in DOMAIN blocks' \ InHand'
                        /\ blocks'[free_lists'[k][i]] = [order     |-> k,
                                                         allocated |-> FALSE]
      BY Zenon
    <3>1. /\ free_lists'[k][i] \in DOMAIN blocks \ InHand
          /\ blocks[free_lists'[k][i]] = [order |-> k, allocated |-> FALSE]
      BY <2>1, <1>1, Zenon
    <3> QED
      BY <3>1, <1>2, <1>3, Zenon
  <2>5. \A x \in DOMAIN blocks' \ InHand' :
          blocks'[x].allocated
            \/ \E i \in 1..Len(free_lists'[blocks'[x].order]) :
                  free_lists'[blocks'[x].order][i] = x
    BY <2>2, <1>1, <1>2, <1>3
  <2> QED
    BY <2>3, <2>4, <2>5, <1>1, <1>2 DEF FreeListsExact
<1>9. HandlesAreSlots'
  <2>1. \A h \in handles : h.offset # o
    BY <1>0, <1>1, InHandIsUnowned, Zenon
  <2> QED
    BY <2>1, <1>1, <1>3, Zenon DEF IInv, HandlesAreSlots
<1> QED
  BY <1>5, <1>6, <1>7, <1>8, <1>9, Zenon DEF IInv

\* A handle describes the block its thread was given; it overlaps no other.
LEMMA GetBlockInfoIInv ==
    ASSUME IInv, NEW t \in Threads, GetBlockInfo(t)
    PROVE  IInv'
<1>0. SUFFICES ASSUME NEW o, o = call[t].offset,
                      NEW g, g = [offset |-> o, order |-> blocks[o].order]
               PROVE IInv'
  BY Zenon
<1>1. /\ call[t].pc = "info" /\ lock = NoThread /\ handles' = handles \cup {g}
      /\ call' = [call EXCEPT ![t] = Idle]
      /\ UNCHANGED <<blocks, free_lists, allocated_bytes, num_allocations, lock>>
  BY <1>0, Zenon DEF GetBlockInfo
<1>2. /\ o \in DOMAIN blocks /\ o \in Offsets
      /\ blocks[o] = [order |-> call[t].target, allocated |-> TRUE]
      /\ \A h \in handles : h.offset # o
      /\ \A u \in Threads : call[u].pc = "info" /\ u # t => call[u].offset # o
      /\ call[t].target \in Orders
  BY <1>0, <1>1, Zenon DEF IInv, CallsConsistent, TypeOK, Call
<1>3. g.offset = o /\ g.order = call[t].target /\ g \in Handle
  BY <1>0, <1>2 DEF Handle
<1>4. call'[t] = Idle /\ \A u \in Threads : u # t => call'[u] = call[u]
  BY <1>1, Zenon DEF IInv, TypeOK
<1>5. TypeOK'
  <2>1. Idle \in Call
    BY <1>2, Sizes, OrderAssumption DEF Idle, Call, Offsets, Orders
  <2> QED
    BY <2>1, <1>1, <1>3, Zenon DEF IInv, TypeOK
<1>6. CallsConsistent'
  BY <1>1, <1>2, <1>3, <1>4, ThreadsAssumption DEF IInv, CallsConsistent, Idle
<1>7. BlocksTilePool'
  BY <1>1, Zenon DEF IInv, BlocksTilePool, SizeOf
<1>8. FreeListsExact'
  <2>1. InHand' = InHand
    BY <1>1, Zenon DEF InHand
  <2> QED
    BY <2>1, <1>1, Zenon DEF IInv, FreeListsExact
<1>9. HandlesAreSlots'
  <2>1. \A h \in handles' : /\ h.offset \in DOMAIN blocks
                             /\ blocks[h.offset] = [order     |-> h.order,
                                                    allocated |-> TRUE]
    BY <1>1, <1>2, <1>3, Zenon DEF IInv, HandlesAreSlots
  <2>2. \A h \in handles' : blocks[h.offset].order = h.order
    <3> TAKE h \in handles'
    <3>1. blocks[h.offset] = [order |-> h.order, allocated |-> TRUE]
      BY <2>1, Zenon
    <3> QED
      BY <3>1
  <2>3. \A h, f \in handles' :
           h.offset < f.offset => h.offset + SizeAt[h.order] <= f.offset
    BY <2>1, <2>2, Zenon DEF IInv, BlocksTilePool, SizeOf
  <2> QED
    BY <2>1, <2>3, <1>1, Zenon DEF HandlesAreSlots
<1> QED
  BY <1>5, <1>6, <1>7, <1>8, <1>9, Zenon DEF IInv

\* Two live handles differ in their offsets.
LEMMA HandleOffsetsDiffer ==
    ASSUME IInv, NEW h \in handles, NEW g \in handles, g.offset = h.offset
    PROVE  g = h
<1>1. /\ blocks[h.offset] = [order |-> h.order, allocated |-> TRUE]
      /\ blocks[g.offset] = [order |-> g.order, allocated |-> TRUE]
  BY Zenon DEF IInv, HandlesAreSlots
<1>2. g.order = h.order
  BY <1>1
<1>3. g \in Handle /\ h \in Handle
  BY Zenon DEF IInv, TypeOK
<1> QED
  BY <1>2, <1>3 DEF Handle

\* free takes a block from its handle: the freed block is in hand, unlisted.
LEMMA FreeBeginIInv ==
    ASSUME IInv, NEW t \in Threads, NEW h \in handles, FreeBegin(t, h)
    PROVE  IInv'
<1>0. SUFFICES ASSUME NEW o, o = h.offset PROVE IInv'
  BY Zenon
<1>1. /\ call[t].pc = "idle" /\ lock = NoThread
      /\ blocks' = [blocks EXCEPT ![o].allocated = FALSE]
      /\ lock' = t
      /\ call' = [call EXCEPT ![t] = [pc |-> "coalesce", offset |-> o,
                                      target |-> 0]]
      /\ handles' = handles \ {h} /\ free_lists' = free_lists
  BY <1>0, Zenon DEF FreeBegin
<1>2. /\ o \in DOMAIN blocks /\ o \in Offsets
      /\ blocks[o].allocated /\ blocks[o].order \in Orders
      /\ InHand = {}
  BY <1>0, <1>1, Zenon DEF FreeBegin, IInv, TypeOK, Block, InHand
<1>3. /\ DOMAIN blocks' = DOMAIN blocks
      /\ blocks'[o] = [order |-> blocks[o].order, allocated |-> FALSE]
      /\ \A x \in DOMAIN blocks : x # o => blocks'[x] = blocks[x]
      /\ \A x \in DOMAIN blocks : blocks'[x].order = blocks[x].order
  <2>1. blocks[o] \in Block
    BY <1>2, Zenon DEF IInv, TypeOK
  <2> QED
    BY <2>1, <1>1, <1>2, Zenon DEF Block
<1>4. /\ call'[t] = [pc |-> "coalesce", offset |-> o, target |-> 0]
      /\ \A u \in Threads : u # t => call'[u] = call[u]
      /\ InHand' = {o}
  <2>1. /\ call'[t] = [pc |-> "coalesce", offset |-> o, target |-> 0]
        /\ \A u \in Threads : u # t => call'[u] = call[u]
    BY <1>1, Zenon DEF IInv, TypeOK
  <2> QED
    BY <2>1, <1>1, ThreadsAssumption DEF InHand
<1>5. TypeOK'
  <2>1. call' \in [Threads -> Call]
    <3>1. [pc |-> "coalesce", offset |-> o, target |-> 0] \in Call
      BY <1>2, OrderAssumption DEF Call, Orders
    <3> QED
      BY <3>1, <1>1, Zenon DEF IInv, TypeOK
  <2>2. \A x \in DOMAIN blocks' : blocks'[x] \in Block
    <3>1. [order |-> blocks[o].order, allocated |-> FALSE] \in Block
      BY <1>2, Zenon DEF Block
    <3> QED
      BY <3>1, <1>3, Zenon DEF IInv, TypeOK
  <2>3. allocated_bytes' \in Int /\ num_allocations' \in Int
    <3>1. SizeOf(o) \in Int
      BY <1>2, Sizes DEF SizeOf
    <3> QED
      BY <3>1, <1>0 DEF FreeBegin, Account, IInv, TypeOK
  <2> QED
    BY <2>1, <2>2, <2>3, <1>1, <1>3, Zenon DEF IInv, TypeOK
<1>6. CallsConsistent'
  <2> SUFFICES ASSUME NEW u \in Threads
               PROVE  /\ call'[u].pc \in {"split", "coalesce"} <=> lock' = u
                      /\ call'[u].pc = "split" =>
                           call'[u].target <= blocks'[call'[u].offset].order
                      /\ call'[u].pc = "info" =>
                           /\ call'[u].offset \in DOMAIN blocks'
                           /\ blocks'[call'[u].offset] =
                                [order |-> call'[u].target, allocated |-> TRUE]
                           /\ \A f \in handles' : f.offset # call'[u].offset
                           /\ \A w \in Threads : call'[w].pc = "info" /\ w # u
                                    => call'[w].offset # call'[u].offset
    BY Zenon DEF CallsConsistent
  <2>1. \A w \in Threads : call[w].pc = "info" => call[w].offset # o
    BY <1>0, Zenon DEF IInv, CallsConsistent
  <2>2. \A w \in Threads : call[w].pc \notin {"split", "coalesce"}
    BY <1>1, ThreadsAssumption, Zenon DEF IInv, CallsConsistent
  <2>3. CASE u = t
    BY <2>3, <1>1, <1>4
  <2>4. CASE u # t
    BY <2>1, <2>2, <2>4, <1>1, <1>2, <1>3, <1>4 DEF IInv, CallsConsistent
  <2> QED
    BY <2>3, <2>4, Zenon
<1>7. BlocksTilePool'
  BY <1>3, Zenon DEF IInv, BlocksTilePool, SizeOf
<1>8. FreeListsExact'
  <2>1. /\ \A k \in Orders : \A i \in 1..Len(free_lists[k]) :
              /\ free_lists[k][i] \in DOMAIN blocks
              /\ blocks[free_lists[k][i]] = [order |-> k, allocated |-> FALSE]
        /\ \A k \in Orders : \A i, j \in 1..Len(free_lists[k]) :
              free_lists[k][i] = free_lists[k][j] => i = j
        /\ \A x \in DOMAIN blocks :
              blocks[x].allocated
                \/ \E i \in 1..Len(free_lists[blocks[x].order]) :
                      free_lists[blocks[x].order][i] = x
    BY <1>2, Zenon DEF IInv, FreeListsExact
  <2>2. \A k \in Orders : \A i \in 1..Len(free_lists'[k]) :
           /\ free_lists'[k][i] \in DOMAIN blocks' \ InHand'
           /\ blocks'[free_lists'[k][i]] = [order |-> k, allocated |-> FALSE]
    <3> SUFFICES ASSUME NEW k \in Orders, NEW i \in 1..Len(free_lists'[k])
                 PROVE  /\ free_lists'[k][i] \in DOMAIN blocks' \ InHand'
                        /\ blocks'[free_lists'[k][i]] = [order     |-> k,
                                                         allocated |-> FALSE]
      BY Zenon
    <3>1. /\ free_lists'[k][i] \in DOMAIN blocks
          /\ blocks[free_lists'[k][i]] = [order |-> k, allocated |-> FALSE]
      BY <2>1, <1>1, Zenon
    <3>2. free_lists'[k][i] # o
      BY <3>1, <1>2
    <3> QED
      BY <3>1, <3>2, <1>3, <1>4, Zenon
  <2>3. \A x \in DOMAIN blocks' \ InHand' :
          blocks'[x].allocated
            \/ \E i \in 1..Len(free_lists'[blocks'[x].order]) :
                  free_lists'[blocks'[x].order][i] = x
    BY <2>1, <1>1, <1>3, <1>4
  <2>4. \A x \in InHand' : x \in DOMAIN blocks' /\ ~blocks'[x].allocated
    BY <1>2, <1>3, <1>4
  <2> QED
    BY <2>1, <2>2, <2>3, <2>4, <1>1 DEF FreeListsExact
<1>9. HandlesAreSlots'
  <2>1. \A f \in handles' : f \in handles /\ f.offset # o
    BY <1>0, <1>1, HandleOffsetsDiffer, Zenon
  <2> QED
    BY <2>1, <1>3, Zenon DEF IInv, HandlesAreSlots
<1> QED
  BY <1>5, <1>6, <1>7, <1>8, <1>9, Zenon DEF IInv

\* The end of free lists the merged block, which was in hand until now.
LEMMA CoalesceEndIInv ==
    ASSUME IInv, NEW t \in Threads, CoalesceEnd(t)
    PROVE  IInv'
<1>0. SUFFICES ASSUME NEW o, NEW k, o = call[t].offset, k = blocks[o].order
               PROVE IInv'
  BY Zenon
<1>1. /\ call[t].pc = "coalesce"
      /\ free_lists' = [free_lists EXCEPT ![k] = Append(@, o)]
      /\ lock' = NoThread /\ call' = [call EXCEPT ![t] = Idle]
      /\ UNCHANGED <<blocks, allocated_bytes, num_allocations, handles>>
  BY <1>0, Zenon DEF CoalesceEnd
<1>2. /\ lock = t /\ InHand = {o} /\ InHand' = {}
      /\ o \in DOMAIN blocks /\ o \in Offsets
      /\ ~blocks[o].allocated /\ k \in Orders
  <2>1. call[t].pc \in {"split", "coalesce"} /\ InHand' = {}
    BY <1>1, Zenon DEF InHand
  <2> QED
    BY <1>0, <2>1, HolderFacts, Zenon
<1>3. /\ blocks[o] = [order |-> k, allocated |-> FALSE]
      /\ call'[t] = Idle /\ \A u \in Threads : u # t => call'[u] = call[u]
  <2>1. blocks[o] \in Block
    BY <1>2, Zenon DEF IInv, TypeOK
  <2> QED
    BY <2>1, <1>0, <1>1, <1>2, Zenon DEF IInv, TypeOK, Block
<1>4. TypeOK'
  <2>1. Idle \in Call
    BY <1>2, Sizes, OrderAssumption DEF Idle, Call, Offsets, Orders
  <2>2. free_lists' \in [Orders -> Seq(Offsets)]
    BY <1>1, <1>2 DEF IInv, TypeOK
  <2> QED
    BY <2>1, <2>2, <1>1, Zenon DEF IInv, TypeOK
<1>5. CallsConsistent'
  <2>1. /\ call'[t].pc = "idle" /\ lock' = NoThread /\ NoThread \notin Threads
        /\ UNCHANGED <<blocks, handles>>
    BY <1>1, <1>3, ThreadsAssumption DEF Idle
  <2>2. ASSUME NEW u \in Threads, u # t
        PROVE  /\ call'[u] = call[u] /\ u # NoThread
               /\ ~(call[u].pc \in {"split", "coalesce"})
    BY <2>2, <2>1, <1>2, <1>3, Zenon DEF IInv, CallsConsistent
  <2> QED
    BY <2>1, <2>2, SMTT(60) DEF IInv, CallsConsistent
<1>6. BlocksTilePool' /\ HandlesAreSlots'
  BY <1>1, Zenon DEF IInv, BlocksTilePool, HandlesAreSlots, SizeOf
<1>7. FreeListsExact'
  <2>1. /\ free_lists[k] \in Seq(Offsets) /\ Len(free_lists[k]) \in Nat
        /\ Len(free_lists'[k]) = Len(free_lists[k]) + 1
        /\ \A j \in 1..Len(free_lists[k]) : free_lists'[k][j] = free_lists[k][j]
        /\ free_lists'[k][Len(free_lists[k]) + 1] = o
        /\ \A j \in Orders : j # k => free_lists'[j] = free_lists[j]
    <3>1. free_lists[k] \in Seq(Offsets) /\ free_lists'[k] = Append(free_lists[k], o)
      BY <1>1, <1>2, Zenon DEF IInv, TypeOK
    <3> QED
      BY <3>1, <1>1, <1>2, AppendFacts DEF IInv, TypeOK
  <2>2. \A j \in Orders : \A z \in 1..Len(free_lists[j]) :
           /\ free_lists[j][z] \in DOMAIN blocks /\ free_lists[j][z] # o
           /\ blocks[free_lists[j][z]] = [order |-> j, allocated |-> FALSE]
    <3>1. \A j \in Orders : \A z \in 1..Len(free_lists[j]) :
             /\ free_lists[j][z] \in DOMAIN blocks \ InHand
             /\ blocks[free_lists[j][z]] = [order |-> j, allocated |-> FALSE]
      BY Zenon DEF IInv, FreeListsExact
    <3> QED
      BY <3>1, <1>2, Zenon
  <2>3. \A z \in 1..Len(free_lists'[k]) :
           z \in 1..Len(free_lists[k]) \/ z = Len(free_lists[k]) + 1
    BY <2>1
  <2>4. \A j \in Orders : \A x \in 1..Len(free_lists'[j]) :
          /\ free_lists'[j][x] \in DOMAIN blocks' \ InHand'
          /\ blocks'[free_lists'[j][x]] = [order |-> j, allocated |-> FALSE]
    <3> SUFFICES ASSUME NEW j \in Orders, NEW x \in 1..Len(free_lists'[j])
                 PROVE  /\ free_lists'[j][x] \in DOMAIN blocks
                        /\ blocks[free_lists'[j][x]] =
                              [order |-> j, allocated |-> FALSE]
      BY <1>1, <1>2, Zenon
    <3>1. CASE j # k
      BY <3>1, <2>1, <2>2, Zenon
    <3>2. CASE j = k /\ x \in 1..Len(free_lists[k])
      BY <3>2, <2>1, <2>2, Zenon
    <3>3. CASE j = k /\ x = Len(free_lists[k]) + 1
      BY <3>3, <2>1, <1>2, <1>3, Zenon
    <3> QED
      BY <3>1, <3>2, <3>3, <2>3, Zenon
  <2>5. \A j \in Orders : \A x, y \in 1..Len(free_lists'[j]) :
          free_lists'[j][x] = free_lists'[j][y] => x = y
    <3> SUFFICES ASSUME NEW j \in Orders, NEW x \in 1..Len(free_lists'[j]),
                        NEW y \in 1..Len(free_lists'[j]),
                        free_lists'[j][x] = free_lists'[j][y]
                 PROVE  x = y
      BY Zenon
    <3>1. \A z, w \in 1..Len(free_lists[j]) :
             free_lists[j][z] = free_lists[j][w] => z = w
      BY Zenon DEF IInv, FreeListsExact
    <3>2. CASE j # k
      BY <3>1, <3>2, <2>1, Zenon
    <3>3. CASE j = k
      <4>1. \A z \in 1..Len(free_lists[k]) :
               free_lists'[k][z] = free_lists[k][z] /\ free_lists[k][z] # o
        BY <2>1, <2>2, <1>2, Zenon
      <4>2. CASE x \in 1..Len(free_lists[k]) /\ y \in 1..Len(free_lists[k])
        BY <3>1, <3>3, <4>1, <4>2, Zenon
      <4>3. CASE x = Len(free_lists[k]) + 1 \/ y = Len(free_lists[k]) + 1
        BY <3>3, <4>1, <4>3, <2>1, <2>3, Zenon
      <4> QED
        BY <3>3, <4>2, <4>3, <2>3, Zenon
    <3> QED
      BY <3>2, <3>3, Zenon
  <2>6. ASSUME NEW x \in DOMAIN blocks' \ InHand', ~blocks'[x].allocated
        PROVE  \E i \in 1..Len(free_lists'[blocks'[x].order]) :
                   free_lists'[blocks'[x].order][i] = x
    <3>1. CASE x = o
      <4>1. blocks'[x].order = k
        BY <3>1, <1>0, <1>1, Zenon
      <4>2. /\ Len(free_lists[k]) + 1 \in 1..Len(free_lists'[k])
            /\ free_lists'[k][Len(free_lists[k]) + 1] = x
        BY <3>1, <2>1
      <4> QED
        BY <4>1, <4>2, Zenon
    <3>2. CASE x # o
      <4>1. x \in DOMAIN blocks /\ blocks[x].order \in Orders
        BY <1>1, Zenon DEF IInv, TypeOK, Block
      <4>2. PICK i \in 1..Len(free_lists[blocks[x].order]) :
                     free_lists[blocks[x].order][i] = x
        BY <4>1, <3>2, <2>6, <1>1, <1>2, Zenon DEF IInv, FreeListsExact
      <4>3. /\ i \in 1..Len(free_lists'[blocks[x].order])
            /\ free_lists'[blocks[x].order][i] = x
        <5>1. CASE blocks[x].order = k
          BY <5>1, <4>2, <2>1
        <5>2. CASE blocks[x].order # k
          BY <5>2, <4>1, <4>2, <2>1, Zenon
        <5> QED
          BY <5>1, <5>2, Zenon
      <4> QED
        BY <4>3, <1>1, Zenon
    <3> QED
      BY <3>1, <3>2, Zenon
  <2> QED
    BY <2>4, <2>5, <2>6, <1>2, Zenon DEF FreeListsExact
<1> QED
  BY <1>4, <1>5, <1>6, <1>7, Zenon DEF IInv

\* A merge joins two neighbours of one size into the block they fill, and
\* takes the buddy, found at the one place it is listed, off its list.
LEMMA MergeStepIInv ==
    ASSUME IInv, NEW t \in Threads, MergeStep(t)
    PROVE  IInv'
<1>0. SUFFICES ASSUME NEW o, NEW k, NEW b, NEW lo, NEW hi,
                      o = call[t].offset, k = blocks[o].order,
                      b = BuddyOf(o, k),
                      lo = (IF b < o THEN b ELSE o),
                      hi = (IF b < o THEN o ELSE b)
               PROVE  IInv'
  BY Zenon
<1>1. /\ call[t].pc = "coalesce" /\ k < MaxOrder
      /\ b \in DOMAIN blocks /\ ~blocks[b].allocated /\ blocks[b].order = k
      /\ call' = [call EXCEPT ![t].offset = lo]
      /\ UNCHANGED <<allocated_bytes, num_allocations, lock, handles>>
  BY <1>0, Zenon DEF MergeStep, CanMerge
<1>2. blocks' = [x \in DOMAIN blocks \ {hi} |->
                    IF x = lo THEN [order     |-> blocks[lo].order + 1,
                                    allocated |-> FALSE]
                              ELSE blocks[x]]
  BY <1>0, Zenon DEF MergeStep
<1>3. PICK i \in 1..Len(free_lists[k]) :
         /\ free_lists[k][i] = b
         /\ free_lists' = [free_lists EXCEPT ![k] = Without(@, i)]
  BY <1>0, <1>1, Zenon DEF MergeStep
<1>4. /\ lock = t /\ InHand = {o}
      /\ o \in DOMAIN blocks /\ o \in Offsets
      /\ ~blocks[o].allocated /\ k \in Orders /\ b \in Offsets
  <2>1. call[t].pc \in {"split", "coalesce"}
    BY <1>1, Zenon
  <2> QED
    BY <1>0, <1>1, <2>1, HolderFacts, Zenon DEF IInv, TypeOK
<1>5. /\ k + 1 \in Orders /\ SizeAt[k] \in Nat \ {0}
      /\ SizeAt[k + 1] = 2 * SizeAt[k]
      /\ o # b /\ lo + SizeAt[k] = hi
      /\ lo \in Nat /\ hi \in Nat /\ lo < hi
  <2>1. /\ k + 1 \in Orders /\ SizeAt[k] \in Nat \ {0}
        /\ SizeAt[k + 1] = 2 * SizeAt[k]
    <3>1. k + 1 \in Orders /\ k + 1 > 0 /\ (k + 1) - 1 = k
      BY <1>1, <1>4, OrderAssumption DEF Orders
    <3> QED
      BY <3>1, <1>4, Sizes, Zenon
  <2>2. b = o + SizeAt[k] \/ b = o - SizeAt[k]
    BY <1>0, Zenon DEF BuddyOf
  <2>3. o \in Nat /\ b \in Nat
    BY <1>4, Sizes DEF Offsets
  <2> QED
    BY <2>1, <2>2, <2>3, <1>0, SMTT(20)
<1>6. /\ lo \in DOMAIN blocks /\ hi \in DOMAIN blocks /\ {lo, hi} = {o, b}
      /\ ~blocks[lo].allocated /\ blocks[lo].order = k
      /\ ~blocks[hi].allocated /\ blocks[hi].order = k
      /\ lo \in Offsets
  BY <1>0, <1>1, <1>4, Zenon
<1>7. /\ DOMAIN blocks' = DOMAIN blocks \ {hi}
      /\ blocks'[lo] = [order |-> k + 1, allocated |-> FALSE]
      /\ \A x \in DOMAIN blocks : x \notin {o, b} =>
            x # hi /\ x # lo /\ x \in DOMAIN blocks' /\ blocks'[x] = blocks[x]
      /\ \A x \in DOMAIN blocks' :
            x = lo \/ (x \in DOMAIN blocks /\ x # o /\ x # b)
  <2>1. DOMAIN blocks' = DOMAIN blocks \ {hi}
    BY <1>2, Zenon
  <2>2. lo \in DOMAIN blocks' /\ blocks'[lo] = [order |-> k + 1, allocated |-> FALSE]
    BY <2>1, <1>2, <1>5, <1>6
  <2> QED
    BY <2>1, <2>2, <1>2, <1>6, Zenon
<1>8. /\ call'[t].pc = "coalesce" /\ call'[t].offset = lo
      /\ \A u \in Threads : u # t => call'[u] = call[u]
      /\ InHand' = {lo}
  <2>1. /\ call'[t].pc = "coalesce" /\ call'[t].offset = lo
        /\ \A u \in Threads : u # t => call'[u] = call[u]
    BY <1>1, Zenon DEF IInv, TypeOK, Call
  <2> QED
    BY <2>1, <1>1, <1>4, ThreadsAssumption, Zenon DEF InHand
<1>9. TypeOK'
  <2>1. free_lists' \in [Orders -> Seq(Offsets)]
    <3>1. free_lists[k] \in Seq(Offsets)
      BY <1>4, Zenon DEF IInv, TypeOK
    <3>2. Without(free_lists[k], i) \in Seq(Offsets)
      BY <3>1, WithoutProperties, Zenon
    <3> QED
      BY <3>2, <1>3, Zenon DEF IInv, TypeOK
  <2>2. [order |-> k + 1, allocated |-> FALSE] \in Block
    BY <1>5, Zenon DEF Block
  <2>3. DOMAIN blocks' \subseteq Offsets /\ \A x \in DOMAIN blocks' : blocks'[x] \in Block
    BY <2>2, <1>7, Zenon DEF IInv, TypeOK
  <2>4. call' \in [Threads -> Call]
    BY <1>1, <1>6, Zenon DEF IInv, TypeOK, Call
  <2> QED
    BY <2>1, <2>3, <2>4, <1>1, Zenon DEF IInv, TypeOK
<1>10. \A x \in {o, b} : /\ \A h \in handles : h.offset # x
                         /\ \A u \in Threads : call[u].pc = "info"
                                               => call[u].offset # x
  <2> SUFFICES ASSUME NEW x \in {o, b}
               PROVE  /\ \A h \in handles : h.offset # x
                      /\ \A u \in Threads : call[u].pc = "info"
                                            => call[u].offset # x
    BY Zenon
  <2>1. ~blocks[x].allocated
    BY <1>1, <1>4, Zenon
  <2>2. ASSUME NEW h \in handles PROVE h.offset # x
    <3>1. blocks[h.offset] = [order |-> h.order, allocated |-> TRUE]
      BY Zenon DEF IInv, HandlesAreSlots
    <3> QED
      BY <2>1, <3>1
  <2>3. ASSUME NEW u \in Threads, call[u].pc = "info" PROVE call[u].offset # x
    <3>1. blocks[call[u].offset] = [order |-> call[u].target, allocated |-> TRUE]
      BY <2>3, Zenon DEF IInv, CallsConsistent
    <3> QED
      BY <2>1, <3>1
  <2> QED
    BY <2>2, <2>3, Zenon
<1>11. CallsConsistent'
  <2> SUFFICES ASSUME NEW u \in Threads
               PROVE  /\ call'[u].pc \in {"split", "coalesce"} <=> lock' = u
                      /\ call'[u].pc = "split" =>
                           call'[u].target <= blocks'[call'[u].offset].order
                      /\ call'[u].pc = "info" =>
                           /\ call'[u].offset \in DOMAIN blocks'
                           /\ blocks'[call'[u].offset] =
                                [order |-> call'[u].target, allocated |-> TRUE]
                           /\ \A h \in handles' : h.offset # call'[u].offset
                           /\ \A w \in Threads : call'[w].pc = "info" /\ w # u
                                    => call'[w].offset # call'[u].offset
    BY Zenon DEF CallsConsistent
  <2>1. CASE u = t
    BY <2>1, <1>1, <1>4, <1>8, Zenon
  <2>2. CASE u # t
    <3>1. call'[u] = call[u] /\ call[u].pc \notin {"split", "coalesce"} /\ lock' # u
      BY <2>2, <1>1, <1>4, <1>8, Zenon DEF IInv, CallsConsistent
    <3>2. ASSUME call[u].pc = "info"
          PROVE  /\ call[u].offset \in DOMAIN blocks'
                 /\ blocks'[call[u].offset] = blocks[call[u].offset]
                 /\ blocks[call[u].offset] =
                      [order |-> call[u].target, allocated |-> TRUE]
      BY <3>2, <1>7, <1>10, Zenon DEF IInv, CallsConsistent
    <3> QED
      BY <2>2, <3>1, <3>2, <1>1, <1>8 DEF IInv, CallsConsistent
  <2> QED
    BY <2>1, <2>2, Zenon
<1>12. BlocksTilePool'
  <2>1. \A x \in DOMAIN blocks : x \in Nat /\ SizeOf(x) \in Nat \ {0}
    BY Sizes DEF SizeOf, IInv, TypeOK, Block, Offsets
  <2>2. /\ SizeAt[blocks'[lo].order] = 2 * SizeAt[k]
        /\ SizeOf(lo) = SizeAt[k] /\ SizeOf(hi) = SizeAt[k]
        /\ \A x \in DOMAIN blocks' : x # lo =>
              x \in DOMAIN blocks /\ x # hi /\ SizeAt[blocks'[x].order] = SizeOf(x)
    BY <1>5, <1>6, <1>7 DEF SizeOf
  <2>3. /\ \A x \in DOMAIN blocks : x + SizeOf(x) <= PoolSize
        /\ \A x, y \in DOMAIN blocks : x < y => x + SizeOf(x) <= y
    BY Zenon DEF IInv, BlocksTilePool
  <2>4. \A x \in DOMAIN blocks' : x + SizeAt[blocks'[x].order] <= PoolSize
    <3> SUFFICES ASSUME NEW x \in DOMAIN blocks'
                 PROVE  x + SizeAt[blocks'[x].order] <= PoolSize
      BY Zenon
    <3>1. CASE x = lo
      BY <3>1, <2>2, <2>3, <1>5, <1>6, Sizes
    <3>2. CASE x # lo
      BY <3>2, <2>2, <2>3, Zenon
    <3> QED
      BY <3>1, <3>2, Zenon
  <2>5. \A x, y \in DOMAIN blocks' : x < y => x + SizeAt[blocks'[x].order] <= y
    <3> SUFFICES ASSUME NEW x \in DOMAIN blocks', NEW y \in DOMAIN blocks', x < y
                 PROVE  x + SizeAt[blocks'[x].order] <= y
      BY Zenon
    <3>1. CASE x # lo
      BY <3>1, <2>2, <2>3, <1>6, Zenon
    <3>2. CASE x = lo
      <4>1. y \in DOMAIN blocks /\ y # hi /\ y \in Nat /\ hi <= y
        BY <3>2, <2>1, <2>2, <2>3, <1>5, <1>6
      <4>2. hi + SizeAt[k] <= y
        BY <4>1, <2>2, <2>3, <1>5, <1>6
      <4> QED
        BY <3>2, <4>1, <4>2, <2>2, <1>5
    <3> QED
      BY <3>1, <3>2, Zenon
  <2>6. \A a \in Offsets : \E x \in DOMAIN blocks' : x <= a /\ a < x + SizeAt[blocks'[x].order]
    <3> SUFFICES ASSUME NEW a \in Offsets
                 PROVE  \E x \in DOMAIN blocks' : x <= a /\ a < x + SizeAt[blocks'[x].order]
      BY Zenon
    <3>1. PICK x \in DOMAIN blocks : x <= a /\ a < x + SizeOf(x)
      BY Zenon DEF IInv, BlocksTilePool
    <3>2. lo \in DOMAIN blocks' /\ a \in Nat
      BY <1>5, <1>6, <1>7, Sizes DEF Offsets
    <3>3. CASE x = lo \/ x = hi
      BY <3>1, <3>2, <3>3, <2>2, <1>5
    <3>4. CASE x # lo /\ x # hi
      <4>1. x \in DOMAIN blocks' /\ SizeAt[blocks'[x].order] = SizeOf(x)
        BY <3>4, <2>2, <1>7, Zenon
      <4> QED
        BY <3>1, <4>1, Zenon
    <3> QED
      BY <3>3, <3>4, Zenon
  <2> QED
    BY <2>4, <2>5, <2>6, Zenon DEF BlocksTilePool, SizeOf
<1>13. HandlesAreSlots'
  <2>1. \A h \in handles : /\ h.offset \in DOMAIN blocks'
                            /\ blocks'[h.offset] = blocks[h.offset]
    BY <1>7, <1>10, Zenon DEF IInv, HandlesAreSlots
  <2> QED
    BY <2>1, <1>1, Zenon DEF IInv, HandlesAreSlots
<1>14. FreeListsExact'
  <2>1. /\ Len(free_lists[k]) \in Nat
        /\ Len(free_lists'[k]) = Len(free_lists[k]) - 1
        /\ \A j \in 1..(Len(free_lists[k]) - 1) :
              free_lists'[k][j] =
                 IF j < i THEN free_lists[k][j] ELSE free_lists[k][j + 1]
        /\ \A j \in Orders : j # k => free_lists'[j] = free_lists[j]
    <3>1. /\ free_lists[k] \in Seq(Offsets)
          /\ free_lists'[k] = Without(free_lists[k], i)
      BY <1>3, <1>4, Zenon DEF IInv, TypeOK
    <3>2. /\ Len(Without(free_lists[k], i)) = Len(free_lists[k]) - 1
          /\ \A j \in 1..(Len(free_lists[k]) - 1) :
                Without(free_lists[k], i)[j] =
                   IF j < i THEN free_lists[k][j] ELSE free_lists[k][j + 1]
      BY <3>1, WithoutProperties, Zenon
    <3>3. \A j \in Orders : j # k => free_lists'[j] = free_lists[j]
      BY <1>3, Zenon DEF IInv, TypeOK
    <3> QED
      BY <3>1, <3>2, <3>3
  <2>2. /\ \A j \in Orders : \A z \in 1..Len(free_lists[j]) :
              /\ free_lists[j][z] \in DOMAIN blocks /\ free_lists[j][z] # o
              /\ blocks[free_lists[j][z]] = [order |-> j, allocated |-> FALSE]
        /\ \A j \in Orders : \A z, w \in 1..Len(free_lists[j]) :
              free_lists[j][z] = free_lists[j][w] => z = w
    BY <1>4 DEF IInv, FreeListsExact
  <2>3. \A j \in Orders : \A z \in 1..Len(free_lists'[j]) :
          \E w \in 1..Len(free_lists[j]) :
             /\ free_lists'[j][z] = free_lists[j][w]
             /\ j = k => w = IF z < i THEN z ELSE z + 1
    <3> SUFFICES ASSUME NEW j \in Orders, NEW z \in 1..Len(free_lists'[j])
                 PROVE  \E w \in 1..Len(free_lists[j]) :
                          /\ free_lists'[j][z] = free_lists[j][w]
                          /\ j = k => w = IF z < i THEN z ELSE z + 1
      BY Zenon
    <3>1. CASE j # k
      BY <3>1, <2>1, Zenon
    <3>2. CASE j = k /\ z < i
      <4>1. z \in 1..Len(free_lists[k]) /\ free_lists'[k][z] = free_lists[k][z]
        BY <3>2, <2>1
      <4> QED
        BY <4>1, <3>2, Zenon
    <3>3. CASE j = k /\ ~(z < i)
      <4>1. z + 1 \in 1..Len(free_lists[k]) /\ free_lists'[k][z] = free_lists[k][z + 1]
        BY <3>3, <2>1
      <4> QED
        BY <4>1, <3>3, Zenon
    <3> QED
      BY <3>1, <3>2, <3>3, Zenon
  <2>4. \A j \in Orders : \A z \in 1..Len(free_lists'[j]) : free_lists'[j][z] # b
    <3> SUFFICES ASSUME NEW j \in Orders, NEW z \in 1..Len(free_lists'[j]),
                        free_lists'[j][z] = b
                 PROVE  FALSE
      BY Zenon
    <3>1. PICK w \in 1..Len(free_lists[j]) :
             /\ free_lists[j][w] = b
             /\ j = k => w = IF z < i THEN z ELSE z + 1
      BY <2>3, Zenon
    <3>2. blocks[b] = [order |-> j, allocated |-> FALSE]
      BY <3>1, <2>2, Zenon
    <3>3. j = k
      BY <3>2, <1>1
    <3>4. w = i
      BY <3>1, <3>3, <2>2, <1>3, Zenon
    <3> QED
      BY <3>1, <3>3, <3>4
  <2>5. \A j \in Orders : \A z \in 1..Len(free_lists'[j]) :
          /\ free_lists'[j][z] \in DOMAIN blocks' \ InHand'
          /\ blocks'[free_lists'[j][z]] = [order |-> j, allocated |-> FALSE]
    <3> SUFFICES ASSUME NEW j \in Orders, NEW z \in 1..Len(free_lists'[j])
                 PROVE  /\ free_lists'[j][z] \in DOMAIN blocks' \ InHand'
                        /\ blocks'[free_lists'[j][z]] =
                              [order |-> j, allocated |-> FALSE]
      BY Zenon
    <3>1. /\ free_lists'[j][z] \in DOMAIN blocks
          /\ free_lists'[j][z] # o /\ free_lists'[j][z] # b
          /\ blocks[free_lists'[j][z]] = [order |-> j, allocated |-> FALSE]
      BY <2>2, <2>3, <2>4
    <3> QED
      BY <3>1, <1>7, <1>8, Zenon
  <2>6. \A j \in Orders : \A x, y \in 1..Len(free_lists'[j]) :
          free_lists'[j][x] = free_lists'[j][y] => x = y
    <3> SUFFICES ASSUME NEW j \in Orders, NEW x \in 1..Len(free_lists'[j]),
                        NEW y \in 1..Len(free_lists'[j]),
                        free_lists'[j][x] = free_lists'[j][y]
                 PROVE  x = y
      BY Zenon
    <3>1. CASE j # k
      BY <3>1, <2>1, <2>2, Zenon
    <3>2. CASE j = k
      <4>1. PICK v \in 1..Len(free_lists[k]) :
               free_lists'[k][x] = free_lists[k][v] /\ v = IF x < i THEN x ELSE x + 1
        BY <3>2, <2>3, Zenon
      <4>2. PICK w \in 1..Len(free_lists[k]) :
               free_lists'[k][y] = free_lists[k][w] /\ w = IF y < i THEN y ELSE y + 1
        BY <3>2, <2>3, Zenon
      <4>3. v = w
        BY <4>1, <4>2, <3>2, <2>2, <1>4, ZenonT(30)
      <4> QED
        BY <4>1, <4>2, <4>3
    <3> QED
      BY <3>1, <3>2, Zenon
  <2>7. ASSUME NEW x \in DOMAIN blocks' \ InHand', ~blocks'[x].allocated
        PROVE  \E j \in 1..Len(free_lists'[blocks'[x].order]) :
                   free_lists'[blocks'[x].order][j] = x
    <3>1. /\ x \in DOMAIN blocks /\ x # o /\ x # b /\ blocks'[x] = blocks[x]
          /\ blocks[x].order \in Orders
      BY <1>7, <1>8, Zenon DEF IInv, TypeOK, Block
    <3>2. PICK j \in 1..Len(free_lists[blocks[x].order]) :
                   free_lists[blocks[x].order][j] = x
      BY <3>1, <2>7, <1>4, Zenon DEF IInv, FreeListsExact
    <3>3. CASE blocks[x].order # k
      BY <3>1, <3>2, <3>3, <2>1, Zenon
    <3>4. CASE blocks[x].order = k
      <4>1. j # i
        BY <3>1, <3>2, <3>4, <1>3, Zenon
      <4>2. CASE j < i
        BY <3>1, <3>2, <3>4, <4>2, <2>1
      <4>3. CASE j > i
        <5>1. /\ j - 1 \in 1..Len(free_lists'[k])
              /\ free_lists'[k][j - 1] = x
          BY <3>2, <3>4, <4>3, <2>1
        <5> QED
          BY <5>1, <3>1, <3>4, Zenon
      <4> QED
        BY <4>1, <4>2, <4>3
    <3> QED
      BY <3>3, <3>4, Zenon
  <2>8. \A x \in InHand' : x \in DOMAIN blocks' /\ ~blocks'[x].allocated
    BY <1>5, <1>6, <1>7, <1>8
  <2> QED
    BY <2>5, <2>6, <2>7, <2>8, Zenon DEF FreeListsExact
<1> QED
  BY <1>9, <1>11, <1>12, <1>13, <1>14, Zenon DEF IInv

-----------------------------------------------------------------------------
\* Every step of every thread preserves the inductive invariant.
LEMMA NextIInv == IInv /\ [Next]_vars => IInv'
<1> SUFFICES ASSUME IInv, [Next]_vars PROVE IInv'
  BY Zenon
<1>1. CASE UNCHANGED vars
  <2>1. TypeOK' /\ CallsConsistent'
    BY <1>1, Zenon DEF vars, IInv, TypeOK, CallsConsistent
  <2>2. BlocksTilePool' /\ HandlesAreSlots'
    BY <1>1, Zenon DEF vars, IInv, BlocksTilePool, HandlesAreSlots, SizeOf
  <2>3. FreeListsExact'
    BY <1>1, SMTT(60) DEF vars, IInv, FreeListsExact, InHand
  <2> QED
    BY <2>1, <2>2, <2>3, Zenon DEF IInv
<1>2. CASE Next
  <2>1. PICK t \in Threads :
            \/ \E n \in ReqSizes : AllocateBegin(t, n)
            \/ SplitStep(t)
            \/ AllocateEnd(t)
            \/ GetBlockInfo(t)
            \/ \E h \in handles : FreeBegin(t, h)
            \/ MergeStep(t)
            \/ CoalesceEnd(t)
    BY <1>2, Zenon DEF Next
  <2> QED
    BY <2>1, AllocateBeginIInv, SplitStepIInv, AllocateEndIInv,
       GetBlockInfoIInv, FreeBeginIInv, MergeStepIInv, CoalesceEndIInv, Zenon
<1> QED
  BY <1>1, <1>2, Zenon

\* IInv holds throughout: for any pool, any threads and any request sizes.
THEOREM AllocatorInvariant == Spec => []IInv
BY InitIInv, NextIInv, PTL DEF Spec

\* Every variable keeps its type, whatever allocate and free calls are made.
THEOREM TypeCorrect == Spec => []TypeOK
<1>1. IInv => TypeOK
  BY Zenon DEF IInv
<1> QED
  BY <1>1, AllocatorInvariant, PTL

\* Splits and merges by concurrent callers never make two blocks overlap,
\* leave the pool, or lose a byte of it.
THEOREM PoolIsTiled == Spec => []BlocksTilePool
<1>1. IInv => BlocksTilePool
  BY Zenon DEF IInv
<1> QED
  BY <1>1, AllocatorInvariant, PTL

\* The free lists are exact, so list.remove in _coalesce never raises.
THEOREM FreeListsAreExact == Spec => []FreeListsExact
<1>1. IInv => FreeListsExact
  BY Zenon DEF IInv
<1> QED
  BY <1>1, AllocatorInvariant, PTL

\* A call holds the lock exactly while it is in one of its loops, and between
\* allocate and get_block_info the block it was given is its own.
THEOREM CallsStayConsistent == Spec => []CallsConsistent
<1>1. IInv => CallsConsistent
  BY Zenon DEF IInv
<1> QED
  BY <1>1, AllocatorInvariant, PTL

\* Live handles are allocated blocks of the size they say, and disjoint.
THEOREM HandlesNeverOverlap == Spec => []HandlesAreSlots
<1>1. IInv => HandlesAreSlots
  BY Zenon DEF IInv
<1> QED
  BY <1>1, AllocatorInvariant, PTL

-----------------------------------------------------------------------------
\* The slot of SlotPool that a handle stands for.
SlotOf(h) == [offset |-> h.offset, size |-> SizeAt[h.order]]

\* Returning a handle grants a slot inside the pool that no live one touches.
LEMMA GetBlockInfoGrants ==
    ASSUME IInv, NEW t \in Threads, GetBlockInfo(t)
    PROVE  \E s \in Pool!Slot : Pool!Grant(s)
<1>0. SUFFICES ASSUME NEW o, o = call[t].offset,
                      NEW g, g = [offset |-> o, order |-> blocks[o].order]
               PROVE \E s \in Pool!Slot : Pool!Grant(s)
  BY Zenon
<1>1. call[t].pc = "info" /\ handles' = handles \cup {g}
  BY <1>0, Zenon DEF GetBlockInfo
<1>2. /\ o \in DOMAIN blocks /\ o \in Offsets /\ blocks[o].order \in Orders
      /\ \A h \in handles : h.offset # o
  BY <1>0, <1>1, Zenon DEF IInv, CallsConsistent, TypeOK, Block
<1>3. g.offset = o /\ SizeAt[g.order] = SizeOf(o)
  BY <1>0, Zenon DEF SizeOf
<1>4. /\ SizeOf(o) \in Nat \ {0} /\ o \in Nat /\ o + SizeOf(o) <= PoolSize
      /\ PoolSize \in Nat
  BY <1>2, Sizes DEF SizeOf, Offsets, IInv, BlocksTilePool
<1>5. SlotOf(g) \in Pool!Slot /\ Pool!Inside(SlotOf(g))
  BY <1>2, <1>3, <1>4 DEF SlotOf, Pool!Slot, Pool!Inside, Offsets
<1>6. \A h \in handles : Pool!Disjoint(SlotOf(g), SlotOf(h))
  <2> TAKE h \in handles
  <2>1. h.offset \in DOMAIN blocks /\ blocks[h.offset].order = h.order
    <3>1. blocks[h.offset] = [order |-> h.order, allocated |-> TRUE]
      BY Zenon DEF IInv, HandlesAreSlots
    <3> QED
      BY <3>1 DEF IInv, HandlesAreSlots
  <2>2. h.offset \in Nat /\ SizeAt[h.order] = SizeOf(h.offset) /\ h.offset # o
    BY <2>1, <1>2, Sizes DEF SizeOf, IInv, TypeOK, Offsets
  <2>3. \/ o + SizeOf(o) <= h.offset
        \/ h.offset + SizeOf(h.offset) <= o
    BY <2>1, <2>2, <1>2, <1>4 DEF IInv, BlocksTilePool
  <2> QED
    BY <2>2, <2>3, <1>3, Zenon DEF SlotOf, Pool!Disjoint
<1>7. /\ \A u \in {SlotOf(h) : h \in handles} : Pool!Disjoint(SlotOf(g), u)
      /\ {SlotOf(h) : h \in handles'} = {SlotOf(h) : h \in handles} \cup {SlotOf(g)}
  BY <1>1, <1>6, Zenon
<1>8. Pool!Grant(SlotOf(g))
  BY <1>5, <1>7, Zenon DEF Pool!Grant, SlotOf
<1> QED
  BY <1>5, <1>8, Zenon

\* Freeing a handle releases its slot and no other.
LEMMA FreeBeginReleases ==
    ASSUME IInv, NEW t \in Threads, NEW h \in handles, FreeBegin(t, h)
    PROVE  \E s \in {SlotOf(f) : f \in handles} :
              {SlotOf(f) : f \in handles'} = {SlotOf(f) : f \in handles} \ {s}
<1>1. handles' = handles \ {h}
  BY Zenon DEF FreeBegin
<1>2. \A f \in handles : f # h => SlotOf(f) # SlotOf(h)
  <2> SUFFICES ASSUME NEW f \in handles, SlotOf(f) = SlotOf(h) PROVE f = h
    BY Zenon
  <2>1. f.offset = h.offset
    BY Zenon DEF SlotOf
  <2> QED
    BY <2>1, HandleOffsetsDiffer, Zenon
<1> QED
  BY <1>1, <1>2

\* The allocator as the transfer buffer uses it implements SlotPool: two
\* tensors are never staged over each other.
THEOREM AllocatorImplementsSlotPool == Spec => ImplementsSlotPool
<1>1. Init => Pool!Init
  BY Zenon DEF Init, Pool!Init
<1>2. IInv /\ [Next]_vars =>
        [Pool!Next]_{[offset |-> h.offset, size |-> SizeAt[h.order]] : h \in handles}
  <2> SUFFICES ASSUME IInv, [Next]_vars
               PROVE  \/ Pool!Next
                      \/ {SlotOf(h) : h \in handles}' = {SlotOf(h) : h \in handles}
    BY Zenon DEF SlotOf
  <2>1. CASE handles' = handles
    BY <2>1, Zenon DEF SlotOf
  <2>2. CASE \E t \in Threads : GetBlockInfo(t)
    BY <2>2, GetBlockInfoGrants, Zenon DEF Pool!Next
  <2>3. CASE \E t \in Threads : \E h \in handles : FreeBegin(t, h)
    BY <2>3, FreeBeginReleases, Zenon DEF Pool!Next, Pool!Release, SlotOf
  <2> QED
    BY <2>1, <2>2, <2>3, Zenon DEF Next, vars, AllocateBegin, SplitStep, AllocateEnd,
                            MergeStep, CoalesceEnd
<1> QED
  BY <1>1, <1>2, AllocatorInvariant, PTL DEF Spec, ImplementsSlotPool, Pool!Spec


\* Both halves of an aligned block are aligned, and the upper one has the odd
\* quotient.
LEMMA HalvesAligned ==
    ASSUME NEW o \in Nat, NEW s \in Nat \ {0}, NEW d, d = 2 * s, o % d = 0
    PROVE  /\ o % s = 0 /\ (o \div s) % 2 = 0
           /\ (o + s) % s = 0 /\ ((o + s) \div s) % 2 = 1
<1>1. PICK q \in Nat : o = d * q
  BY ModMultiple
<1>2. o = s * (2 * q) /\ o + s = s * (2 * q + 1) /\ 2 * q \in Nat /\ 2 * q + 1 \in Nat
  BY <1>1
<1>3. o % s = 0 /\ o \div s = 2 * q /\ (o + s) % s = 0 /\ (o + s) \div s = 2 * q + 1
  BY <1>2, MultipleMod, Zenon
<1> QED
  BY <1>3

\* The lower of an aligned block and its buddy is aligned for twice the size.
LEMMA PairAligned ==
    ASSUME NEW o \in Nat, NEW s \in Nat \ {0}, NEW d, d = 2 * s, o % s = 0
    PROVE  IF (o \div s) % 2 = 0 THEN o % d = 0 ELSE o - s \in Nat /\ (o - s) % d = 0
<1>1. PICK q \in Nat : o = s * q /\ o \div s = q
  BY ModMultiple, Zenon
<1>2. CASE q % 2 = 0
  <2>1. PICK p \in Nat : q = 2 * p
    BY <1>2
  <2>2. o = d * p
    BY <2>1, <1>1
  <2>3. d \in Nat \ {0} /\ (d * p) % d = 0
    BY MultipleMod
  <2> QED
    BY <2>2, <2>3, <1>1, <1>2, Zenon
<1>3. CASE q % 2 # 0
  <2>1. PICK p \in Nat : q = 2 * p + 1
    BY <1>3
  <2>2. o - s = d * p
    BY <2>1, <1>1
  <2>3. d \in Nat \ {0} /\ (d * p) % d = 0 /\ d * p \in Nat
    BY MultipleMod
  <2> QED
    BY <2>2, <2>3, <1>1, <1>3, Zenon
<1> QED
  BY <1>2, <1>3, Zenon

-----------------------------------------------------------------------------
\* offset ^ size of an aligned block: the buddy is aligned too, its buddy is the
\* block itself, and the lower of the two is aligned for the order above.
LEMMA BuddyFacts ==
    ASSUME NEW o \in Nat, NEW k \in Orders, o % SizeAt[k] = 0, NEW b, b = BuddyOf(o, k)
    PROVE  /\ b \in Nat /\ b % SizeAt[k] = 0 /\ BuddyOf(b, k) = o
           /\ \/ b = o + SizeAt[k] /\ o % (2 * SizeAt[k]) = 0
              \/ o = b + SizeAt[k] /\ b % (2 * SizeAt[k]) = 0
<1> DEFINE s == SizeAt[k]
<1>0. s \in Nat \ {0}
  BY Sizes, Zenon
<1> DEFINE d == 2 * s
<1>3. d = 2 * s /\ d \in Nat
  BY <1>0
<1> HIDE DEF s, d
<1>4. o % s = 0
  BY Zenon DEF s
<1>1. CASE (o \div s) % 2 = 0
  <2>1. o % d = 0
    BY <1>0, <1>1, <1>3, <1>4, PairAligned, ZenonT(60)
  <2>2. b = o + s
    BY <1>1, Zenon DEF BuddyOf, s
  <2>3. /\ o % s = 0 /\ (o \div s) % 2 = 0
        /\ (o + s) % s = 0 /\ ((o + s) \div s) % 2 = 1
    BY <1>0, <1>3, <2>1, HalvesAligned, ZenonT(60)
  <2>4. BuddyOf(b, k) = b - s
    BY <2>2, <2>3 DEF BuddyOf, s
  <2>5. b \in Nat /\ b - s = o /\ b = o + s
    BY <1>0, <2>2
  <2> QED
    BY <1>3, <2>1, <2>2, <2>3, <2>4, <2>5, ZenonT(60) DEF s
<1>2. CASE (o \div s) % 2 # 0
  <2>1. o - s \in Nat /\ (o - s) % d = 0
    BY <1>0, <1>2, <1>3, <1>4, PairAligned, ZenonT(60)
  <2>2. b = o - s
    BY <1>2, Zenon DEF BuddyOf, s
  <2>3. /\ (o - s) % s = 0 /\ ((o - s) \div s) % 2 = 0
        /\ ((o - s) + s) % s = 0 /\ (((o - s) + s) \div s) % 2 = 1
    BY <1>0, <1>3, <2>1, HalvesAligned, ZenonT(60)
  <2>4. BuddyOf(b, k) = b + s
    BY <2>2, <2>3, Zenon DEF BuddyOf, s
  <2>5. b + s = o
    BY <1>0, <2>1, <2>2
  <2> QED
    BY <1>3, <2>1, <2>2, <2>3, <2>4, <2>5, ZenonT(60) DEF s
<1> QED
  BY <1>1, <1>2, Zenon

\* What a split does to the blocks.
LEMMA SplitBlocks ==
    ASSUME IInv, NEW t \in Threads, SplitStep(t)
    PROVE  \E o \in DOMAIN blocks, k \in Orders :
             /\ k + 1 \in Orders /\ SizeAt[k + 1] = 2 * SizeAt[k]
             /\ InHand = {o} /\ InHand' = {o} /\ o \in Nat
             /\ blocks[o].order = k + 1 /\ ~blocks[o].allocated
             /\ o + SizeAt[k] \notin DOMAIN blocks
             /\ DOMAIN blocks' = DOMAIN blocks \cup {o + SizeAt[k]}
             /\ blocks'[o] = [order |-> k, allocated |-> FALSE]
             /\ blocks'[o + SizeAt[k]] = [order |-> k, allocated |-> FALSE]
             /\ \A x \in DOMAIN blocks \ {o} : blocks'[x] = blocks[x]
<1>0. SUFFICES ASSUME NEW o, NEW k, o = call[t].offset, k = blocks[o].order - 1
               PROVE  /\ o \in DOMAIN blocks /\ k \in Orders
                      /\ k + 1 \in Orders /\ SizeAt[k + 1] = 2 * SizeAt[k]
                      /\ InHand = {o} /\ InHand' = {o} /\ o \in Nat
                      /\ blocks[o].order = k + 1 /\ ~blocks[o].allocated
                      /\ o + SizeAt[k] \notin DOMAIN blocks
                      /\ DOMAIN blocks' = DOMAIN blocks \cup {o + SizeAt[k]}
                      /\ blocks'[o] = [order |-> k, allocated |-> FALSE]
                      /\ blocks'[o + SizeAt[k]] = [order |-> k, allocated |-> FALSE]
                      /\ \A x \in DOMAIN blocks \ {o} : blocks'[x] = blocks[x]
  BY Zenon
<1>1. /\ call[t].pc = "split" /\ blocks[o].order > call[t].target
      /\ blocks' = [x \in DOMAIN blocks \cup {UpperHalf(o, k)} |->
                       IF x \in {o, UpperHalf(o, k)} THEN [order |-> k, allocated |-> FALSE]
                                                     ELSE blocks[x]]
      /\ UNCHANGED <<lock, call>>
  BY <1>0, Zenon DEF SplitStep
<1>2. /\ InHand = {o} /\ InHand' = {o} /\ o \in DOMAIN blocks /\ o \in Offsets
      /\ ~blocks[o].allocated /\ blocks[o].order \in Orders
  BY <1>0, <1>1, HolderFacts, Zenon DEF InHand
<1>3. call[t].target \in Nat
  BY OrderAssumption DEF IInv, TypeOK, Call, Orders
<1>4. k \in Orders /\ blocks[o].order = k + 1 /\ k + 1 \in Orders /\ o \in Nat
  BY <1>0, <1>1, <1>2, <1>3, OrderAssumption, Sizes DEF Orders, Offsets
<1>5. UpperHalf(o, k) \notin DOMAIN blocks /\ UpperHalf(o, k) = o + SizeAt[k]
  BY <1>2, <1>4, UpperHalfIsNew, Zenon
<1>6. SizeAt[k + 1] = 2 * SizeAt[k]
  BY <1>4, Sizes, OrderAssumption DEF Orders
<1> QED
  BY <1>1, <1>2, <1>4, <1>5, <1>6, Zenon

\* What a merge does to them.
LEMMA MergeBlocks ==
    ASSUME IInv, NEW t \in Threads, MergeStep(t)
    PROVE  \E o, b, lo, hi, k :
             /\ {o, b, lo, hi} \subseteq DOMAIN blocks /\ k \in Orders
             /\ k + 1 \in Orders /\ SizeAt[k + 1] = 2 * SizeAt[k]
             /\ InHand = {o} /\ InHand' = {lo} /\ b = BuddyOf(o, k)
             /\ {lo, hi} = {o, b} /\ lo < hi /\ o \in Nat /\ b \in Nat
             /\ blocks[o].order = k /\ ~blocks[o].allocated
             /\ blocks[b].order = k /\ ~blocks[b].allocated
             /\ DOMAIN blocks' = DOMAIN blocks \ {hi}
             /\ blocks'[lo] = [order |-> k + 1, allocated |-> FALSE]
             /\ \A x \in DOMAIN blocks \ {lo, hi} : blocks'[x] = blocks[x]
<1>0. SUFFICES ASSUME NEW o, NEW k, NEW b, NEW lo, NEW hi,
                      o = call[t].offset, k = blocks[o].order, b = BuddyOf(o, k),
                      lo = (IF b < o THEN b ELSE o), hi = (IF b < o THEN o ELSE b)
               PROVE  \E p, q, l, h, n :
                         /\ {p, q, l, h} \subseteq DOMAIN blocks /\ n \in Orders
                         /\ n + 1 \in Orders /\ SizeAt[n + 1] = 2 * SizeAt[n]
                         /\ InHand = {p} /\ InHand' = {l} /\ q = BuddyOf(p, n)
                         /\ {l, h} = {p, q} /\ l < h /\ p \in Nat /\ q \in Nat
                         /\ blocks[p].order = n /\ ~blocks[p].allocated
                         /\ blocks[q].order = n /\ ~blocks[q].allocated
                         /\ DOMAIN blocks' = DOMAIN blocks \ {h}
                         /\ blocks'[l] = [order |-> n + 1, allocated |-> FALSE]
                         /\ \A x \in DOMAIN blocks \ {l, h} : blocks'[x] = blocks[x]
  BY Zenon
<1>1. /\ call[t].pc = "coalesce" /\ k < MaxOrder
      /\ b \in DOMAIN blocks /\ ~blocks[b].allocated /\ blocks[b].order = k
      /\ call' = [call EXCEPT ![t].offset = lo] /\ lock' = lock
  BY <1>0, Zenon DEF MergeStep, CanMerge
<1>2. blocks' = [x \in DOMAIN blocks \ {hi} |->
                    IF x = lo THEN [order |-> blocks[lo].order + 1, allocated |-> FALSE]
                              ELSE blocks[x]]
  BY <1>0, Zenon DEF MergeStep
<1>3. /\ lock = t /\ InHand = {o} /\ o \in DOMAIN blocks /\ o \in Offsets
      /\ ~blocks[o].allocated /\ k \in Orders /\ b \in Offsets
  BY <1>0, <1>1, HolderFacts, Zenon DEF IInv, TypeOK
<1>4. o \in Nat /\ b \in Nat /\ SizeAt[k] \in Nat \ {0} /\ k + 1 \in Orders
  BY <1>0, <1>1, <1>3, Sizes, OrderAssumption DEF Offsets, Orders
<1>5. SizeAt[k + 1] = 2 * SizeAt[k]
  BY <1>0, <1>4, Sizes, OrderAssumption, <1>3 DEF Orders
<1>6. o # b
  <2>1. b = o + SizeAt[k] \/ b = o - SizeAt[k]
    BY <1>0, Zenon DEF BuddyOf
  <2> QED
    BY <2>1, <1>4
<1>7. {lo, hi} = {o, b} /\ lo < hi /\ lo # hi
  BY <1>0, <1>4, <1>6
<1>8. InHand' = {lo}
  <2>1. call'[t].offset = lo
    BY <1>0, <1>1, Zenon DEF IInv, TypeOK, Call
  <2> QED
    BY <2>1, <1>1, <1>3, ThreadsAssumption, Zenon DEF InHand
<1>9. {lo, hi} \subseteq DOMAIN blocks /\ blocks[lo].order = k
  BY <1>0, <1>1, <1>3, Zenon
<1>10. /\ DOMAIN blocks' = DOMAIN blocks \ {hi}
       /\ blocks'[lo] = [order |-> k + 1, allocated |-> FALSE]
       /\ \A x \in DOMAIN blocks \ {lo, hi} : blocks'[x] = blocks[x]
  BY <1>0, <1>2, <1>7, <1>9, Zenon
<1>11. /\ {o, b, lo, hi} \subseteq DOMAIN blocks /\ k \in Orders
       /\ k + 1 \in Orders /\ SizeAt[k + 1] = 2 * SizeAt[k]
       /\ InHand = {o} /\ InHand' = {lo} /\ b = BuddyOf(o, k)
       /\ {lo, hi} = {o, b} /\ lo < hi /\ o \in Nat /\ b \in Nat
       /\ blocks[o].order = k /\ ~blocks[o].allocated
       /\ blocks[b].order = k /\ ~blocks[b].allocated
       /\ DOMAIN blocks' = DOMAIN blocks \ {hi}
       /\ blocks'[lo] = [order |-> k + 1, allocated |-> FALSE]
       /\ \A x \in DOMAIN blocks \ {lo, hi} : blocks'[x] = blocks[x]
  BY <1>0, <1>1, <1>3, <1>4, <1>5, <1>7, <1>8, <1>9, <1>10, Zenon
<1> QED
  BY <1>11, Zenon

\* What marking a block does: allocate at its end, free at its beginning.
LEMMA MarkBlocks ==
    ASSUME IInv, NEW t \in Threads, NEW o, NEW d,
           \/ AllocateEnd(t) /\ o = call[t].offset /\ d = 1
           \/ \E h \in handles : FreeBegin(t, h) /\ o = h.offset /\ d = -1
    PROVE  /\ o \in DOMAIN blocks /\ DOMAIN blocks' = DOMAIN blocks
           /\ blocks[o].order \in Orders
           /\ d \in {1, -1}
           /\ d = 1 => /\ ~blocks[o].allocated /\ InHand = {o} /\ InHand' = {}
                       /\ blocks'[o] = [order |-> blocks[o].order, allocated |-> TRUE]
           /\ d = -1 => /\ blocks[o].allocated /\ InHand = {} /\ InHand' = {o}
                        /\ blocks'[o] = [order |-> blocks[o].order, allocated |-> FALSE]
           /\ \A x \in DOMAIN blocks : x # o => blocks'[x] = blocks[x]
           /\ \A x \in DOMAIN blocks : blocks'[x].order = blocks[x].order
           /\ Account(o, d)
<1>1. CASE AllocateEnd(t) /\ o = call[t].offset /\ d = 1
  <2>1. /\ call[t].pc = "split" /\ Account(o, 1)
        /\ blocks' = [blocks EXCEPT ![o].allocated = TRUE] /\ lock' = NoThread
    BY <1>1, Zenon DEF AllocateEnd
  <2>2. /\ InHand = {o} /\ o \in DOMAIN blocks /\ blocks[o].order \in Orders
        /\ ~blocks[o].allocated
    BY <1>1, <2>1, HolderFacts, Zenon
  <2>3. InHand' = {}
    BY <2>1, Zenon DEF InHand
  <2>4. /\ DOMAIN blocks' = DOMAIN blocks
        /\ blocks'[o] = [order |-> blocks[o].order, allocated |-> TRUE]
        /\ \A x \in DOMAIN blocks : x # o => blocks'[x] = blocks[x]
        /\ \A x \in DOMAIN blocks : blocks'[x].order = blocks[x].order
    <3>1. blocks[o] \in Block
      BY <2>2, Zenon DEF IInv, TypeOK
    <3> QED
      BY <3>1, <2>1, <2>2, Zenon DEF Block
  <2>5. d = 1 /\ d # -1 /\ Account(o, d)
    BY <1>1, <2>1
  <2> QED
    BY <2>2, <2>3, <2>4, <2>5, Zenon
<1>2. CASE \E h \in handles : FreeBegin(t, h) /\ o = h.offset /\ d = -1
  <2>1. /\ blocks[o].allocated /\ Account(o, -1) /\ lock = NoThread /\ lock' = t
        /\ blocks' = [blocks EXCEPT ![o].allocated = FALSE] /\ o \in DOMAIN blocks
        /\ call' = [call EXCEPT ![t] = [pc |-> "coalesce", offset |-> o, target |-> 0]]
    BY <1>2, Zenon DEF FreeBegin
  <2>2. InHand = {} /\ InHand' = {o}
    BY <2>1, ThreadsAssumption, Zenon DEF InHand, IInv, TypeOK
  <2>3. blocks[o] \in Block
    BY <2>1, Zenon DEF IInv, TypeOK
  <2>4. /\ DOMAIN blocks' = DOMAIN blocks
        /\ blocks'[o] = [order |-> blocks[o].order, allocated |-> FALSE]
        /\ \A x \in DOMAIN blocks : x # o => blocks'[x] = blocks[x]
        /\ \A x \in DOMAIN blocks : blocks'[x].order = blocks[x].order
    BY <2>1, <2>3, Zenon DEF Block
  <2>5. d = -1 /\ d # 1 /\ Account(o, d) /\ blocks[o].order \in Orders
    BY <1>2, <2>1, <2>3 DEF Block
  <2> QED
    BY <2>1, <2>2, <2>4, <2>5, Zenon
<1> QED
  BY <1>1, <1>2, Zenon

\* The steps that leave the blocks alone.
LEMMA SameBlocks ==
    ASSUME [Next]_vars,
           ~\E t \in Threads : \/ SplitStep(t) \/ AllocateEnd(t) \/ MergeStep(t)
                              \/ \E h \in handles : FreeBegin(t, h)
    PROVE  /\ blocks' = blocks
           /\ UNCHANGED <<allocated_bytes, num_allocations>>
BY Zenon DEF Next, vars, AllocateBegin, GetBlockInfo, CoalesceEnd

-----------------------------------------------------------------------------
\* Splits and merges keep blocks at multiples of their sizes.
LEMMA AlignedNext == IInv /\ BlocksAligned /\ [Next]_vars => BlocksAligned'
<1> SUFFICES ASSUME IInv, BlocksAligned, [Next]_vars PROVE BlocksAligned'
  BY Zenon
<1>0. /\ DOMAIN blocks \subseteq Nat
      /\ \A x \in DOMAIN blocks : blocks[x].order \in Orders /\ x % SizeAt[blocks[x].order] = 0
  BY Sizes DEF IInv, TypeOK, Block, Offsets, BlocksAligned, SizeOf
<1>1. ASSUME NEW t \in Threads, SplitStep(t) PROVE BlocksAligned'
  <2>1. PICK o \in DOMAIN blocks, k \in Orders :
             /\ SizeAt[k + 1] = 2 * SizeAt[k] /\ blocks[o].order = k + 1
             /\ DOMAIN blocks' = DOMAIN blocks \cup {o + SizeAt[k]}
             /\ blocks'[o] = [order |-> k, allocated |-> FALSE]
             /\ blocks'[o + SizeAt[k]] = [order |-> k, allocated |-> FALSE]
             /\ \A x \in DOMAIN blocks \ {o} : blocks'[x] = blocks[x]
    BY <1>1, SplitBlocks, Zenon
  <2> DEFINE s == SizeAt[k]
             d == SizeAt[k + 1]
  <2>2. o \in Nat /\ s \in Nat \ {0} /\ d = 2 * s /\ o % d = 0
    BY <1>0, <2>1, Sizes, Zenon
  <2> HIDE DEF s, d
  <2>3. /\ o % s = 0 /\ (o \div s) % 2 = 0
        /\ (o + s) % s = 0 /\ ((o + s) \div s) % 2 = 1
    BY <2>2, HalvesAligned, ZenonT(60)
  <2>4. o % SizeAt[k] = 0 /\ (o + SizeAt[k]) % SizeAt[k] = 0
    BY <2>3, Zenon DEF s
  <2>5. ASSUME NEW x \in DOMAIN blocks' PROVE x % SizeAt[blocks'[x].order] = 0
    BY <1>0, <2>1, <2>4
  <2> QED
    BY <2>5, Zenon DEF BlocksAligned, SizeOf
<1>2. ASSUME NEW t \in Threads, MergeStep(t) PROVE BlocksAligned'
  <2>1. PICK o, b, lo, hi, k :
           /\ {o, b, lo, hi} \subseteq DOMAIN blocks /\ k \in Orders
           /\ k + 1 \in Orders /\ SizeAt[k + 1] = 2 * SizeAt[k]
           /\ InHand = {o} /\ InHand' = {lo} /\ b = BuddyOf(o, k)
           /\ {lo, hi} = {o, b} /\ lo < hi /\ o \in Nat /\ b \in Nat
           /\ blocks[o].order = k /\ ~blocks[o].allocated
           /\ blocks[b].order = k /\ ~blocks[b].allocated
           /\ DOMAIN blocks' = DOMAIN blocks \ {hi}
           /\ blocks'[lo] = [order |-> k + 1, allocated |-> FALSE]
           /\ \A x \in DOMAIN blocks \ {lo, hi} : blocks'[x] = blocks[x]
    BY <1>2, MergeBlocks, Zenon
  <2>2. o \in Nat /\ k \in Orders /\ b = BuddyOf(o, k)
    BY <2>1, Zenon
  <2>3. o % SizeAt[k] = 0
    BY <1>0, <2>1, Zenon
  <2>4. \/ b = o + SizeAt[k] /\ o % (2 * SizeAt[k]) = 0
        \/ o = b + SizeAt[k] /\ b % (2 * SizeAt[k]) = 0
    BY <2>2, <2>3, BuddyFacts, ZenonT(60)
  <2>5. lo % SizeAt[k + 1] = 0
    <3>0. SizeAt[k] \in Nat \ {0}
      BY <2>1, Sizes, Zenon
    <3>1. lo = IF b = o + SizeAt[k] THEN o ELSE IF o = b + SizeAt[k] THEN b ELSE lo
      BY <2>1, <3>0
    <3>2. ~(b = o + SizeAt[k] /\ o = b + SizeAt[k])
      BY <2>1, <3>0
    <3> QED
      BY <2>1, <2>4, <3>1, <3>2, ZenonT(60)
  <2>6. ASSUME NEW x \in DOMAIN blocks' PROVE x % SizeAt[blocks'[x].order] = 0
    BY <1>0, <2>1, <2>5
  <2> QED
    BY <2>6, Zenon DEF BlocksAligned, SizeOf
<1>3. ASSUME NEW t \in Threads, AllocateEnd(t) \/ \E h \in handles : FreeBegin(t, h)
      PROVE  BlocksAligned'
  <2>1. PICK o, d : \/ AllocateEnd(t) /\ o = call[t].offset /\ d = 1
                    \/ \E h \in handles : FreeBegin(t, h) /\ o = h.offset /\ d = -1
    BY <1>3, Zenon
  <2>2. /\ DOMAIN blocks' = DOMAIN blocks
        /\ \A x \in DOMAIN blocks : blocks'[x].order = blocks[x].order
    BY <2>1, MarkBlocks, Zenon
  <2> QED
    BY <1>0, <2>2, Zenon DEF BlocksAligned, SizeOf
<1> QED
  BY <1>1, <1>2, <1>3, SameBlocks, Zenon DEF BlocksAligned, SizeOf

\* Every block lies at a multiple of its size, at each step of each call: the
\* buddy of the model is the offset ^ size of the code.
THEOREM BlocksStayAligned == Spec => []BlocksAligned
<1>1. Init => BlocksAligned
  BY Sizes, OrderAssumption DEF Init, BlocksAligned, SizeOf, Orders
<1> QED
  BY <1>1, AlignedNext, AllocatorInvariant, PTL DEF Spec

-----------------------------------------------------------------------------
\* The allocated blocks, and their bytes told apart by the block.
Allocated    == {o \in DOMAIN blocks : blocks[o].allocated}
BytesOf(o)   == {o} \X (1..SizeOf(o))
AllBytes     == UNION {BytesOf(o) : o \in Allocated}

\* There are finitely many blocks, and a block has as many bytes as its size.
LEMMA FiniteBytes ==
    ASSUME IInv
    PROVE  /\ IsFiniteSet(Allocated) /\ IsFiniteSet(AllBytes)
           /\ \A o \in DOMAIN blocks :
                /\ SizeOf(o) \in Nat
                /\ IsFiniteSet(BytesOf(o)) /\ Cardinality(BytesOf(o)) = SizeOf(o)
<1>1. IsFiniteSet(Offsets)
  BY Sizes, FS_Interval DEF Offsets
<1>2. Allocated \subseteq Offsets
  BY Zenon DEF IInv, TypeOK, Allocated
<1>3. \A o \in DOMAIN blocks : SizeOf(o) \in Nat /\ SizeOf(o) <= PoolSize
  <2> TAKE o \in DOMAIN blocks
  <2>1. o \in Nat /\ SizeOf(o) \in Nat /\ PoolSize \in Nat
    BY Sizes DEF IInv, TypeOK, Block, Offsets, SizeOf
  <2>2. o + SizeOf(o) <= PoolSize
    BY Zenon DEF IInv, BlocksTilePool
  <2> QED
    BY <2>1, <2>2
<1>4. IsFiniteSet(Offsets \X (1..PoolSize))
  <2>1. IsFiniteSet(1..PoolSize)
    BY Sizes, FS_Interval
  <2> QED
    BY <1>1, <2>1, FS_Product, Zenon
<1>5. AllBytes \subseteq Offsets \X (1..PoolSize)
  <2> SUFFICES ASSUME NEW o \in Allocated, NEW x \in BytesOf(o)
               PROVE  x \in Offsets \X (1..PoolSize)
    BY Zenon DEF AllBytes
  <2>1. PICK i \in 1..SizeOf(o) : x = <<o, i>>
    BY DEF BytesOf
  <2>2. o \in Offsets /\ o \in DOMAIN blocks
    BY <1>2, Zenon DEF Allocated
  <2>3. i \in 1..PoolSize
    BY <1>3, <2>2, Sizes
  <2> QED
    BY <2>1, <2>2, <2>3, Zenon
<1>6. ASSUME NEW o \in DOMAIN blocks
      PROVE  IsFiniteSet(BytesOf(o)) /\ Cardinality(BytesOf(o)) = SizeOf(o)
  <2>1. IsFiniteSet({o}) /\ Cardinality({o}) = 1
    BY FS_Singleton, Zenon
  <2>2. IsFiniteSet(1..SizeOf(o)) /\ Cardinality(1..SizeOf(o)) = SizeOf(o)
    BY <1>3, FS_Interval
  <2>3. /\ IsFiniteSet({o} \X (1..SizeOf(o)))
        /\ Cardinality({o} \X (1..SizeOf(o))) = Cardinality({o}) * Cardinality(1..SizeOf(o))
    BY <2>1, <2>2, FS_Product, Zenon
  <2>4. 1 * SizeOf(o) = SizeOf(o)
    BY <1>3
  <2> QED
    BY <2>1, <2>2, <2>3, <2>4, Zenon DEF BytesOf
<1> QED
  BY <1>1, <1>2, <1>3, <1>4, <1>5, <1>6, FS_Subset, Zenon

\* Sets that differ by a part are counted apart.
LEMMA CountApart ==
    ASSUME NEW A, NEW P, IsFiniteSet(A), IsFiniteSet(P), A \cap P = {}
    PROVE  /\ Cardinality(A \cup P) = Cardinality(A) + Cardinality(P)
           /\ Cardinality(A) \in Nat /\ Cardinality(P) \in Nat
<1>1. Cardinality(A) \in Nat /\ Cardinality(P) \in Nat
  BY FS_CardinalityType, Zenon
<1>2. Cardinality(A \cup P) = Cardinality(A) + Cardinality(P) - Cardinality(A \cap P)
  BY FS_Union, Zenon
<1>3. Cardinality(A \cap P) = 0
  BY FS_EmptySet, Zenon
<1> QED
  BY <1>1, <1>2, <1>3

\* Blocks are counted apart, and so are their bytes.
LEMMA OneBlockMore ==
    ASSUME IInv, NEW o \in DOMAIN blocks, NEW A, A \subseteq DOMAIN blocks, o \notin A,
           IsFiniteSet(A), NEW B, B = UNION {BytesOf(p) : p \in A}, IsFiniteSet(B)
    PROVE  /\ Cardinality(A \cup {o}) = Cardinality(A) + 1
           /\ Cardinality(B \cup BytesOf(o)) = Cardinality(B) + SizeOf(o)
           /\ Cardinality(A) \in Nat /\ Cardinality(B) \in Nat
<1>1. A \cap {o} = {} /\ IsFiniteSet({o}) /\ Cardinality({o}) = 1
  BY FS_Singleton, Zenon
<1>2. B \cap BytesOf(o) = {}
  BY DEF BytesOf
<1>3. Cardinality(A \cup {o}) = Cardinality(A) + 1 /\ Cardinality(A) \in Nat
  BY <1>1, CountApart, Zenon
<1>4. IsFiniteSet(BytesOf(o)) /\ Cardinality(BytesOf(o)) = SizeOf(o)
  BY FiniteBytes, Zenon
<1>5. Cardinality(B \cup BytesOf(o)) = Cardinality(B) + Cardinality(BytesOf(o)) /\ Cardinality(B) \in Nat
  BY <1>2, <1>4, CountApart, Zenon
<1> QED
  BY <1>3, <1>4, <1>5, Zenon

\* The counters are exact as long as marking is what counts.
LEMMA CountersNext == IInv /\ IInv' /\ CountersExact /\ [Next]_vars => CountersExact'
<1> SUFFICES ASSUME IInv, IInv', CountersExact, [Next]_vars PROVE CountersExact'
  BY Zenon
<1>0. /\ num_allocations = Cardinality(Allocated) /\ allocated_bytes = Cardinality(AllBytes)
      /\ CountersExact' <=> /\ num_allocations' = Cardinality(Allocated')
                            /\ allocated_bytes' = Cardinality(AllBytes')
  BY Zenon DEF CountersExact, Allocated, AllBytes, BytesOf
<1>1. ASSUME Allocated' = Allocated, \A o \in Allocated : blocks'[o] = blocks[o],
             UNCHANGED <<allocated_bytes, num_allocations>>
      PROVE  CountersExact'
  <2>1. \A o \in Allocated : BytesOf(o)' = BytesOf(o)
    BY <1>1, Zenon DEF BytesOf, SizeOf
  <2>2. AllBytes' = AllBytes
    BY <1>1, <2>1, Zenon DEF AllBytes
  <2> QED
    BY <1>0, <1>1, <2>2, Zenon
<1>2. ASSUME NEW t \in Threads, SplitStep(t) PROVE CountersExact'
  <2>1. PICK o \in DOMAIN blocks, k \in Orders :
             /\ ~blocks[o].allocated /\ o + SizeAt[k] \notin DOMAIN blocks
             /\ DOMAIN blocks' = DOMAIN blocks \cup {o + SizeAt[k]}
             /\ blocks'[o] = [order |-> k, allocated |-> FALSE]
             /\ blocks'[o + SizeAt[k]] = [order |-> k, allocated |-> FALSE]
             /\ \A x \in DOMAIN blocks \ {o} : blocks'[x] = blocks[x]
    BY <1>2, SplitBlocks, Zenon
  <2>2. Allocated' = Allocated /\ \A x \in Allocated : blocks'[x] = blocks[x]
    BY <2>1 DEF Allocated
  <2> QED
    BY <1>1, <1>2, <2>2, Zenon DEF SplitStep
<1>3. ASSUME NEW t \in Threads, MergeStep(t) PROVE CountersExact'
  <2>1. PICK o, b, lo, hi, k :
           /\ {o, b, lo, hi} \subseteq DOMAIN blocks /\ k \in Orders
           /\ k + 1 \in Orders /\ SizeAt[k + 1] = 2 * SizeAt[k]
           /\ InHand = {o} /\ InHand' = {lo} /\ b = BuddyOf(o, k)
           /\ {lo, hi} = {o, b} /\ lo < hi /\ o \in Nat /\ b \in Nat
           /\ blocks[o].order = k /\ ~blocks[o].allocated
           /\ blocks[b].order = k /\ ~blocks[b].allocated
           /\ DOMAIN blocks' = DOMAIN blocks \ {hi}
           /\ blocks'[lo] = [order |-> k + 1, allocated |-> FALSE]
           /\ \A x \in DOMAIN blocks \ {lo, hi} : blocks'[x] = blocks[x]
    BY <1>3, MergeBlocks, Zenon
  <2>2. ~blocks[lo].allocated /\ ~blocks[hi].allocated /\ ~blocks'[lo].allocated
    BY <2>1
  <2>3. Allocated' = Allocated /\ \A x \in Allocated : blocks'[x] = blocks[x]
    BY <2>1, <2>2, Zenon DEF Allocated
  <2> QED
    BY <1>1, <1>3, <2>3, Zenon DEF MergeStep
<1>4. ASSUME NEW t \in Threads, NEW o, NEW d,
             \/ AllocateEnd(t) /\ o = call[t].offset /\ d = 1
             \/ \E h \in handles : FreeBegin(t, h) /\ o = h.offset /\ d = -1
      PROVE  CountersExact'
  <2>1. /\ o \in DOMAIN blocks /\ DOMAIN blocks' = DOMAIN blocks
        /\ d \in {1, -1}
        /\ d = 1 => /\ ~blocks[o].allocated
                    /\ blocks'[o] = [order |-> blocks[o].order, allocated |-> TRUE]
        /\ d = -1 => /\ blocks[o].allocated
                     /\ blocks'[o] = [order |-> blocks[o].order, allocated |-> FALSE]
        /\ \A x \in DOMAIN blocks : x # o => blocks'[x] = blocks[x]
        /\ \A x \in DOMAIN blocks : blocks'[x].order = blocks[x].order
        /\ Account(o, d)
    BY <1>4, MarkBlocks, ZenonT(30)
  <2>2. \A x \in DOMAIN blocks : BytesOf(x)' = BytesOf(x)
    BY <2>1, Zenon DEF BytesOf, SizeOf
  <2>3. /\ IsFiniteSet(Allocated) /\ IsFiniteSet(AllBytes) /\ SizeOf(o) \in Nat
        /\ IsFiniteSet(BytesOf(o)) /\ Cardinality(BytesOf(o)) = SizeOf(o)
    BY <2>1, FiniteBytes, Zenon
  <2>4. /\ Allocated \subseteq DOMAIN blocks /\ Allocated' \subseteq DOMAIN blocks
        /\ AllBytes = UNION {BytesOf(x) : x \in Allocated}
        /\ AllBytes' = UNION {BytesOf(x) : x \in Allocated'}
    BY <2>1, <2>2 DEF AllBytes, Allocated
  <2>6. CASE d = 1
    <3>1. o \notin Allocated /\ Allocated' = Allocated \cup {o}
      BY <2>1, <2>6 DEF Allocated
    <3>2. AllBytes' = AllBytes \cup BytesOf(o)
      BY <2>1, <2>2, <3>1 DEF AllBytes, Allocated
    <3>3. /\ Cardinality(Allocated \cup {o}) = Cardinality(Allocated) + 1
          /\ Cardinality(AllBytes \cup BytesOf(o)) = Cardinality(AllBytes) + SizeOf(o)
          /\ Cardinality(AllBytes) \in Nat
      BY <2>1, <2>3, <2>4, <3>1, OneBlockMore, Zenon
    <3>4. num_allocations' = num_allocations + 1 /\ allocated_bytes' = allocated_bytes + SizeOf(o)
      BY <2>1, <2>3, <2>6 DEF Account
    <3> QED
      BY <1>0, <3>1, <3>2, <3>3, <3>4, Zenon
  <2>7. CASE d = -1
    <3>1. o \notin Allocated' /\ Allocated = Allocated' \cup {o}
      BY <2>1, <2>7 DEF Allocated
    <3>2. AllBytes = AllBytes' \cup BytesOf(o)
      BY <2>1, <2>2, <3>1 DEF AllBytes, Allocated
    <3>3. /\ Cardinality(Allocated' \cup {o}) = Cardinality(Allocated') + 1
          /\ Cardinality(AllBytes' \cup BytesOf(o)) = Cardinality(AllBytes') + SizeOf(o)
          /\ Cardinality(AllBytes') \in Nat /\ Cardinality(Allocated') \in Nat
      <4>1. IsFiniteSet(Allocated') /\ IsFiniteSet(AllBytes')
        BY <2>3, <3>1, <3>2, FS_Subset
      <4> QED
        BY <4>1, <2>1, <2>4, <3>1, OneBlockMore, Zenon
    <3>4. num_allocations' = num_allocations - 1 /\ allocated_bytes' = allocated_bytes - SizeOf(o)
      BY <1>0, <2>1, <2>3, <2>7, FS_CardinalityType DEF Account
    <3>5. /\ Cardinality(Allocated) = Cardinality(Allocated') + 1
          /\ Cardinality(AllBytes) = Cardinality(AllBytes') + SizeOf(o)
      BY <3>1, <3>2, <3>3, ZenonT(60)
    <3>6. num_allocations' = Cardinality(Allocated') /\ allocated_bytes' = Cardinality(AllBytes')
      BY <1>0, <2>3, <3>3, <3>4, <3>5
    <3> QED
      BY <1>0, <3>6, Zenon
  <2> QED
    BY <2>1, <2>6, <2>7, Zenon
<1>5. ASSUME blocks' = blocks, UNCHANGED <<allocated_bytes, num_allocations>>
      PROVE  CountersExact'
  BY <1>1, <1>5, Zenon DEF Allocated
<1> QED
  BY <1>2, <1>3, <1>4, <1>5, SameBlocks, Zenon

\* The counters that get_stats reports are exact, at each step of each call.
THEOREM CountersStayExact == Spec => []CountersExact
<1>1. Init => CountersExact
  <2> SUFFICES ASSUME Init PROVE CountersExact
    BY Zenon
  <2>1. {o \in DOMAIN blocks : blocks[o].allocated} = {}
    BY Zenon DEF Init
  <2> QED
    BY <2>1, FS_EmptySet, Zenon DEF Init, CountersExact
<1> QED
  BY <1>1, CountersNext, AllocatorInvariant, PTL DEF Spec

-----------------------------------------------------------------------------
\* _coalesce leaves nothing to merge: outside the loops of the lock's holder no
\* free block has a free buddy of its own size.
NoFreeBuddies ==
    \A o, b \in DOMAIN blocks \ InHand :
        ~ /\ blocks[o].order < MaxOrder /\ b = BuddyOf(o, blocks[o].order)
          /\ blocks[b].order = blocks[o].order
          /\ ~blocks[o].allocated /\ ~blocks[b].allocated

\* A split sets apart two buddies of which one is in hand; CoalesceEnd lists a
\* block only when it has no free buddy.
LEMMA MergedNext == IInv /\ BlocksAligned /\ NoFreeBuddies /\ [Next]_vars => NoFreeBuddies'
<1> SUFFICES ASSUME IInv, BlocksAligned, NoFreeBuddies, [Next]_vars PROVE NoFreeBuddies'
  BY Zenon
<1>0. \A x \in DOMAIN blocks : /\ x \in Nat /\ blocks[x].order \in Orders
                              /\ x % SizeAt[blocks[x].order] = 0
  BY Sizes DEF IInv, TypeOK, Block, Offsets, BlocksAligned, SizeOf
<1>1. ASSUME NEW D, DOMAIN blocks' \ InHand' \subseteq DOMAIN blocks \ InHand,
             \A x \in DOMAIN blocks' \ InHand' : blocks'[x] = blocks[x]
      PROVE  NoFreeBuddies'
  <2> SUFFICES ASSUME NEW x \in DOMAIN blocks' \ InHand', NEW y \in DOMAIN blocks' \ InHand',
                      blocks'[x].order < MaxOrder, y = BuddyOf(x, blocks'[x].order),
                      blocks'[y].order = blocks'[x].order,
                      ~blocks'[x].allocated, ~blocks'[y].allocated
               PROVE  FALSE
    BY Zenon DEF NoFreeBuddies, BuddyOf
  <2>1. /\ x \in DOMAIN blocks \ InHand /\ y \in DOMAIN blocks \ InHand
        /\ blocks'[x] = blocks[x] /\ blocks'[y] = blocks[y]
    BY <1>1, Zenon
  <2> QED
    BY <2>1, Zenon DEF NoFreeBuddies
<1>2. ASSUME NEW t \in Threads, SplitStep(t) PROVE NoFreeBuddies'
  <2>1. PICK o \in DOMAIN blocks, k \in Orders :
             /\ k + 1 \in Orders /\ SizeAt[k + 1] = 2 * SizeAt[k]
             /\ InHand = {o} /\ InHand' = {o} /\ o \in Nat
             /\ blocks[o].order = k + 1 /\ ~blocks[o].allocated
             /\ o + SizeAt[k] \notin DOMAIN blocks
             /\ DOMAIN blocks' = DOMAIN blocks \cup {o + SizeAt[k]}
             /\ blocks'[o] = [order |-> k, allocated |-> FALSE]
             /\ blocks'[o + SizeAt[k]] = [order |-> k, allocated |-> FALSE]
             /\ \A x \in DOMAIN blocks \ {o} : blocks'[x] = blocks[x]
    BY <1>2, SplitBlocks, Zenon
  <2> DEFINE s == SizeAt[k]
             d == SizeAt[k + 1]
             u == o + SizeAt[k]
  <2>2. s \in Nat \ {0} /\ d = 2 * s /\ o % d = 0 /\ o \in Nat
    BY <1>0, <2>1, Sizes, Zenon
  <2>3. u = o + s
    BY Zenon
  <2> HIDE DEF s, d, u
  <2>4. /\ o % s = 0 /\ (o \div s) % 2 = 0
        /\ (o + s) % s = 0 /\ ((o + s) \div s) % 2 = 1
    BY <2>2, HalvesAligned, ZenonT(60)
  <2>5. o % SizeAt[k] = 0 /\ BuddyOf(o, k) = u
    BY <2>3, <2>4, Zenon DEF s, BuddyOf
  <2>6. BuddyOf(u, k) = o
    BY <2>1, <2>5, BuddyFacts, ZenonT(60)
  <2> SUFFICES ASSUME NEW x \in DOMAIN blocks' \ InHand', NEW y \in DOMAIN blocks' \ InHand',
                      blocks'[x].order < MaxOrder, y = BuddyOf(x, blocks'[x].order),
                      blocks'[y].order = blocks'[x].order,
                      ~blocks'[x].allocated, ~blocks'[y].allocated
               PROVE  FALSE
    BY Zenon DEF NoFreeBuddies, BuddyOf
  <2>7. /\ x \in (DOMAIN blocks \cup {u}) \ {o} /\ y \in (DOMAIN blocks \cup {u}) \ {o}
        /\ blocks'[u].order = k
    BY <2>1 DEF u
  <2>8. CASE x = u
    BY <2>6, <2>7, <2>8, ZenonT(60)
  <2>9. CASE y = u /\ x # u
    <3>1. x \in Nat /\ x % SizeAt[k] = 0 /\ u = BuddyOf(x, k)
      <4>1. /\ x \in DOMAIN blocks /\ blocks'[x] = blocks[x]
            /\ blocks'[x].order = k
        BY <2>1, <2>7, <2>9, Zenon
      <4> QED
        BY <1>0, <2>9, <4>1, ZenonT(60)
    <3>2. BuddyOf(u, k) = x
      BY <2>1, <3>1, BuddyFacts, ZenonT(60)
    <3> QED
      BY <2>6, <2>7, <3>2, Zenon
  <2>10. CASE x # u /\ y # u
    BY <2>1, <2>7, <2>10, Zenon DEF NoFreeBuddies
  <2> QED
    BY <2>8, <2>9, <2>10, Zenon
<1>3. ASSUME NEW t \in Threads, MergeStep(t) PROVE NoFreeBuddies'
  <2>1. PICK o, b, lo, hi, k :
           /\ {o, b, lo, hi} \subseteq DOMAIN blocks /\ k \in Orders
           /\ k + 1 \in Orders /\ SizeAt[k + 1] = 2 * SizeAt[k]
           /\ InHand = {o} /\ InHand' = {lo} /\ b = BuddyOf(o, k)
           /\ {lo, hi} = {o, b} /\ lo < hi /\ o \in Nat /\ b \in Nat
           /\ blocks[o].order = k /\ ~blocks[o].allocated
           /\ blocks[b].order = k /\ ~blocks[b].allocated
           /\ DOMAIN blocks' = DOMAIN blocks \ {hi}
           /\ blocks'[lo] = [order |-> k + 1, allocated |-> FALSE]
           /\ \A x \in DOMAIN blocks \ {lo, hi} : blocks'[x] = blocks[x]
    BY <1>3, MergeBlocks, Zenon
  <2>2. \A x \in DOMAIN blocks' \ InHand' : x \in DOMAIN blocks \ {lo, hi} /\ x # o
    BY <2>1, Zenon
  <2> QED
    BY <1>1, <2>1, <2>2, Zenon
<1>4. ASSUME NEW t \in Threads, AllocateEnd(t) PROVE NoFreeBuddies'
  <2>1. PICK o, d : AllocateEnd(t) /\ o = call[t].offset /\ d = 1
    BY <1>4, Zenon
  <2>2. /\ o \in DOMAIN blocks /\ DOMAIN blocks' = DOMAIN blocks
        /\ blocks'[o] = [order |-> blocks[o].order, allocated |-> TRUE]
        /\ \A x \in DOMAIN blocks : x # o => blocks'[x] = blocks[x]
        /\ InHand = {o} /\ InHand' = {}
    <3>1. \/ AllocateEnd(t) /\ o = call[t].offset /\ d = 1
          \/ \E h \in handles : FreeBegin(t, h) /\ o = h.offset /\ d = -1
      BY <2>1, Zenon
    <3>2. /\ o \in DOMAIN blocks /\ DOMAIN blocks' = DOMAIN blocks
          /\ d = 1 => /\ ~blocks[o].allocated /\ InHand = {o} /\ InHand' = {}
                      /\ blocks'[o] = [order |-> blocks[o].order, allocated |-> TRUE]
          /\ \A x \in DOMAIN blocks : x # o => blocks'[x] = blocks[x]
      BY <3>1, MarkBlocks, ZenonT(30)
    <3> QED
      BY <2>1, <3>2, Zenon
  <2> SUFFICES ASSUME NEW x \in DOMAIN blocks' \ InHand', NEW y \in DOMAIN blocks' \ InHand',
                      blocks'[x].order < MaxOrder, y = BuddyOf(x, blocks'[x].order),
                      blocks'[y].order = blocks'[x].order,
                      ~blocks'[x].allocated, ~blocks'[y].allocated
               PROVE  FALSE
    BY Zenon DEF NoFreeBuddies, BuddyOf
  <2>3. x # o /\ y # o
    BY <2>2
  <2> QED
    BY <2>2, <2>3, Zenon DEF NoFreeBuddies
<1>5. ASSUME NEW t \in Threads, NEW h \in handles, FreeBegin(t, h) PROVE NoFreeBuddies'
  <2>1. PICK o, d : FreeBegin(t, h) /\ o = h.offset /\ d = -1
    BY <1>5, Zenon
  <2>2. /\ DOMAIN blocks' = DOMAIN blocks /\ InHand = {} /\ InHand' = {o}
        /\ \A x \in DOMAIN blocks : x # o => blocks'[x] = blocks[x]
    <3>1. \/ AllocateEnd(t) /\ o = call[t].offset /\ d = 1
          \/ \E g \in handles : FreeBegin(t, g) /\ o = g.offset /\ d = -1
      BY <2>1, Zenon
    <3> QED
      BY <2>1, <3>1, MarkBlocks, ZenonT(30)
  <2> QED
    BY <1>1, <2>2, Zenon
<1>6. ASSUME NEW t \in Threads, NEW n \in ReqSizes, AllocateBegin(t, n) PROVE NoFreeBuddies'
  <2>1. blocks' = blocks /\ InHand = {}
    BY <1>6, Zenon DEF AllocateBegin, InHand
  <2> QED
    BY <1>1, <2>1, Zenon
<1>7. ASSUME NEW t \in Threads, GetBlockInfo(t) PROVE NoFreeBuddies'
  <2>1. blocks' = blocks /\ InHand = {} /\ InHand' = {}
    BY <1>7, Zenon DEF GetBlockInfo, InHand
  <2> QED
    BY <1>1, <2>1, Zenon
<1>8. ASSUME NEW t \in Threads, CoalesceEnd(t) PROVE NoFreeBuddies'
  <2>1. PICK o : o = call[t].offset
    BY Zenon
  <2>2. /\ call[t].pc = "coalesce" /\ ~CanMerge(o) /\ blocks' = blocks /\ lock' = NoThread
    BY <1>8, <2>1, Zenon DEF CoalesceEnd
  <2>3. InHand = {o} /\ o \in DOMAIN blocks /\ InHand' = {} /\ o \in Nat
    BY <1>0, <2>1, <2>2, HolderFacts, Zenon DEF InHand
  <2> SUFFICES ASSUME NEW x \in DOMAIN blocks, NEW y \in DOMAIN blocks,
                      blocks[x].order < MaxOrder, y = BuddyOf(x, blocks[x].order),
                      blocks[y].order = blocks[x].order,
                      ~blocks[x].allocated, ~blocks[y].allocated
               PROVE  FALSE
    BY <2>2, <2>3 DEF NoFreeBuddies, BuddyOf
  <2>4. CASE x = o
    BY <2>2, <2>4, Zenon DEF CanMerge
  <2>5. CASE y = o
    <3>1. x \in Nat /\ blocks[x].order \in Orders /\ x % SizeAt[blocks[x].order] = 0
      BY <1>0, Zenon
    <3>2. BuddyOf(y, blocks[x].order) = x
      BY <3>1, BuddyFacts, ZenonT(60)
    <3> QED
      BY <2>2, <2>5, <3>2, Zenon DEF CanMerge
  <2>6. CASE x # o /\ y # o
    BY <2>3, <2>6, Zenon DEF NoFreeBuddies
  <2> QED
    BY <2>4, <2>5, <2>6, Zenon
<1>9. ASSUME UNCHANGED vars PROVE NoFreeBuddies'
  <2>1. blocks' = blocks /\ InHand' = InHand
    BY <1>9, Zenon DEF vars, InHand
  <2> QED
    BY <1>1, <2>1, Zenon
<1> QED
  BY <1>2, <1>3, <1>4, <1>5, <1>6, <1>7, <1>8, <1>9, Zenon DEF Next

\* A size is a whole number of any smaller size: each doubles the one below.
LEMMA SizesDivide ==
    ASSUME NEW j \in Orders, NEW k \in Orders, j <= k
    PROVE  \E q \in Nat : SizeAt[k] = SizeAt[j] * q
<1> DEFINE T == {m \in Orders : j <= m /\ ~ \E q \in Nat : SizeAt[m] = SizeAt[j] * q}
<1>1. SUFFICES ASSUME T # {} PROVE FALSE
  BY Zenon
<1>2. T \subseteq Nat
  BY OrderAssumption DEF Orders
<1>3. PICK m \in T : \A n \in T : m <= n
  <2> HIDE DEF T
  <2> QED
    BY <1>1, <1>2, Least, Zenon
<1>4. SizeAt[j] \in Nat /\ SizeAt[j] = SizeAt[j] * 1
  BY Sizes
<1>5. m # j
  BY <1>4, Zenon
<1>6. m - 1 \in Orders /\ j <= m - 1 /\ m - 1 \notin T /\ m > 0
  BY <1>3, <1>5, OrderAssumption DEF Orders
<1>7. PICK q \in Nat : SizeAt[m - 1] = SizeAt[j] * q
  BY <1>6, Zenon
<1>8. SizeAt[m] = 2 * SizeAt[m - 1]
  BY <1>6, SizeAssumption, Zenon DEF Orders
<1>9. SizeAt[m] = SizeAt[j] * (2 * q) /\ 2 * q \in Nat
  BY <1>4, <1>7, <1>8
<1> QED
  BY <1>9, Zenon

\* Aligned regions are nested or apart: one that meets a region no smaller
\* lies inside it.
LEMMA Nested ==
    ASSUME NEW j \in Orders, NEW k \in Orders, j <= k,
           NEW o \in Nat, o % SizeAt[j] = 0,
           NEW a \in Nat, a % SizeAt[k] = 0,
           o < a + SizeAt[k], a < o + SizeAt[j]
    PROVE  a <= o /\ o + SizeAt[j] <= a + SizeAt[k]
<1> DEFINE s == SizeAt[j]
           e == SizeAt[k]
<1>1. s \in Nat \ {0} /\ e \in Nat \ {0}
  BY Sizes, Zenon
<1>2. PICK q \in Nat : e = s * q
  BY SizesDivide, Zenon
<1>0. o % s = 0 /\ a % e = 0
  BY Zenon
<1> HIDE DEF s, e
<1>3. PICK r \in Nat : o = s * r
  BY <1>0, <1>1, ModMultiple, ZenonT(60)
<1>4. PICK p \in Nat : a = e * p
  BY <1>0, <1>1, ModMultiple, ZenonT(60)
<1>5. a = s * (q * p) /\ q * p \in Nat
  BY <1>1, <1>2, <1>4
<1>6. PICK w \in Nat : w = q * p
  BY <1>5, Zenon
<1>7. o < a + e /\ a < o + s
  BY Zenon DEF s, e
<1>8. a = s * w
  BY <1>5, <1>6, Zenon
<1>9. s * r < s * (w + q) /\ s * w < s * (r + 1)
  BY <1>1, <1>2, <1>3, <1>7, <1>8
<1>10. ASSUME NEW x \in Nat, NEW y \in Nat, s * x < s * y PROVE x < y
  BY <1>1, <1>10
<1>11. r < w + q /\ w < r + 1
  <2>1. w + q \in Nat /\ r + 1 \in Nat
    OBVIOUS
  <2> QED
    BY <1>9, <1>10, <2>1, Zenon
<1>12. s * w <= s * r /\ s * (r + 1) <= s * (w + q)
  BY <1>1, <1>11
<1>13. s * (r + 1) = o + s /\ s * (w + q) = a + e
  BY <1>1, <1>2, <1>3, <1>8
<1> QED
  BY <1>3, <1>8, <1>12, <1>13, Zenon DEF s, e

\* The argument of RefusalIsHonest.  Were a region of order k free of allocated
\* blocks, take the smallest block that meets it.  It is on a free list, so its
\* order m is below k, and its buddy lies in the region too.  What covers the
\* buddy is free and no smaller, so it is the buddy itself, whole and free, and
\* _coalesce would have merged the two.
LEMMA HonestState == IInv /\ BlocksAligned /\ NoFreeBuddies => RefusalIsHonest
<1> SUFFICES ASSUME IInv, BlocksAligned, NoFreeBuddies, lock = NoThread,
                    NEW k \in Orders, \A j \in k..MaxOrder : free_lists[j] = <<>>,
                    NEW a \in Offsets, a % SizeAt[k] = 0,
                    \A o \in DOMAIN blocks : o < a + SizeAt[k] /\ a < o + SizeOf(o)
                                               => ~blocks[o].allocated
             PROVE  FALSE
  BY Zenon DEF RefusalIsHonest
<1>1. \A x \in DOMAIN blocks : /\ x \in Nat /\ blocks[x].order \in Orders
                              /\ x % SizeAt[blocks[x].order] = 0
                              /\ SizeOf(x) = SizeAt[blocks[x].order]
  BY Sizes DEF IInv, TypeOK, Block, Offsets, BlocksAligned, SizeOf
<1>2. a \in Nat /\ SizeAt[k] \in Nat \ {0} /\ a < PoolSize /\ PoolSize \in Nat \ {0}
  BY Sizes DEF Offsets, PoolSize, Orders
<1>3. InHand = {}
  BY Zenon DEF InHand
<1>4. a + SizeAt[k] <= PoolSize
  <2>1. /\ MaxOrder \in Orders /\ k <= MaxOrder /\ 0 \in Nat
        /\ a < 0 + SizeAt[MaxOrder] /\ 0 < a + SizeAt[k]
    BY <1>2, OrderAssumption DEF Orders, PoolSize
  <2>2. 0 % SizeAt[MaxOrder] = 0
    BY <1>2 DEF PoolSize
  <2>3. 0 <= a /\ a + SizeAt[k] <= 0 + SizeAt[MaxOrder]
    BY <1>2, <2>1, <2>2, Nested, ZenonT(60)
  <2> QED
    BY <1>2, <2>3 DEF PoolSize
<1> DEFINE Meets(x) == x < a + SizeAt[k] /\ a < x + SizeOf(x)
           T == {j \in Orders : \E x \in DOMAIN blocks : blocks[x].order = j /\ Meets(x)}
<1>5. T # {}
  <2>1. PICK x \in DOMAIN blocks : x <= a /\ a < x + SizeOf(x)
    BY Zenon DEF IInv, BlocksTilePool
  <2>2. Meets(x)
    BY <1>1, <1>2, <2>1
  <2> QED
    BY <1>1, <2>2, Zenon
<1>6. PICK m \in T : \A n \in T : m <= n
  <2>1. T \subseteq Nat
    BY OrderAssumption DEF Orders
  <2> HIDE DEF T
  <2> QED
    BY <1>5, <2>1, Least, Zenon
<1>7. PICK o \in DOMAIN blocks : blocks[o].order = m /\ Meets(o)
  BY Zenon
<1>8. \A x \in DOMAIN blocks : Meets(x) => ~blocks[x].allocated /\ m <= blocks[x].order
  BY <1>1, <1>6, Zenon
<1> HIDE DEF T
<1>9. /\ m \in Orders /\ m \in Nat /\ o \in Nat /\ o % SizeAt[m] = 0 /\ SizeOf(o) = SizeAt[m]
      /\ SizeAt[m] \in Nat \ {0} /\ o < a + SizeAt[k] /\ a < o + SizeAt[m] /\ ~blocks[o].allocated
  BY <1>1, <1>7, <1>8, Sizes, OrderAssumption DEF Orders
<1>10. m < k
  <2>1. PICK i \in 1..Len(free_lists[m]) : free_lists[m][i] = o
    BY <1>3, <1>7, <1>9, Zenon DEF IInv, FreeListsExact
  <2>2. free_lists[m] # <<>>
    BY <2>1
  <2>3. m \notin k..MaxOrder
    BY <2>2, Zenon
  <2> QED
    BY <1>9, <2>3, OrderAssumption DEF Orders
<1>11. m + 1 \in Orders /\ m + 1 <= k /\ SizeAt[m + 1] = 2 * SizeAt[m] /\ m < MaxOrder
  BY <1>9, <1>10, OrderAssumption, SizeAssumption DEF Orders
<1> DEFINE s == SizeAt[m]
           b == BuddyOf(o, m)
<1>12. /\ b \in Nat /\ b % s = 0
       /\ \/ b = o + s /\ o % (2 * s) = 0
          \/ o = b + s /\ b % (2 * s) = 0
  <2> HIDE DEF b
  <2>1. b = BuddyOf(o, m)
    BY Zenon DEF b
  <2> QED
    BY <1>9, <2>1, BuddyFacts, ZenonT(60)
<1> HIDE DEF b, s
<1>13. /\ s = SizeAt[m] /\ s \in Nat \ {0} /\ SizeAt[m + 1] = 2 * s
       /\ b = BuddyOf(o, m)
  BY <1>9, <1>11, Zenon DEF s, b
<1>14. PICK l \in Nat : /\ l % SizeAt[m + 1] = 0 /\ l \in {o, b}
                        /\ o \in {l, l + s} /\ b \in {l, l + s} /\ o # b
  <2>1. CASE b = o + s /\ o % (2 * s) = 0
    <3>1. o % SizeAt[m + 1] = 0
      BY <1>13, <2>1, ZenonT(60)
    <3>2. o # b
      BY <1>9, <1>13, <2>1
    <3> QED
      BY <1>9, <2>1, <3>1, <3>2, ZenonT(60)
  <2>2. CASE o = b + s /\ b % (2 * s) = 0
    <3>1. b % SizeAt[m + 1] = 0
      BY <1>13, <2>2, ZenonT(60)
    <3>2. o # b
      BY <1>12, <1>13, <2>2
    <3> QED
      BY <1>12, <2>2, <3>1, <3>2, ZenonT(60)
  <2> QED
    BY <1>12, <2>1, <2>2, Zenon
<1>15. l \in {o, b} /\ o \in {l, l + s} /\ b \in {l, l + s}
  BY <1>14, ZenonT(60)
<1>16. /\ o \in Nat /\ b \in Nat /\ SizeAt[m] = s /\ o < a + SizeAt[k] /\ a < o + s
  BY <1>9, <1>12, <1>13, ZenonT(60)
<1>17. /\ l <= o /\ o + s <= l + SizeAt[m + 1] /\ SizeAt[m + 1] \in Nat
       /\ l <= b /\ b < l + SizeAt[m + 1]
  <2>1. l \in Nat /\ s \in Nat \ {0} /\ o \in Nat /\ b \in Nat
    BY <1>13, <1>14, <1>16, Zenon
  <2>2. l <= o /\ o + s <= l + 2 * s
    BY <1>15, <2>1
  <2>3. l <= b /\ b < l + 2 * s
    BY <1>15, <2>1
  <2>4. 2 * s \in Nat
    BY <2>1
  <2>5. SizeAt[m + 1] = 2 * s
    BY <1>13, Zenon
  <2> QED
    BY <2>2, <2>3, <2>4, <2>5, Zenon
<1>18. l < a + SizeAt[k] /\ a < l + SizeAt[m + 1]
  <2>1. a \in Nat /\ SizeAt[k] \in Nat /\ s \in Nat
    BY <1>2, <1>13, Zenon
  <2> QED
    BY <1>16, <1>17, <2>1
<1>19. a <= l /\ l + SizeAt[m + 1] <= a + SizeAt[k]
  BY <1>2, <1>11, <1>14, <1>18, Nested, ZenonT(60)
<1>20. a <= b /\ b < a + SizeAt[k] /\ b \in Offsets
  <2>1. l <= b /\ b < l + SizeAt[m + 1]
    BY <1>17, Zenon
  <2>2. a \in Nat /\ SizeAt[k] \in Nat /\ PoolSize \in Nat /\ SizeAt[m + 1] \in Nat
    BY <1>2, <1>13
  <2> QED
    BY <1>4, <1>16, <1>19, <2>1, <2>2 DEF Offsets
<1>21. PICK y \in DOMAIN blocks : y <= b /\ b < y + SizeOf(y)
  BY <1>20, Zenon DEF IInv, BlocksTilePool
<1> DEFINE n == blocks[y].order
<1>22. /\ y \in Nat /\ n \in Orders /\ y % SizeAt[n] = 0 /\ SizeOf(y) = SizeAt[n]
       /\ SizeAt[n] \in Nat \ {0} /\ n \in Nat
  BY <1>1, Sizes, OrderAssumption DEF Orders
<1>23. ~blocks[y].allocated /\ m <= n
  <2>1. Meets(y)
    BY <1>2, <1>12, <1>20, <1>21, <1>22
  <2> QED
    BY <1>8, <2>1, Zenon
<1> HIDE DEF n
<1>24. n = m
  <2> SUFFICES ASSUME n # m PROVE FALSE
    BY Zenon
  <2>1. m + 1 <= n
    BY <1>9, <1>22, <1>23
  <2>2. l < y + SizeAt[n] /\ y < l + SizeAt[m + 1]
    <3>1. l <= b /\ b < l + SizeAt[m + 1] /\ SizeAt[m + 1] \in Nat
      BY <1>17, Zenon
    <3>2. y \in Nat /\ SizeAt[n] \in Nat /\ SizeOf(y) = SizeAt[n]
      BY <1>22, Zenon
    <3> QED
      BY <1>16, <1>21, <3>1, <3>2
  <2>3. y <= l /\ l + SizeAt[m + 1] <= y + SizeAt[n]
    BY <1>11, <1>14, <1>22, <2>1, <2>2, Nested, ZenonT(60)
  <2>4. y <= o /\ o < y + SizeOf(y)
    <3>1. l <= o /\ o < l + SizeAt[m + 1] /\ SizeAt[m + 1] \in Nat
      <4>1. s \in Nat \ {0} /\ o \in Nat /\ l \in Nat
        BY <1>13, <1>14, <1>16, Zenon
      <4> QED
        BY <1>17, <4>1
    <3>2. y \in Nat /\ SizeAt[n] \in Nat /\ SizeOf(y) = SizeAt[n]
      BY <1>22, Zenon
    <3> QED
      BY <1>16, <2>3, <3>1, <3>2
  <2>5. y # o
    BY <1>7, Zenon DEF n
  <2>6. y < o => y + SizeOf(y) <= o
    BY Zenon DEF IInv, BlocksTilePool
  <2>7. y \in Nat /\ SizeOf(y) \in Nat
    BY <1>22, Zenon
  <2> QED
    BY <1>16, <2>4, <2>5, <2>6, <2>7
<1>25. y = b
  <2>1. b < y + SizeAt[m] /\ y < b + SizeAt[m]
    BY <1>12, <1>13, <1>21, <1>22, <1>24
  <2>2. m <= m /\ b % SizeAt[m] = 0 /\ y % SizeAt[m] = 0
    BY <1>9, <1>12, <1>13, <1>22, <1>24
  <2>3. b <= y /\ y + SizeAt[m] <= b + SizeAt[m]
    BY <1>9, <1>12, <1>22, <2>1, <2>2, Nested, ZenonT(60)
  <2> QED
    BY <1>12, <1>21, <1>22, <2>3
<1> QED
  BY <1>3, <1>7, <1>9, <1>11, <1>13, <1>23, <1>24, <1>25, Zenon DEF NoFreeBuddies, n

\* allocate returns None only when it has to, whatever calls came before: when
\* no list of a sufficient order has a block, no aligned region of that size is
\* free of allocated blocks.
THEOREM RefusalStaysHonest == Spec => []RefusalIsHonest
<1>1. Init => BlocksAligned /\ NoFreeBuddies
  <2> SUFFICES ASSUME Init PROVE BlocksAligned /\ NoFreeBuddies
    BY Zenon
  <2>1. /\ DOMAIN blocks = {0} /\ blocks[0] = [order |-> MaxOrder, allocated |-> FALSE]
        /\ SizeAt[MaxOrder] \in Nat \ {0}
    BY Sizes, OrderAssumption DEF Init, Orders
  <2>2. BlocksAligned
    BY <2>1 DEF BlocksAligned, SizeOf
  <2>3. NoFreeBuddies
    BY <2>1, OrderAssumption DEF NoFreeBuddies
  <2> QED
    BY <2>2, <2>3, Zenon
<1> QED
  BY <1>1, AllocatorInvariant, AlignedNext, MergedNext, HonestState, PTL DEF Spec
=============================================================================
