-------------------------- MODULE AdalnCacheProofs --------------------------
(***************************************************************************)
(* What AdalnCache promises, for every set of plans, slots, pages,         *)
(* schedules and checkpoints.  The inductive invariant IInv says which     *)
(* slots are whose, what they and the host's pages hold, and where the     *)
(* copies that are still under way will land; who is evicted does not      *)
(* matter for it.  Three more rest on it: HostCounts, the accounts of the  *)
(* host tier, which evicts groups and frees the plans nobody holds any     *)
(* more; Recent, the order in which the slab evicts; and Holds, which      *)
(* types what slots and pages hold.                                        *)
(***************************************************************************)
EXTENDS AdalnCache, CommonFacts, FiniteSetTheorems, FunctionTheorems, TLAPS

Types ==
    /\ slot \in [Plans -> Slots \cup {NoSlot}]
    /\ pending \in [Plans -> Slots \cup {NoSlot}]
    /\ free \in SUBSET Slots
    /\ shown \in [Slots -> Plans \cup {NoPlan}]
    /\ copies \in SUBSET [slot : Slots, pages : SUBSET Pages]
    /\ request \in Schedules \cup {<<>>}
    /\ phase \in {"idle", "copying", "projecting", "ready"}
    /\ page \in [Plans -> SUBSET Pages]
    /\ freePages \in SUBSET Pages
    /\ leaked \in BOOLEAN

\* Whose a slot is.
SlotsApart ==
    /\ \A p \in Plans : slot[p] \notin free /\ pending[p] \notin free
    /\ \A p, q \in Plans : slot[p] = slot[q] /\ slot[p] # NoSlot => p = q
    /\ \A p, q \in Plans : pending[p] = pending[q] /\ pending[p] # NoSlot => p = q
    /\ \A p, q \in Plans : slot[p] # NoSlot => slot[p] # pending[q]

SlotsAll ==
    ~leaked => \A s \in Slots : s \in free \/ \E p \in Plans : slot[p] = s \/ pending[p] = s

\* What lookup finds.
ShownRight ==
    /\ \A s \in Slots : shown[s] # NoPlan => slot[shown[s]] = s
    /\ \A p \in Plans : slot[p] # NoSlot => shown[slot[p]] = p

\* What slots and pages hold.
DataIn == data = [s \in Slots |-> data[s]] /\ mem = [i \in Pages |-> mem[i]]
DataRight == \A p \in Plans : slot[p] # NoSlot => data[slot[p]] = Of(p)
HostRight ==
    /\ \A p \in Plans : \A i \in page[p] : mem[i] = Of(p) /\ i \notin freePages
    /\ \A p, q \in Plans : p # q => page[p] \cap page[q] = {}

\* Where copies land.
CopiesApart == \A c \in copies : \A p \in Plans : slot[p] # c.slot

\* What a request that is being prepared has reserved, and what for.
Preparing ==
    /\ phase \in {"idle", "ready"} => \A p \in Plans : pending[p] = NoSlot
    /\ phase = "ready" => \A p \in Range(request) : slot[p] # NoSlot
    /\ phase \in {"copying", "projecting"} =>
         /\ request \in Schedules
         /\ \A p \in Range(request) : slot[p] # NoSlot \/ pending[p] # NoSlot
         /\ \A p \in Plans : pending[p] # NoSlot => slot[p] = NoSlot

Copying ==
    /\ phase = "projecting" => copies = {}
    /\ phase = "copying" =>
         /\ \A c \in copies : \E p \in Plans :
               pending[p] = c.slot /\ c.pages = page[p] /\ page[p] # {}
         /\ \A p \in Plans : pending[p] # NoSlot =>
               data[pending[p]] = Of(p) \/ \E c \in copies : c.slot = pending[p]

IInv == /\ Types /\ SlotsApart /\ SlotsAll /\ ShownRight /\ DataIn /\ DataRight
        /\ HostRight /\ CopiesApart /\ Preparing /\ Copying
-----------------------------------------------------------------------------
\* The plans of a schedule are plans: build() is only asked for known keys.
LEMMA SchedulePlans ==
    ASSUME NEW w \in Schedules
    PROVE  Range(w) \subseteq Plans
BY AdalnAssumption DEF Range

\* The cache as __init__ leaves it satisfies the inductive invariant.
LEMMA InitInv == Init => IInv
<1>. SUFFICES ASSUME Init PROVE IInv
  BY Zenon
<1>1. Types
  BY AdalnAssumption, Zenon DEF Init, Types, NoPending
<1>2. SlotsApart /\ SlotsAll /\ ShownRight
  BY AdalnAssumption, Zenon DEF Init, SlotsApart, SlotsAll, ShownRight, NoPending
<1>3. DataIn
  BY Zenon DEF Init, DataIn
<1>4. DataRight /\ HostRight /\ CopiesApart
  BY Zenon DEF Init, DataRight, HostRight, CopiesApart
<1>5. Preparing /\ Copying
  BY Zenon DEF Init, Preparing, Copying, NoPending
<1>. QED
  BY <1>1, <1>2, <1>3, <1>4, <1>5, Zenon DEF IInv

\* Evicting plans leaves the slots of the others, what lookup finds in them and
\* what they hold.  The slots it frees are nobody else's.
LEMMA EvictKeeps ==
    ASSUME IInv, NEW w \in Schedules, NEW V \in Victims(w), Evict(w, V), phase = "idle"
    PROVE  /\ V \subseteq Plans /\ V \cap Range(w) = {}
           /\ Pool(V) \subseteq Slots
           /\ slot' \in [Plans -> Slots \cup {NoSlot}]
           /\ shown' \in [Slots -> Plans \cup {NoPlan}]
           /\ \A p \in Plans : slot'[p] \notin Pool(V)
           /\ \A p \in Plans : slot'[p] # NoSlot => slot'[p] = slot[p]
           /\ \A p \in Plans \ V : slot'[p] = slot[p]
           /\ \A p, q \in Plans : slot'[p] = slot'[q] /\ slot'[p] # NoSlot => p = q
           /\ \A s \in Slots : s \notin Pool(V) /\ ~leaked => \E p \in Plans : slot'[p] = s
           /\ \A s \in Slots : shown'[s] # NoPlan => slot'[shown'[s]] = s
           /\ \A p \in Plans : slot'[p] # NoSlot => shown'[slot'[p]] = p
<1>. USE DEF Pool
<1>1. V \subseteq Plans /\ V \cap Range(w) = {} /\ \A p \in V : slot[p] # NoSlot
  BY Zenon DEF Victims, Evictable, Resident
<1>2. Types /\ SlotsApart /\ SlotsAll /\ ShownRight /\ \A p \in Plans : pending[p] = NoSlot
  BY Zenon DEF IInv, Preparing
<1>3. slot' = [p \in Plans |-> IF p \in V THEN NoSlot ELSE slot[p]]
  BY Zenon DEF Evict
<1>4. shown' = [s \in Slots |-> IF \E p \in V : slot[p] = s THEN NoPlan ELSE shown[s]]
  BY Zenon DEF Evict
<1>5. Pool(V) \subseteq Slots
  BY <1>1, <1>2, Zenon DEF Types
<1>6. slot' \in [Plans -> Slots \cup {NoSlot}] /\ shown' \in [Slots -> Plans \cup {NoPlan}]
  BY <1>2, <1>3, <1>4, Zenon DEF Types
<1>7. \A p \in Plans : slot'[p] \notin Pool(V)
  BY <1>1, <1>2, <1>3, <1>5, AdalnAssumption DEF Types, SlotsApart
<1>8. /\ \A p \in Plans : slot'[p] # NoSlot => slot'[p] = slot[p]
      /\ \A p \in Plans \ V : slot'[p] = slot[p]
      /\ \A p, q \in Plans : slot'[p] = slot'[q] /\ slot'[p] # NoSlot => p = q
  BY <1>1, <1>2, <1>3, Zenon DEF Types, SlotsApart
<1>9. \A s \in Slots : s \notin Pool(V) /\ ~leaked => \E p \in Plans : slot'[p] = s
  BY <1>1, <1>2, <1>3, AdalnAssumption DEF Types, SlotsAll
<1>10. ASSUME NEW s \in Slots, shown'[s] # NoPlan
       PROVE  slot'[shown'[s]] = s
  <2>1. shown'[s] = shown[s] /\ ~\E p \in V : slot[p] = s
    BY <1>4, <1>10, Zenon
  <2>2. slot[shown[s]] = s /\ shown[s] \in Plans
    BY <1>2, <1>10, <2>1, Zenon DEF Types, ShownRight
  <2>. QED
    BY <1>3, <2>1, <2>2, Zenon
<1>11. ASSUME NEW p \in Plans, slot'[p] # NoSlot
       PROVE  shown'[slot'[p]] = p
  <2>1. p \notin V /\ slot'[p] = slot[p] /\ slot[p] \in Slots
    BY <1>2, <1>3, <1>11, Zenon DEF Types
  <2>2. ~\E q \in V : slot[q] = slot[p]
    BY <1>1, <1>2, <2>1, <1>11, Zenon DEF SlotsApart
  <2>. QED
    BY <1>2, <1>4, <2>1, <2>2, <1>11, Zenon DEF ShownRight
<1>. QED
  BY <1>1, <1>5, <1>6, <1>7, <1>8, <1>9, <1>10, <1>11, Zenon
\* Reserving slots for the missing plans of a request.
LEMMA ReserveKeeps ==
    ASSUME IInv, NEW w \in Schedules, NEW V \in Victims(w), Evict(w, V), phase = "idle",
           NEW f \in Injection(Missing(w), Pool(V)),
           free' = Pool(V) \ Range(f), pending' = Reserved(f), UNCHANGED leaked
    PROVE  /\ SlotsApart' /\ SlotsAll' /\ ShownRight'
           /\ free' \in SUBSET Slots
           /\ pending' \in [Plans -> Slots \cup {NoSlot}]
           /\ \A p \in Plans : pending'[p] # NoSlot <=> p \in Missing(w)
           /\ \A p \in Missing(w) : p \in Plans /\ pending'[p] = f[p]
           /\ \A p \in Range(w) : slot'[p] # NoSlot \/ pending'[p] # NoSlot
           /\ \A p \in Plans : pending'[p] # NoSlot => slot'[p] = NoSlot
<1>. DEFINE M == Missing(w)
            P == Pool(V)
<1>1. M \subseteq Plans /\ \A p \in M : slot[p] = NoSlot
  BY SchedulePlans, Zenon DEF Missing
<1>2. /\ f \in [M -> P] /\ DOMAIN f = M
      /\ \A p, q \in M : f[p] = f[q] => p = q
  BY Zenon DEF Injection, IsInjective
<1>3. Range(f) = {f[p] : p \in M}
  BY <1>2, Zenon DEF Range
<1>4. pending' = [p \in Plans |-> IF p \in M THEN f[p] ELSE NoSlot]
  BY <1>2, Zenon DEF Reserved
<1>5. /\ P \subseteq Slots /\ slot' \in [Plans -> Slots \cup {NoSlot}]
      /\ \A p \in Plans : slot'[p] \notin P
      /\ \A p \in Plans : slot'[p] # NoSlot => slot'[p] = slot[p]
      /\ \A p \in Plans \ V : slot'[p] = slot[p]
      /\ \A p, q \in Plans : slot'[p] = slot'[q] /\ slot'[p] # NoSlot => p = q
      /\ \A s \in Slots : s \notin P /\ ~leaked => \E p \in Plans : slot'[p] = s
      /\ V \cap Range(w) = {}
  BY EvictKeeps, Zenon
<1>6. ShownRight'
  BY EvictKeeps, Zenon DEF ShownRight
<1>. HIDE DEF M, P
<1>7. free' \in SUBSET Slots /\ free' = P \ {f[p] : p \in M}
  BY <1>3, <1>5, Zenon DEF P
<1>8. \A p \in M : pending'[p] = f[p] /\ f[p] \in P /\ f[p] \in Slots /\ f[p] # NoSlot
  BY <1>1, <1>2, <1>4, <1>5, AdalnAssumption
<1>9. \A p \in Plans \ M : pending'[p] = NoSlot
  BY <1>4, Zenon
<1>10. pending' \in [Plans -> Slots \cup {NoSlot}]
  BY <1>4, <1>8, Zenon
<1>11. \A p \in Plans : pending'[p] # NoSlot => p \in M /\ pending'[p] \in P /\ slot'[p] = NoSlot
  BY <1>1, <1>5, <1>8, <1>9, Zenon
<1>12. SlotsApart'
  <2>1. \A p \in Plans : slot'[p] \notin free' /\ pending'[p] \notin free'
    BY <1>5, <1>7, <1>8, <1>9, AdalnAssumption
  <2>2. \A p, q \in Plans : pending'[p] = pending'[q] /\ pending'[p] # NoSlot => p = q
    BY <1>2, <1>8, <1>9, Zenon
  <2>3. \A p, q \in Plans : slot'[p] # NoSlot => slot'[p] # pending'[q]
    BY <1>5, <1>11, Zenon
  <2>. QED
    BY <1>5, <2>1, <2>2, <2>3, Zenon DEF SlotsApart
<1>13. SlotsAll'
  <2>. SUFFICES ASSUME ~leaked, NEW s \in Slots, s \notin free',
                       \A p \in Plans : slot'[p] # s
                PROVE  \E p \in Plans : pending'[p] = s
    BY Zenon DEF SlotsAll
  <2>1. s \in P
    BY <1>5, Zenon
  <2>2. PICK p \in M : s = f[p]
    BY <1>7, <2>1, Zenon
  <2>. QED
    BY <1>1, <1>8, <2>2, Zenon
<1>14. \A p \in Range(w) : slot'[p] # NoSlot \/ pending'[p] # NoSlot
  <2>. SUFFICES ASSUME NEW p \in Range(w), p \notin M PROVE slot'[p] # NoSlot
    BY <1>8, Zenon
  <2>1. slot[p] # NoSlot /\ p \in Plans /\ p \notin V
    BY <1>5, SchedulePlans, Zenon DEF Missing, M
  <2>. QED
    BY <1>5, <2>1, Zenon
<1>. QED
  BY <1>1, <1>6, <1>7, <1>8, <1>9, <1>10, <1>11, <1>12, <1>13, <1>14, Zenon DEF M
\* What a slot or a page should hold changes only with the checkpoint.
LEMMA HostKept ==
    ASSUME IInv, UNCHANGED <<page, mem, freePages, source>>
    PROVE  HostRight' /\ \A p \in Plans : Of(p)' = Of(p)
BY Zenon DEF IInv, HostRight, Of

\* _swap_in_from_host up to the fence, with its reservation, keeps the invariant.
LEMMA SwapInKeeps ==
    ASSUME IInv, NEW w \in Schedules, SwapIn(w)
    PROVE  IInv'
<1>1. /\ phase = "idle" /\ copies = {} /\ Missing(w) \subseteq Stored
      /\ request' = w /\ phase' = "copying"
      /\ UNCHANGED <<data, page, refs, groups, freePages, mem, source, leaked>>
  BY Zenon DEF SwapIn, Fenced, host
<1>a. PICK V \in Victims(w) : \E f \in Injection(Missing(w), Pool(V)) :
         /\ Evict(w, V) /\ free' = Pool(V) \ Range(f) /\ pending' = Reserved(f)
         /\ copies' = Enqueued(f)
  BY Zenon DEF SwapIn
<1>2. PICK f \in Injection(Missing(w), Pool(V)) :
         /\ Evict(w, V) /\ free' = Pool(V) \ Range(f) /\ pending' = Reserved(f)
         /\ copies' = Enqueued(f)
  BY <1>a, Zenon
<1>3. /\ SlotsApart' /\ SlotsAll' /\ ShownRight' /\ free' \in SUBSET Slots
      /\ pending' \in [Plans -> Slots \cup {NoSlot}]
      /\ \A p \in Plans : pending'[p] # NoSlot <=> p \in Missing(w)
      /\ \A p \in Missing(w) : p \in Plans /\ pending'[p] = f[p]
      /\ \A p \in Range(w) : slot'[p] # NoSlot \/ pending'[p] # NoSlot
      /\ \A p \in Plans : pending'[p] # NoSlot => slot'[p] = NoSlot
  BY <1>1, <1>2, ReserveKeeps, Zenon
<1>4. /\ slot' \in [Plans -> Slots \cup {NoSlot}] /\ shown' \in [Slots -> Plans \cup {NoPlan}]
      /\ Pool(V) \subseteq Slots /\ \A p \in Plans : slot'[p] \notin Pool(V)
      /\ \A p \in Plans : slot'[p] # NoSlot => slot'[p] = slot[p]
  BY <1>1, <1>2, EvictKeeps, Zenon
<1>5. DOMAIN f = Missing(w) /\ \A p \in Missing(w) : f[p] \in Pool(V)
  BY Zenon DEF Injection
<1>6. copies' = {[slot |-> f[p], pages |-> page[p]] : p \in Missing(w)}
  BY <1>2, <1>5, Zenon DEF Enqueued
<1>7. Types'
  <2>1. copies' \in SUBSET [slot : Slots, pages : SUBSET Pages]
    BY <1>3, <1>4, <1>5, <1>6 DEF IInv, Types
  <2>. QED
    BY <1>1, <1>3, <1>4, <2>1, Zenon DEF IInv, Types
<1>8. HostRight' /\ \A p \in Plans : Of(p)' = Of(p)
  BY <1>1, HostKept, Zenon
<1>9. DataRight' /\ DataIn'
  BY <1>1, <1>4, <1>8, Zenon DEF IInv, DataRight, DataIn
<1>10. CopiesApart'
  BY <1>4, <1>5, <1>6 DEF CopiesApart
<1>11. Preparing'
  BY <1>1, <1>3, Zenon DEF Preparing
<1>12. Copying'
  <2>1. \A c \in copies' : \E p \in Plans :
          pending'[p] = c.slot /\ c.pages = page'[p] /\ page'[p] # {}
    <3> TAKE c \in copies'
    <3>1. PICK p \in Missing(w) : c = [slot |-> f[p], pages |-> page[p]]
      BY <1>6, Zenon
    <3>2. p \in Plans /\ pending'[p] = f[p] /\ page'[p] = page[p] /\ page[p] # {}
      BY <1>1, <1>3, Zenon DEF Stored
    <3>3. c.slot = f[p] /\ c.pages = page[p]
      BY <3>1, Zenon
    <3> QED
      BY <3>2, <3>3, Zenon
  <2>2. ASSUME NEW p \in Plans, pending'[p] # NoSlot
        PROVE  \E c \in copies' : c.slot = pending'[p]
    <3>1. p \in Missing(w) /\ pending'[p] = f[p]
      BY <1>3, <2>2, Zenon
    <3>2. [slot |-> f[p], pages |-> page[p]] \in copies'
      BY <1>6, <3>1, Zenon
    <3>. QED
      BY <3>1, <3>2, Zenon
  <2>. QED
    BY <1>1, <2>1, <2>2, Zenon DEF Copying
<1>. QED
  BY <1>3, <1>7, <1>8, <1>9, <1>10, <1>11, <1>12, Zenon DEF IInv

\* After a failure that hands the slots back, or that never reserved any, only
\* the evictions remain.
LEMMA EvictedKeeps ==
    ASSUME IInv, NEW w \in Schedules, NEW V \in Victims(w), Evict(w, V),
           phase = "idle", free' \in {Pool(V), {}}, free' = Pool(V) \/ leaked',
           leaked => leaked', leaked' \in BOOLEAN,
           \A c \in copies' : c.slot \in Pool(V),
           copies' \in SUBSET [slot : Slots, pages : SUBSET Pages],
           UNCHANGED <<data, pending, page, freePages, mem, request, phase, source>>
    PROVE  IInv'
<1>1. /\ Pool(V) \subseteq Slots
      /\ slot' \in [Plans -> Slots \cup {NoSlot}] /\ shown' \in [Slots -> Plans \cup {NoPlan}]
      /\ \A p \in Plans : slot'[p] \notin Pool(V)
      /\ \A p \in Plans : slot'[p] # NoSlot => slot'[p] = slot[p]
      /\ \A p, q \in Plans : slot'[p] = slot'[q] /\ slot'[p] # NoSlot => p = q
      /\ \A s \in Slots : s \notin Pool(V) /\ ~leaked => \E p \in Plans : slot'[p] = s
      /\ ShownRight'
  BY EvictKeeps, Zenon DEF ShownRight
<1>2. /\ \A p \in Plans : pending'[p] = NoSlot
      /\ pending' \in [Plans -> Slots \cup {NoSlot}]
  BY Zenon DEF IInv, Preparing, Types
<1>3. Types'
  BY <1>1, <1>2, Zenon DEF IInv, Types
<1>4. SlotsApart'
  BY <1>1, <1>2, AdalnAssumption, Zenon DEF SlotsApart
<1>5. SlotsAll'
  BY <1>1, Zenon DEF SlotsAll
<1>6. HostRight' /\ \A p \in Plans : Of(p)' = Of(p)
  BY HostKept, Zenon
<1>7. DataRight' /\ DataIn'
  BY <1>1, <1>6 DEF IInv, DataRight, DataIn
<1>8. CopiesApart'
  BY <1>1, Zenon DEF CopiesApart
<1>9. Preparing' /\ Copying'
  BY <1>2, Zenon DEF Preparing, Copying
<1>. QED
  BY <1>1, <1>3, <1>4, <1>5, <1>6, <1>7, <1>8, <1>9, Zenon DEF IInv
\* A copy that raises hands the slots back and keeps the invariant, although
\* copies may still be on the stream.
LEMMA SwapInFailsKeeps ==
    ASSUME IInv, NEW w \in Schedules, SwapInFails(w)
    PROVE  IInv'
<1>1. /\ phase = "idle"
      /\ UNCHANGED <<data, pending, page, freePages, mem, request, phase, source, leaked>>
  BY Zenon DEF SwapInFails, host
<1>2. PICK V \in Victims(w) : \E f \in Injection(Missing(w), Pool(V)) :
         Evict(w, V) /\ free' = Pool(V) /\ copies' \in SUBSET Enqueued(f)
  BY Zenon DEF SwapInFails
<1>3. PICK f \in Injection(Missing(w), Pool(V)) :
         Evict(w, V) /\ free' = Pool(V) /\ copies' \in SUBSET Enqueued(f)
  BY <1>2, Zenon
<1>4. DOMAIN f = Missing(w) /\ \A p \in Missing(w) : f[p] \in Pool(V)
  BY Zenon DEF Injection
<1>5. Pool(V) \subseteq Slots /\ Missing(w) \subseteq Plans
  BY <1>1, <1>3, EvictKeeps, SchedulePlans, Zenon DEF Missing
<1>6. \A c \in Enqueued(f) : c.slot \in Pool(V) /\ c \in [slot : Slots, pages : SUBSET Pages]
  BY <1>4, <1>5 DEF Enqueued, IInv, Types
<1>. QED
  BY <1>1, <1>3, <1>6, EvictedKeeps, Zenon DEF IInv, Types

\* A request that finds the free list empty while it pops keeps the invariant.
LEMMA PopsEmptyKeeps ==
    ASSUME IInv, NEW w \in Schedules, PopsEmpty(w)
    PROVE  IInv'
<1>1. /\ phase = "idle" /\ copies = {} /\ free' = {} /\ leaked' = TRUE
      /\ UNCHANGED <<data, pending, copies, page, freePages, mem, request, phase, source>>
  BY Zenon DEF PopsEmpty, Fenced, host
<1>2. PICK V \in Victims(w) : Evict(w, V)
  BY Zenon DEF PopsEmpty
<1>. QED
  BY <1>1, <1>2, EvictedKeeps, Zenon

\* Reserving slots for plans that come from the checkpoint keeps the invariant.
LEMMA RebuildBeginKeeps ==
    ASSUME IInv, NEW w \in Schedules, RebuildBegin(w)
    PROVE  IInv'
<1>1. /\ phase = "idle" /\ copies = {} /\ copies' = {}
      /\ request' = w /\ phase' = "projecting"
      /\ UNCHANGED <<data, page, freePages, mem, source, leaked>>
  BY Zenon DEF RebuildBegin, Fenced, host
<1>2. PICK V \in Victims(w) : \E f \in Injection(Missing(w), Pool(V)) :
         Evict(w, V) /\ free' = Pool(V) \ Range(f) /\ pending' = Reserved(f)
  BY Zenon DEF RebuildBegin
<1>3. PICK f \in Injection(Missing(w), Pool(V)) :
         Evict(w, V) /\ free' = Pool(V) \ Range(f) /\ pending' = Reserved(f)
  BY <1>2, Zenon
<1>4. /\ SlotsApart' /\ SlotsAll' /\ ShownRight' /\ free' \in SUBSET Slots
      /\ pending' \in [Plans -> Slots \cup {NoSlot}]
      /\ \A p \in Range(w) : slot'[p] # NoSlot \/ pending'[p] # NoSlot
      /\ \A p \in Plans : pending'[p] # NoSlot => slot'[p] = NoSlot
  BY <1>1, <1>3, ReserveKeeps, Zenon
<1>5. /\ slot' \in [Plans -> Slots \cup {NoSlot}] /\ shown' \in [Slots -> Plans \cup {NoPlan}]
      /\ \A p \in Plans : slot'[p] # NoSlot => slot'[p] = slot[p]
  BY <1>1, <1>3, EvictKeeps, Zenon
<1>6. Types'
  BY <1>1, <1>4, <1>5, Zenon DEF IInv, Types
<1>7. HostRight' /\ \A p \in Plans : Of(p)' = Of(p)
  BY <1>1, HostKept, Zenon
<1>8. DataRight' /\ DataIn'
  BY <1>1, <1>5, <1>7, Zenon DEF IInv, DataRight, DataIn
<1>9. CopiesApart' /\ Preparing' /\ Copying'
  BY <1>1, <1>4, Zenon DEF CopiesApart, Preparing, Copying
<1>. QED
  BY <1>4, <1>6, <1>7, <1>8, <1>9, Zenon DEF IInv

\* A request whose plans are all resident keeps the invariant.
LEMMA HitKeeps ==
    ASSUME IInv, NEW w \in Schedules, Hit(w)
    PROVE  IInv'
<1>1. /\ request' = w /\ phase = "idle" /\ phase' = "ready" /\ Missing(w) = {}
      /\ UNCHANGED <<slot, free, shown, data, pending, copies, source, leaked>>
      /\ UNCHANGED <<page, freePages, mem>>
  BY Zenon DEF Hit, RegisterGroup
<1>2. \A p \in Range(w) : slot[p] # NoSlot
  BY <1>1, Zenon DEF Missing
<1>3. HostRight' /\ \A p \in Plans : Of(p)' = Of(p)
  BY <1>1, HostKept, Zenon
<1>4. DataRight' /\ DataIn'
  BY <1>1, <1>3, Zenon DEF IInv, DataRight, DataIn
<1>5. Types' /\ SlotsApart' /\ SlotsAll' /\ ShownRight' /\ CopiesApart'
  BY <1>1 DEF IInv, Types, SlotsApart, SlotsAll, ShownRight, CopiesApart
<1>6. Preparing' /\ Copying'
  BY <1>1, <1>2, Zenon DEF IInv, Preparing, Copying
<1>. QED
  BY <1>3, <1>4, <1>5, <1>6, Zenon DEF IInv

\* A copy that lands brings a reserved slot what it is reserved for, or a slot
\* that is not reserved any more something that nobody sees.
LEMMA LandKeeps ==
    ASSUME IInv, Land
    PROVE  IInv'
<1>1. PICK c \in copies : /\ data' = [data EXCEPT ![c.slot] = Fetched(c.pages)]
                          /\ copies' = copies \ {c}
  BY Zenon DEF Land
<1>2. /\ UNCHANGED <<slot, free, shown, pending, request, phase, source, leaked>>
      /\ UNCHANGED <<page, freePages, mem>>
  BY Zenon DEF Land, host
<1>3. HostRight' /\ \A p \in Plans : Of(p)' = Of(p)
  BY <1>2, HostKept, Zenon
<1>4. /\ c.slot \in Slots /\ DOMAIN data = Slots /\ DataIn'
      /\ \A s \in Slots : data'[s] = IF s = c.slot THEN Fetched(c.pages) ELSE data[s]
  BY <1>1, <1>2, Zenon DEF IInv, Types, DataIn
<1>5. DataRight'
  BY <1>2, <1>3, <1>4 DEF IInv, Types, DataRight, CopiesApart
<1>6. Types' /\ SlotsApart' /\ SlotsAll' /\ ShownRight' /\ CopiesApart' /\ Preparing'
  BY <1>1, <1>2 DEF IInv, Types, SlotsApart, SlotsAll, ShownRight, CopiesApart, Preparing
<1>7. Copying'
  <2>1. CASE phase = "copying"
    <3>1. PICK p \in Plans : pending[p] = c.slot /\ c.pages = page[p] /\ page[p] # {}
      BY <2>1, Zenon DEF IInv, Copying
    <3>2. \A i \in c.pages : mem[i] = Of(p)
      BY <3>1, Zenon DEF IInv, HostRight
    <3>3. Fetched(c.pages) = Of(p)
      BY <3>1, <3>2, Zenon DEF Fetched
    <3>4. ASSUME NEW q \in Plans, pending'[q] # NoSlot
          PROVE  data'[pending'[q]] = Of(q)' \/ \E d \in copies' : d.slot = pending'[q]
      <4>1. CASE q = p
        BY <1>2, <1>3, <1>4, <3>1, <3>3, <4>1, Zenon
      <4>2. CASE q # p
        <5>1. pending[q] # c.slot /\ pending[q] \in Slots /\ pending[q] # NoSlot
          BY <1>2, <3>1, <3>4, <4>2, Zenon DEF IInv, Types, SlotsApart
        <5>2. data[pending[q]] = Of(q) \/ \E d \in copies : d.slot = pending[q]
          BY <2>1, <5>1, Zenon DEF IInv, Copying
        <5>. QED
          BY <1>1, <1>2, <1>3, <1>4, <5>1, <5>2, Zenon
      <4>. QED
        BY <4>1, <4>2, Zenon
    <3>. QED
      BY <1>1, <1>2, <2>1, <3>4, ZenonT(30) DEF IInv, Copying
  <2>2. CASE phase # "copying"
    BY <1>1, <1>2, <2>2, Zenon DEF IInv, Copying
  <2>. QED
    BY <2>1, <2>2, Zenon
<1>. QED
  BY <1>3, <1>4, <1>5, <1>6, <1>7, Zenon DEF IInv
\* Reserved slots become visible.
LEMMA CommitKeeps ==
    ASSUME IInv, phase \in {"copying", "projecting"}, NEW order,
           Commit(request, pending, order), pending' = NoPending, UNCHANGED <<free, leaked>>
    PROVE  /\ SlotsApart' /\ SlotsAll' /\ ShownRight'
           /\ slot' \in [Plans -> Slots \cup {NoSlot}]
           /\ pending' \in [Plans -> Slots \cup {NoSlot}]
           /\ shown' \in [Slots -> Plans \cup {NoPlan}]
           /\ \A p \in Plans : pending'[p] = NoSlot
           /\ \A p \in Plans : slot'[p] = IF pending[p] # NoSlot THEN pending[p] ELSE slot[p]
           /\ \A p \in Range(request) : slot'[p] # NoSlot
<1>1. Types /\ SlotsApart /\ SlotsAll /\ ShownRight
  BY Zenon DEF IInv
<1>2. /\ request \in Schedules
      /\ \A p \in Range(request) : slot[p] # NoSlot \/ pending[p] # NoSlot
      /\ \A p \in Plans : pending[p] # NoSlot => slot[p] = NoSlot
  BY Zenon DEF IInv, Preparing
<1>3. slot' = [p \in Plans |-> IF pending[p] # NoSlot THEN pending[p] ELSE slot[p]]
  BY Zenon DEF Commit
<1>4. shown' = [s \in Slots |-> IF \E p \in Plans : pending[p] = s
                                THEN CHOOSE p \in Plans : pending[p] = s ELSE shown[s]]
  BY Zenon DEF Commit
<1>5. /\ slot' \in [Plans -> Slots \cup {NoSlot}]
      /\ pending' \in [Plans -> Slots \cup {NoSlot}]
      /\ \A p \in Plans : pending'[p] = NoSlot
  BY <1>1, <1>3, Zenon DEF Types, NoPending
<1>6. ASSUME NEW p \in Plans, pending[p] # NoSlot
      PROVE  pending[p] \in Slots /\ shown'[pending[p]] = p
  <2>1. pending[p] \in Slots
    BY <1>1, <1>6, Zenon DEF Types
  <2>2. \A q \in Plans : pending[q] = pending[p] => q = p
    BY <1>1, <1>6, Zenon DEF SlotsApart
  <2>3. (CHOOSE q \in Plans : pending[q] = pending[p]) = p
    BY <2>2, Zenon
  <2>. QED
    BY <1>4, <2>1, <2>3, Zenon
<1>7. ASSUME NEW s \in Slots, ~\E p \in Plans : pending[p] = s
      PROVE  shown'[s] = shown[s]
  BY <1>4, <1>7, Zenon
<1>8. shown' \in [Slots -> Plans \cup {NoPlan}]
  <2>1. ASSUME NEW s \in Slots PROVE shown'[s] \in Plans \cup {NoPlan}
    <3>1. CASE \E p \in Plans : pending[p] = s
      BY <1>6, <3>1, AdalnAssumption, Zenon
    <3>2. CASE ~\E p \in Plans : pending[p] = s
      BY <1>1, <1>7, <3>2, Zenon DEF Types
    <3>. QED
      BY <3>1, <3>2, Zenon
  <2>. QED
    BY <1>4, <2>1, Zenon
<1>9. ShownRight'
  <2>1. ASSUME NEW p \in Plans, slot'[p] # NoSlot PROVE shown'[slot'[p]] = p
    <3>1. CASE pending[p] # NoSlot
      BY <1>3, <1>6, <3>1, Zenon
    <3>2. CASE pending[p] = NoSlot
      <4>1. slot'[p] = slot[p] /\ slot[p] \in Slots /\ ~\E q \in Plans : pending[q] = slot[p]
        BY <1>1, <1>3, <2>1, <3>2, Zenon DEF Types, SlotsApart
      <4>. QED
        BY <1>1, <1>7, <2>1, <4>1, Zenon DEF ShownRight
    <3>. QED
      BY <3>1, <3>2, Zenon
  <2>2. ASSUME NEW s \in Slots, shown'[s] # NoPlan PROVE slot'[shown'[s]] = s
    <3>1. CASE \E p \in Plans : pending[p] = s
      <4>1. PICK p \in Plans : pending[p] = s
        BY <3>1, Zenon
      <4>2. pending[p] # NoSlot
        BY <4>1, AdalnAssumption, Zenon
      <4>. QED
        BY <1>3, <1>6, <4>1, <4>2, Zenon
    <3>2. CASE ~\E p \in Plans : pending[p] = s
      <4>1. shown'[s] = shown[s] /\ slot[shown[s]] = s /\ shown[s] \in Plans
        BY <1>1, <1>7, <2>2, <3>2, Zenon DEF ShownRight, Types
      <4>2. pending[shown[s]] = NoSlot
        BY <1>2, <4>1, AdalnAssumption, Zenon
      <4>. QED
        BY <1>3, <4>1, <4>2, Zenon
    <3>. QED
      BY <3>1, <3>2, Zenon
  <2>. QED
    BY <2>1, <2>2, Zenon DEF ShownRight
<1>10. SlotsApart'
  BY <1>1, <1>3, <1>5, AdalnAssumption DEF Types, SlotsApart
<1>11. SlotsAll'
  <2>. SUFFICES ASSUME ~leaked, NEW s \in Slots, s \notin free
                PROVE  \E p \in Plans : slot'[p] = s
    BY Zenon DEF SlotsAll
  <2>1. PICK p \in Plans : slot[p] = s \/ pending[p] = s
    BY <1>1, Zenon DEF SlotsAll
  <2>. QED
    BY <1>2, <1>3, <2>1, AdalnAssumption, Zenon
<1>12. \A p \in Range(request) : slot'[p] # NoSlot
  BY <1>2, <1>3, SchedulePlans, Zenon
<1>. QED
  BY <1>3, <1>5, <1>8, <1>9, <1>10, <1>11, <1>12, Zenon

\* Making swapped in plans visible, after the fence, keeps the invariant.
LEMMA SwapInEndKeeps ==
    ASSUME IInv, SwapInEnd
    PROVE  IInv'
<1>1. /\ phase = "copying" /\ copies = {} /\ pending' = NoPending /\ phase' = "ready"
      /\ Commit(request, pending, InOrder(request))
      /\ UNCHANGED <<free, data, copies, request, source, leaked>>
      /\ UNCHANGED <<page, freePages, mem>>
  BY Zenon DEF SwapInEnd, Fenced, RegisterGroup
<1>2. /\ SlotsApart' /\ SlotsAll' /\ ShownRight'
      /\ slot' \in [Plans -> Slots \cup {NoSlot}]
      /\ pending' \in [Plans -> Slots \cup {NoSlot}]
      /\ shown' \in [Slots -> Plans \cup {NoPlan}]
      /\ \A p \in Plans : pending'[p] = NoSlot
      /\ \A p \in Plans : slot'[p] = IF pending[p] # NoSlot THEN pending[p] ELSE slot[p]
      /\ \A p \in Range(request) : slot'[p] # NoSlot
  BY <1>1, CommitKeeps, Zenon
<1>3. HostRight' /\ \A p \in Plans : Of(p)' = Of(p)
  BY <1>1, HostKept, Zenon
<1>4. \A p \in Plans : pending[p] # NoSlot => data[pending[p]] = Of(p)
  BY <1>1, Zenon DEF IInv, Copying
<1>5. DataRight' /\ DataIn'
  BY <1>1, <1>2, <1>3, <1>4, ZenonT(30) DEF IInv, DataRight, DataIn
<1>6. Types'
  BY <1>1, <1>2, Zenon DEF IInv, Types
<1>7. CopiesApart' /\ Preparing' /\ Copying'
  BY <1>1, <1>2, Zenon DEF CopiesApart, Preparing, Copying
<1>. QED
  BY <1>2, <1>3, <1>5, <1>6, <1>7, Zenon DEF IInv
\* Storing a group, whichever groups it evicts: the pages it takes are free or
\* those of plans that leave, and it fills them with what the slab holds.
LEMMA StoreGroupKeeps ==
    ASSUME IInv, NEW w \in Schedules, NEW filled, \A p \in Range(w) : filled[p] = Of(p),
           StoreGroup(w, filled), UNCHANGED source
    PROVE  /\ HostRight' /\ page' \in [Plans -> SUBSET Pages]
           /\ freePages' \in SUBSET Pages /\ mem' = [i \in Pages |-> mem'[i]]
<1>. DEFINE n    == Evictions(w)
            held == Held(w, n)
            gone == Gone(w, n)
            pool == FreeAfter(w, n)
            unheld == [p \in Plans |-> IF p \in Range(w) \cap Stored THEN held[p] - 1 ELSE held[p]]
            lost == {p \in Stored : unheld[p] = 0}
<1>1. /\ HostRight /\ page \in [Plans -> SUBSET Pages] /\ freePages \in SUBSET Pages
      /\ mem = [i \in Pages |-> mem[i]]
  BY Zenon DEF IInv, Types, DataIn
<1>2. \A p \in Plans : Of(p)' = Of(p)
  BY Zenon DEF Of
<1>3. \/ UNCHANGED <<page, freePages, mem>>
      \/ \E f \in Placements(w, pool) :
              /\ page' = [p \in Plans |-> IF p \in DOMAIN f THEN f[p]
                                          ELSE IF p \in gone THEN {} ELSE page[p]]
              /\ freePages' = pool \ UNION {f[p] : p \in DOMAIN f}
              /\ mem' = [i \in Pages |-> IF \E p \in DOMAIN f : i \in f[p]
                           THEN filled[CHOOSE p \in DOMAIN f : i \in f[p]] ELSE mem[i]]
      \/ /\ page' = [p \in Plans |-> IF p \in lost THEN {} ELSE page[p]]
         /\ freePages' = freePages \cup UNION {page[p] : p \in lost}
         /\ UNCHANGED mem
  BY Zenon DEF StoreGroup, host
<1>4. gone \subseteq Plans /\ lost \subseteq Plans
  BY Zenon DEF Gone, Stored
<1>5. pool = freePages \cup UNION {page[p] : p \in gone}
  BY Zenon DEF FreeAfter
<1>. HIDE DEF n, held, gone, pool, unheld, lost
<1>6. CASE UNCHANGED <<page, freePages, mem>>
  BY <1>1, <1>2, <1>6, Zenon DEF HostRight
<1>7. ASSUME NEW f \in Placements(w, pool),
             page' = [p \in Plans |-> IF p \in DOMAIN f THEN f[p]
                                      ELSE IF p \in gone THEN {} ELSE page[p]],
             freePages' = pool \ UNION {f[p] : p \in DOMAIN f},
             mem' = [i \in Pages |-> IF \E p \in DOMAIN f : i \in f[p]
                       THEN filled[CHOOSE p \in DOMAIN f : i \in f[p]] ELSE mem[i]]
      PROVE  /\ HostRight' /\ page' \in [Plans -> SUBSET Pages]
             /\ freePages' \in SUBSET Pages /\ mem' = [i \in Pages |-> mem'[i]]
  <2>. DEFINE D == Range(w) \ Stored
  <2>1. /\ DOMAIN f = D /\ D \subseteq Plans /\ \A p \in D : f[p] \subseteq pool
        /\ \A p, q \in D : p # q => f[p] \cap f[q] = {}
    BY SchedulePlans, Zenon DEF Placements
  <2>2. \A p \in D : filled[p] = Of(p)
    BY Zenon
  <2>. HIDE DEF D
  <2>3. pool \subseteq Pages
    BY <1>1, <1>4, <1>5, ZenonT(30)
  <2>4. page' \in [Plans -> SUBSET Pages]
    BY <1>1, <1>7, <2>1, <2>3, Zenon
  <2>5. freePages' \in SUBSET Pages /\ freePages' \subseteq pool
    BY <1>7, <2>3, Zenon
  <2>6. ASSUME NEW p \in D, NEW i \in f[p]
        PROVE  i \in pool /\ i \notin freePages' /\ mem'[i] = Of(p)
    <3>1. i \in pool /\ i \in Pages /\ i \notin freePages'
      BY <1>7, <2>1, <2>3, Zenon
    <3>2. \A q \in D : i \in f[q] => q = p
      BY <2>1, Zenon
    <3>3. (CHOOSE q \in DOMAIN f : i \in f[q]) = p
      BY <2>1, <3>2, Zenon
    <3>. QED
      BY <1>7, <2>1, <2>2, <3>1, <3>3, Zenon
  <2>7. ASSUME NEW p \in Plans \ gone, NEW i \in page[p]
        PROVE  i \notin pool /\ i \in Pages
    BY <1>1, <1>4, <1>5 DEF HostRight
  <2>8. ASSUME NEW p \in Plans \ D, NEW i \in page'[p]
        PROVE  p \notin gone /\ i \in page[p] /\ i \notin pool /\ mem'[i] = Of(p)
    <3>1. p \notin gone /\ i \in page[p]
      BY <1>7, <2>1, <2>8, Zenon
    <3>2. i \notin pool /\ i \in Pages
      BY <2>7, <3>1, Zenon
    <3>3. ~\E q \in DOMAIN f : i \in f[q]
      BY <2>1, <3>2, Zenon
    <3>. QED
      BY <1>1, <1>7, <3>1, <3>2, <3>3, Zenon DEF HostRight
  <2>9. \A p \in D : page'[p] = f[p]
    BY <1>7, <2>1, Zenon
  <2>10. \A p \in Plans : \A i \in page'[p] : mem'[i] = Of(p) /\ i \notin freePages'
    BY <2>5, <2>6, <2>8, <2>9, Zenon
  <2>11. ASSUME NEW p \in Plans, NEW q \in Plans, p # q
         PROVE  page'[p] \cap page'[q] = {}
    <3>1. CASE p \in D /\ q \in D
      BY <2>1, <2>9, <2>11, <3>1, Zenon
    <3>2. CASE p \in D /\ q \notin D
      BY <2>6, <2>8, <2>9, <3>2, Zenon
    <3>3. CASE p \notin D /\ q \in D
      BY <2>6, <2>8, <2>9, <3>3, Zenon
    <3>4. CASE p \notin D /\ q \notin D
      BY <1>1, <2>8, <2>11, <3>4, Zenon DEF HostRight
    <3>. QED
      BY <3>1, <3>2, <3>3, <3>4, Zenon
  <2>12. HostRight'
    BY <1>2, <2>10, <2>11, Zenon DEF HostRight
  <2>. QED
    BY <1>7, <2>4, <2>5, <2>12, Zenon
<1>8. ASSUME page' = [p \in Plans |-> IF p \in lost THEN {} ELSE page[p]],
             freePages' = freePages \cup UNION {page[p] : p \in lost},
             UNCHANGED mem
      PROVE  /\ HostRight' /\ page' \in [Plans -> SUBSET Pages]
             /\ freePages' \in SUBSET Pages /\ mem' = [i \in Pages |-> mem'[i]]
  <2>1. page' \in [Plans -> SUBSET Pages] /\ freePages' \in SUBSET Pages
    BY <1>1, <1>4, <1>8
  <2>2. \A p \in Plans : \A i \in page'[p] : p \notin lost /\ i \in page[p]
    BY <1>8, Zenon
  <2>3. HostRight'
    BY <1>1, <1>2, <1>4, <1>8, <2>2 DEF HostRight
  <2>. QED
    BY <1>1, <1>8, <2>1, <2>3, Zenon
<1>. QED
  BY <1>1, <1>3, <1>6, <1>7, <1>8, Zenon
\* Projecting the plans, showing them and storing their group keeps the invariant.
LEMMA ProjectKeeps ==
    ASSUME IInv, Project
    PROVE  IInv'
<1>. DEFINE filled == [p \in Range(request) |->
                          IF pending[p] = NoSlot THEN data[slot[p]] ELSE Of(p)]
<1>1. /\ phase = "projecting" /\ pending' = NoPending /\ phase' = "ready"
      /\ Commit(request, pending, InOrder(request)) /\ StoreGroup(request, filled)
      /\ UNCHANGED <<free, copies, request, source, leaked>>
  BY Zenon DEF Project
<1>2. data' = [s \in Slots |-> IF s \in Taken
                               THEN Of(CHOOSE p \in Plans : pending[p] = s) ELSE data[s]]
  BY Zenon DEF Project
<1>3. /\ request \in Schedules /\ Range(request) \subseteq Plans /\ copies = {}
      /\ \A p \in Range(request) : slot[p] # NoSlot \/ pending[p] # NoSlot
  BY <1>1, SchedulePlans, Zenon DEF IInv, Preparing, Copying
<1>4. /\ SlotsApart' /\ SlotsAll' /\ ShownRight'
      /\ slot' \in [Plans -> Slots \cup {NoSlot}]
      /\ pending' \in [Plans -> Slots \cup {NoSlot}]
      /\ shown' \in [Slots -> Plans \cup {NoPlan}]
      /\ \A p \in Plans : pending'[p] = NoSlot
      /\ \A p \in Plans : slot'[p] = IF pending[p] # NoSlot THEN pending[p] ELSE slot[p]
      /\ \A p \in Range(request) : slot'[p] # NoSlot
  BY <1>1, CommitKeeps, Zenon
<1>5. \A p \in Range(request) : filled[p] = Of(p)
  BY <1>3, Zenon DEF IInv, DataRight
<1>6. /\ HostRight' /\ page' \in [Plans -> SUBSET Pages]
      /\ freePages' \in SUBSET Pages /\ mem' = [i \in Pages |-> mem'[i]]
  <2>. HIDE DEF filled
  <2>. QED
    BY <1>1, <1>3, <1>5, StoreGroupKeeps, Zenon
<1>7. ASSUME NEW p \in Plans, slot'[p] # NoSlot PROVE data'[slot'[p]] = Of(p)
  <2>1. CASE pending[p] # NoSlot
    <3>1. slot'[p] = pending[p] /\ pending[p] \in Slots /\ pending[p] \in Taken
      BY <1>4, <2>1, Zenon DEF IInv, Types, Taken
    <3>2. \A q \in Plans : pending[q] = pending[p] => q = p
      BY <2>1, Zenon DEF IInv, SlotsApart
    <3>3. (CHOOSE q \in Plans : pending[q] = pending[p]) = p
      BY <3>2, Zenon
    <3>. QED
      BY <1>2, <3>1, <3>3, Zenon
  <2>2. CASE pending[p] = NoSlot
    <3>1. slot'[p] = slot[p] /\ slot[p] \in Slots
      BY <1>4, <1>7, <2>2, Zenon DEF IInv, Types
    <3>2. slot[p] \notin Taken
      BY <1>7, <3>1, Zenon DEF IInv, SlotsApart, Taken
    <3>. QED
      BY <1>2, <1>7, <3>1, <3>2, Zenon DEF IInv, DataRight
  <2>. QED
    BY <2>1, <2>2, Zenon
<1>8. DataRight' /\ DataIn'
  BY <1>1, <1>2, <1>6, <1>7, Zenon DEF DataRight, DataIn, Of
<1>9. Types'
  BY <1>1, <1>3, <1>4, <1>6, Zenon DEF IInv, Types
<1>10. CopiesApart' /\ Preparing' /\ Copying'
  BY <1>1, <1>3, <1>4, Zenon DEF CopiesApart, Preparing, Copying
<1>. QED
  BY <1>4, <1>6, <1>8, <1>9, <1>10, Zenon DEF IInv

\* A projection that raises hands its slots back and keeps the invariant.
LEMMA ProjectFailsKeeps ==
    ASSUME IInv, ProjectFails
    PROVE  IInv'
<1>1. /\ phase = "projecting" /\ phase' = "idle" /\ request' = <<>>
      /\ data' = [s \in Slots |-> IF s \in Taken THEN Torn ELSE data[s]]
      /\ free' = free \cup Taken /\ pending' = [p \in Plans |-> NoSlot]
      /\ UNCHANGED <<slot, shown, copies, page, freePages, mem, source, leaked>>
  BY Zenon DEF ProjectFails, NoPending, host
<1>2. /\ Taken \subseteq Slots /\ \A p \in Plans : slot[p] \notin Taken
      /\ \A p \in Plans : pending[p] # NoSlot => pending[p] \in Taken
  BY AdalnAssumption DEF Taken, IInv, Types, SlotsApart
<1>3. HostRight' /\ \A p \in Plans : Of(p)' = Of(p)
  BY <1>1, HostKept, Zenon
<1>4. DataRight' /\ DataIn'
  BY <1>1, <1>2, <1>3, ZenonT(30) DEF IInv, Types, DataRight, DataIn
<1>5. Types' /\ ShownRight' /\ CopiesApart'
  BY <1>1, <1>2, Zenon DEF IInv, Types, ShownRight, CopiesApart
<1>6. SlotsApart'
  BY <1>1, <1>2, AdalnAssumption, Zenon DEF IInv, Types, SlotsApart
<1>7. SlotsAll'
  BY <1>1, <1>2, AdalnAssumption, Zenon DEF IInv, SlotsAll
<1>8. Preparing' /\ Copying'
  BY <1>1, Zenon DEF Preparing, Copying
<1>. QED
  BY <1>3, <1>4, <1>5, <1>6, <1>7, <1>8, Zenon DEF IInv

\* An embedding that raises loses its slots; the invariant allows for them.
LEMMA EmbedFailsKeeps ==
    ASSUME IInv, EmbedFails
    PROVE  IInv'
<1>1. /\ phase' = "idle" /\ request' = <<>> /\ leaked' = TRUE
      /\ pending' = [p \in Plans |-> NoSlot]
      /\ UNCHANGED <<slot, free, shown, data, copies, page, freePages, mem, source>>
  BY Zenon DEF EmbedFails, NoPending, host
<1>2. HostRight' /\ \A p \in Plans : Of(p)' = Of(p)
  BY <1>1, HostKept, Zenon
<1>3. DataRight' /\ DataIn'
  BY <1>1, <1>2, Zenon DEF IInv, DataRight, DataIn
<1>4. Types' /\ ShownRight' /\ CopiesApart' /\ SlotsAll'
  BY <1>1, Zenon DEF IInv, Types, ShownRight, CopiesApart, SlotsAll
<1>5. SlotsApart'
  BY <1>1, AdalnAssumption, Zenon DEF IInv, Types, SlotsApart
<1>6. Preparing' /\ Copying'
  BY <1>1, Zenon DEF Preparing, Copying
<1>. QED
  BY <1>2, <1>3, <1>4, <1>5, <1>6, Zenon DEF IInv

\* The end of a request keeps the invariant.
LEMMA FinishKeeps ==
    ASSUME IInv, Finish
    PROVE  IInv'
<1>1. /\ phase = "ready" /\ phase' = "idle" /\ request' = <<>>
      /\ UNCHANGED <<slot, free, shown, data, pending, copies>>
      /\ UNCHANGED <<page, freePages, mem, source, leaked>>
  BY Zenon DEF Finish, slab, host
<1>2. HostRight' /\ \A p \in Plans : Of(p)' = Of(p)
  BY <1>1, HostKept, Zenon
<1>3. DataRight' /\ DataIn'
  BY <1>1, <1>2, Zenon DEF IInv, DataRight, DataIn
<1>4. Types' /\ SlotsApart' /\ SlotsAll' /\ ShownRight' /\ CopiesApart'
  BY <1>1 DEF IInv, Types, SlotsApart, SlotsAll, ShownRight, CopiesApart
<1>5. Preparing' /\ Copying'
  BY <1>1, Zenon DEF IInv, Preparing, Copying
<1>. QED
  BY <1>2, <1>3, <1>4, <1>5, Zenon DEF IInv

\* With the checkpoint, all that has been computed from the old one goes.
LEMMA InvalidateKeeps ==
    ASSUME IInv, NEW s \in Sources, Invalidate(s)
    PROVE  IInv'
<1>1. /\ phase = "idle" /\ copies = {} /\ page' = [p \in Plans |-> {}]
      /\ freePages' = Pages /\ slot' = [p \in Plans |-> NoSlot] /\ free' = Slots
      /\ shown' = [i \in Slots |-> NoPlan] /\ leaked' = FALSE
      /\ UNCHANGED <<data, pending, copies, mem, request, phase>>
  BY Zenon DEF Invalidate, Fenced, NoPending
<1>2. \A p \in Plans : pending'[p] = NoSlot
  BY <1>1, Zenon DEF IInv, Preparing
<1>3. Types'
  BY <1>1, Zenon DEF IInv, Types
<1>4. SlotsApart' /\ SlotsAll' /\ ShownRight' /\ DataRight' /\ HostRight' /\ CopiesApart'
  BY <1>1, <1>2, AdalnAssumption, Zenon
     DEF SlotsApart, SlotsAll, ShownRight, DataRight, HostRight, CopiesApart
<1>5. DataIn' /\ Preparing' /\ Copying'
  BY <1>1, <1>2, Zenon DEF IInv, DataIn, Preparing, Copying
<1>. QED
  BY <1>3, <1>4, <1>5, Zenon DEF IInv

\* A step that changes nothing keeps the invariant.
LEMMA StutterKeeps ==
    ASSUME IInv, UNCHANGED vars
    PROVE  IInv'
<1>1. /\ UNCHANGED <<slot, free, shown, data, pending, copies, request, phase>>
      /\ UNCHANGED <<page, freePages, mem, source, leaked>>
  BY Zenon DEF vars, slab, host
<1>2. HostRight' /\ \A p \in Plans : Of(p)' = Of(p)
  BY <1>1, HostKept, Zenon
<1>3. Types' /\ SlotsApart' /\ SlotsAll' /\ ShownRight' /\ CopiesApart'
  BY <1>1 DEF IInv, Types, SlotsApart, SlotsAll, ShownRight, CopiesApart
<1>4. DataRight' /\ DataIn' /\ Preparing' /\ Copying'
  BY <1>1, <1>2, Zenon DEF IInv, DataRight, DataIn, Preparing, Copying
<1>. QED
  BY <1>2, <1>3, <1>4, Zenon DEF IInv

\* IInv is an invariant of the cache.
THEOREM Inductive == Spec => []IInv
<1>1. Init => IInv
  BY InitInv, Zenon
<1>2. IInv /\ [Next]_vars => IInv'
  <2>. SUFFICES ASSUME IInv, [Next]_vars PROVE IInv'
    BY Zenon
  <2>1. CASE \E w \in Schedules : \/ Hit(w) \/ SwapIn(w) \/ SwapInFails(w)
                                  \/ RebuildBegin(w) \/ PopsEmpty(w)
    BY <2>1, HitKeeps, SwapInKeeps, SwapInFailsKeeps, RebuildBeginKeeps, PopsEmptyKeeps, Zenon
  <2>2. CASE Land \/ SwapInEnd \/ EmbedFails \/ ProjectFails \/ Project \/ Finish
    BY <2>2, LandKeeps, SwapInEndKeeps, EmbedFailsKeeps, ProjectFailsKeeps,
       ProjectKeeps, FinishKeeps, Zenon
  <2>3. CASE \E s \in Sources : Invalidate(s)
    BY <2>3, InvalidateKeeps, Zenon
  <2>4. CASE UNCHANGED vars
    BY <2>4, StutterKeeps, Zenon
  <2>. QED
    BY <2>1, <2>2, <2>3, <2>4, Zenon DEF Next
<1>. QED
  BY <1>1, <1>2, PTL DEF Spec
-----------------------------------------------------------------------------
\* The free-list invariant of the slab, for every number of slots: no failure
\* and no eviction loses a slot or gives it to two plans, except that a failure
\* of embed loses what the request had reserved.
THEOREM SlabIsAccounted == Spec => []SlabAccounted
<1>1. IInv => SlabAccounted
  <2>. SUFFICES ASSUME IInv PROVE SlabAccounted
    BY Zenon
  <2>1. Types /\ SlotsApart /\ SlotsAll
    BY Zenon DEF IInv
  <2>2. /\ free \cap {slot[p] : p \in Resident} = {}
        /\ \A p, q \in Resident : slot[p] = slot[q] => p = q
        /\ \A p, q \in Plans : pending[p] = pending[q] /\ pending[p] # NoSlot => p = q
    <3>1. \A p \in Plans : slot[p] \notin free
      BY <2>1, Zenon DEF SlotsApart
    <3>2. \A p, q \in Plans : slot[p] = slot[q] /\ slot[p] # NoSlot => p = q
      BY <2>1, ZenonT(60) DEF SlotsApart
    <3>3. \A p, q \in Plans : pending[p] = pending[q] /\ pending[p] # NoSlot => p = q
      BY <2>1, ZenonT(60) DEF SlotsApart
    <3>4. free \cap {slot[p] : p \in Resident} = {}
      BY <3>1, Zenon DEF Resident
    <3>5. \A p, q \in Resident : slot[p] = slot[q] => p = q
      BY <3>2, Zenon DEF Resident
    <3> QED
      BY <3>3, <3>4, <3>5, Zenon
  <2>3. Taken \cap (free \cup {slot[p] : p \in Resident}) = {}
    BY <2>1 DEF SlotsApart, Resident, Taken
  <2>4. ASSUME ~leaked
        PROVE  free \cup {slot[p] : p \in Resident} \cup Taken = Slots
    BY <2>1, <2>4, AdalnAssumption DEF Types, SlotsAll, Resident, Taken
  <2>. QED
    BY <2>2, <2>3, <2>4, Zenon DEF SlabAccounted
<1>. QED
  BY <1>1, Inductive, PTL

\* What denoising reads is the plan it asks for, from the checkpoint that is
\* served, whatever failed, was evicted or is still being copied: for every
\* slab, host tier and set of schedules.
THEOREM PlansServedRight == Spec => []ServedPlansRight
<1>1. IInv => ServedPlansRight
  <2>. SUFFICES ASSUME IInv PROVE ServedPlansRight
    BY Zenon
  <2>1. Types /\ ShownRight /\ DataRight /\ CopiesApart /\ Preparing
    BY Zenon DEF IInv
  <2>2. \A p \in Resident : p \in Plans /\ slot[p] # NoSlot /\ slot[p] \in Slots
    BY <2>1, Zenon DEF Types, Resident
  <2>3. \A p \in Resident : data[slot[p]] = Of(p)
    BY <2>1, <2>2, Zenon DEF DataRight
  <2>4. ASSUME NEW p \in Resident, NEW s \in Slots PROVE shown[s] = p <=> s = slot[p]
    BY <2>1, <2>2, AdalnAssumption, Zenon DEF ShownRight
  <2>5. \A p \in Resident : \A c \in copies : c.slot # slot[p]
    BY <2>1, <2>2, Zenon DEF CopiesApart
  <2>6. phase = "ready" => Range(request) \subseteq Resident
    <3>. SUFFICES ASSUME phase = "ready" PROVE Range(request) \subseteq Resident
      BY Zenon
    <3>1. Range(request) \subseteq Plans
      <4>1. CASE request \in Schedules
        BY <4>1, SchedulePlans, Zenon
      <4>2. CASE request = <<>>
        BY <4>2 DEF Range
      <4>. QED
        BY <2>1, <4>1, <4>2, Zenon DEF Types
    <3>. QED
      BY <2>1, <3>1, Zenon DEF Preparing, Resident
  <2>. QED
    BY <2>3, <2>4, <2>5, <2>6, Zenon DEF ServedPlansRight
<1>. QED
  BY <1>1, Inductive, PTL

\* A request that passes the wanted-count check of build() finds its slots, as
\* long as none has been lost.
LEMMA AdmittedHasRoom ==
    ASSUME IInv, phase = "idle", ~leaked, NEW w \in Schedules, Accepted(w)
    PROVE  Cardinality(Missing(w)) <= Cardinality(free) + Cardinality(Evictable(w))
<1>. DEFINE W == Range(w)
            R == Resident
            H == {slot[p] : p \in R}
<1>1. /\ IsFiniteSet(Plans) /\ IsFiniteSet(Slots) /\ W \subseteq Plans /\ R \subseteq Plans
      /\ Missing(w) = W \ R /\ Evictable(w) = R \ W
  BY AdalnAssumption, SchedulePlans, Zenon DEF Missing, Evictable, Resident
<1>2. /\ \A p, q \in R : slot[p] = slot[q] => p = q
      /\ \A p \in R : slot[p] \in Slots /\ slot[p] \notin free
      /\ free \subseteq Slots
  BY Zenon DEF IInv, Types, SlotsApart, Resident
<1>3. Slots = free \cup H /\ free \cap H = {} /\ H \subseteq Slots
  <2>1. \A p \in Plans : pending[p] = NoSlot
    BY Zenon DEF IInv, Preparing
  <2>2. \A s \in Slots : s \in free \/ \E p \in Plans : slot[p] = s
    BY <2>1, AdalnAssumption, Zenon DEF IInv, SlotsAll
  <2>. QED
    BY <1>2, <2>2, AdalnAssumption DEF Resident
<1>4. Cardinality(H) = Cardinality(R)
  <2>. DEFINE g == [p \in R |-> slot[p]]
  <2>1. g \in Bijection(R, H)
    BY <1>2, Zenon DEF Bijection, Injection, Surjection, IsInjective
  <2>2. ExistsBijection(R, H)
    BY <2>1, Zenon DEF ExistsBijection
  <2>3. IsFiniteSet(R)
    BY <1>1, FS_Subset, Zenon
  <2>. QED
    BY <2>2, <2>3, FS_Bijection, Zenon
<1>. HIDE DEF W, R, H
<1>5. /\ IsFiniteSet(W) /\ IsFiniteSet(R) /\ IsFiniteSet(free) /\ IsFiniteSet(H)
      /\ IsFiniteSet(W \cap R)
  BY <1>1, <1>2, <1>3, FS_Subset, FS_Intersection, Zenon
<1>6. /\ Cardinality(W) \in Nat /\ Cardinality(R) \in Nat /\ Cardinality(free) \in Nat
      /\ Cardinality(H) \in Nat /\ Cardinality(W \cap R) \in Nat
  BY <1>5, FS_CardinalityType, Zenon
<1>7. Cardinality(Slots) = Cardinality(free) + Cardinality(H)
  <2>1. Cardinality(free \cup H) = Cardinality(free) + Cardinality(H) - Cardinality(free \cap H)
    BY <1>5, FS_Union, Zenon
  <2>2. Cardinality(Slots) = Cardinality(free) + Cardinality(H) - Cardinality({})
    BY <1>3, <2>1, Zenon
  <2>3. Cardinality({}) = 0
    BY FS_EmptySet, Zenon
  <2>. QED
    BY <1>6, <2>2, <2>3
<1>8. Cardinality(W \ R) = Cardinality(W) - Cardinality(W \cap R)
  BY <1>5, FS_Difference, Zenon
<1>9. Cardinality(R \ W) = Cardinality(R) - Cardinality(W \cap R)
  <2>1. R \cap W = W \cap R
    BY Zenon
  <2>. QED
    BY <1>5, <2>1, FS_Difference, ZenonT(60)
<1>10. Cardinality(W) <= Cardinality(Slots)
  BY Zenon DEF Accepted, W
<1>. QED
  BY <1>1, <1>4, <1>6, <1>7, <1>8, <1>9, <1>10

\* Eviction frees a slot for each of its victims (_allocate_slots).
LEMMA PoolSize ==
    ASSUME IInv, NEW w \in Schedules, NEW V \in Victims(w)
    PROVE  /\ Cardinality(Pool(V)) = Cardinality(free) + Cardinality(V)
           /\ Cardinality(free) \in Nat /\ Cardinality(V) \in Nat
<1>. DEFINE H == {slot[p] : p \in V}
<1>1. V \subseteq Resident /\ Resident \subseteq Plans /\ V \subseteq Plans
  BY Zenon DEF Victims, Evictable, Resident
<1>2. /\ \A p, q \in V : slot[p] = slot[q] => p = q
      /\ \A p \in V : slot[p] \in Slots /\ slot[p] \notin free
      /\ free \subseteq Slots
  BY <1>1, Zenon DEF IInv, Types, SlotsApart, Resident
<1>3. IsFiniteSet(V) /\ IsFiniteSet(free)
  BY <1>1, <1>2, AdalnAssumption, FS_Subset, Zenon
<1>4. IsFiniteSet(H) /\ Cardinality(H) = Cardinality(V)
  <2>. DEFINE g == [p \in V |-> slot[p]]
  <2>1. g \in Bijection(V, H)
    BY <1>2, Zenon DEF Bijection, Injection, Surjection, IsInjective
  <2>2. ExistsBijection(V, H)
    BY <2>1, Zenon DEF ExistsBijection
  <2>. QED
    BY <2>2, <1>3, FS_Bijection, Zenon
<1>5. free \cap H = {} /\ Pool(V) = free \cup H
  BY <1>2, Zenon DEF Pool
<1>. HIDE DEF H
<1>6. Cardinality(free) \in Nat /\ Cardinality(H) \in Nat
  BY <1>3, <1>4, FS_CardinalityType, Zenon
<1>7. Cardinality(Pool(V)) = Cardinality(free) + Cardinality(H) - Cardinality({})
  <2>1. Cardinality(free \cup H) = Cardinality(free) + Cardinality(H) - Cardinality(free \cap H)
    BY <1>3, <1>4, FS_Union, Zenon
  <2>. QED
    BY <1>5, <2>1, Zenon
<1>8. Cardinality({}) = 0
  BY FS_EmptySet, Zenon
<1>. QED
  BY <1>4, <1>6, <1>7, <1>8

\* As long as no slot is lost, no request that build() lets through runs the
\* free list dry.
LEMMA NeverPopsEmpty ==
    ASSUME IInv, ~leaked, NEW w \in Schedules
    PROVE  ~PopsEmpty(w)
<1>. SUFFICES ASSUME PopsEmpty(w) PROVE FALSE
  BY Zenon
<1>1. phase = "idle" /\ Accepted(w)
  BY Zenon DEF PopsEmpty
<1>2. PICK V \in Victims(w) : Cardinality(Pool(V)) < Cardinality(Missing(w))
  BY Zenon DEF PopsEmpty
<1>. DEFINE m == Cardinality(Missing(w))
            n == Cardinality(free)
            v == Cardinality(V)
<1>3. Cardinality(Pool(V)) = n + v /\ n \in Nat /\ v \in Nat
  BY <1>2, PoolSize, Zenon
<1>4. m <= n + Cardinality(Evictable(w))
  BY <1>1, AdmittedHasRoom, Zenon
<1>5. m \in Nat
  <2>1. Missing(w) \subseteq Plans
    BY SchedulePlans, Zenon DEF Missing
  <2>. QED
    BY <2>1, AdalnAssumption, FS_Subset, FS_CardinalityType, Zenon
<1>6. v <= Shortfall(w) /\ (v < Shortfall(w) => V = Evictable(w))
  BY <1>2, Zenon DEF Victims
<1>7. Shortfall(w) = IF m > n THEN m - n ELSE 0
  BY Zenon DEF Shortfall
<1>8. CASE V = Evictable(w)
  <2>1. m <= n + v
    BY <1>4, <1>8, Zenon
  <2>. HIDE DEF m, n, v
  <2>2. n + v < m
    BY <1>2, <1>3, Zenon DEF m
  <2>. QED
    BY <1>3, <1>5, <2>1, <2>2
<1>9. CASE ~(v < Shortfall(w))
  <2>. HIDE DEF m, n, v
  <2>1. n + v < m
    BY <1>2, <1>3, Zenon DEF m
  <2>. QED
    BY <1>3, <1>5, <1>7, <1>9, <2>1
<1>. QED
  BY <1>6, <1>8, <1>9, Zenon

\* What the comment in _allocate_slots claims, and what makes it true: unless
\* embed raises between the reservation of slots and the handler that hands them
\* back, no slot is ever lost, and a request that passes the wanted-count check
\* of build() finds its slots, whatever else fails or is evicted.
THEOREM OnlyEmbedStarves ==
    ASSUME "embed" \notin Faults
    PROVE  Spec => [](~leaked /\ AdmittedFits)
<1>1. Init => ~leaked
  BY Zenon DEF Init
<1>2. IInv /\ ~leaked /\ [Next]_vars => ~leaked'
  <2>. SUFFICES ASSUME IInv, ~leaked, [Next]_vars PROVE leaked' = leaked \/ leaked' = FALSE
    BY Zenon
  <2>1. CASE \E w \in Schedules : \/ Hit(w) \/ SwapIn(w) \/ SwapInFails(w)
                                  \/ RebuildBegin(w) \/ PopsEmpty(w)
    BY <2>1, NeverPopsEmpty, Zenon DEF Hit, SwapIn, SwapInFails, RebuildBegin
  <2>2. CASE Land \/ SwapInEnd \/ EmbedFails \/ ProjectFails \/ Project \/ Finish
    BY <2>2, Zenon DEF Land, SwapInEnd, EmbedFails, ProjectFails, Project, Finish
  <2>3. CASE \E s \in Sources : Invalidate(s)
    BY <2>3, Zenon DEF Invalidate
  <2>4. CASE UNCHANGED vars
    BY <2>4, Zenon DEF vars
  <2>. QED
    BY <2>1, <2>2, <2>3, <2>4, Zenon DEF Next
<1>3. IInv /\ ~leaked => AdmittedFits
  BY AdmittedHasRoom, Zenon DEF AdmittedFits
<1>. QED
  BY <1>1, <1>2, <1>3, Inductive, PTL DEF Spec

-----------------------------------------------------------------------------
(***************************************************************************)
(* Queues, and how many groups of one hold a plan.                         *)
(***************************************************************************)
\* The groups of g that a plan belongs to, and their number.
Holders(g, p) == {i \in 1..Len(g) : p \in Range(g[i])}
Count(g, p)   == Cardinality(Holders(g, p))

\* A plan is held a finite number of times.
LEMMA CountType ==
    ASSUME NEW S, NEW g \in Seq(S), NEW p
    PROVE  IsFiniteSet(Holders(g, p)) /\ Count(g, p) \in Nat
<1>1. Len(g) \in Nat /\ Holders(g, p) \in SUBSET (1..Len(g))
  BY DEF Holders
<1>2. IsFiniteSet(1..Len(g))
  BY <1>1, FS_Interval
<1>3. IsFiniteSet(Holders(g, p))
  BY <1>1, <1>2, FS_Subset, Zenon
<1> QED
  BY <1>3, FS_CardinalityType, Zenon DEF Count

\* One more group holds its plans once more.
LEMMA CountAppend ==
    ASSUME NEW S, NEW g \in Seq(S), NEW w \in S, NEW p
    PROVE  /\ p \in Range(w) => Count(Append(g, w), p) = Count(g, p) + 1
           /\ p \notin Range(w) => Count(Append(g, w), p) = Count(g, p)
<1> DEFINE n == Len(g)
           h == Append(g, w)
<1>1. n \in Nat /\ Len(h) = n + 1 /\ h[n + 1] = w /\ \A i \in 1..n : h[i] = g[i]
  OBVIOUS
<1>2. IsFiniteSet(Holders(g, p)) /\ Count(g, p) \in Nat
  BY CountType, Zenon
<1>3. n + 1 \notin Holders(g, p)
  BY <1>1 DEF Holders
<1> HIDE DEF h
<1>4. /\ p \in Range(w) => Holders(h, p) = Holders(g, p) \cup {n + 1}
      /\ p \notin Range(w) => Holders(h, p) = Holders(g, p)
  <2>1. 1..(n + 1) = (1..n) \cup {n + 1} /\ n + 1 \notin 1..n
    BY <1>1
  <2>2. \A i \in 1..n : i \in Holders(h, p) <=> i \in Holders(g, p)
    BY <1>1, <2>1, Zenon DEF Holders
  <2>3. n + 1 \in Holders(h, p) <=> p \in Range(w)
    BY <1>1, <2>1, Zenon DEF Holders
  <2>4. Holders(h, p) \subseteq (1..n) \cup {n + 1} /\ Holders(g, p) \subseteq 1..n
    BY <1>1, <2>1, Zenon DEF Holders
  <2>5. CASE p \in Range(w)
    BY <2>2, <2>3, <2>4, <2>5, Zenon
  <2>6. CASE p \notin Range(w)
    BY <2>2, <2>3, <2>4, <2>6, Zenon
  <2> QED
    BY <2>5, <2>6, Zenon
<1>5. CASE p \in Range(w)
  <2>1. Cardinality(Holders(g, p) \cup {n + 1}) = Cardinality(Holders(g, p)) + 1
    BY <1>2, <1>3, FS_AddElement, Zenon
  <2> QED
    BY <1>4, <1>5, <2>1, Zenon DEF Count, h
<1>6. CASE p \notin Range(w)
  BY <1>4, <1>6, Zenon DEF Count, h
<1> QED
  BY <1>5, <1>6, Zenon

\* The groups that are evicted and those that stay hold a plan, together, as
\* often as all of them did.
LEMMA CountDrop ==
    ASSUME NEW S, NEW g \in Seq(S), NEW n \in 0..Len(g), NEW p
    PROVE  /\ Cardinality({i \in 1..n : p \in Range(g[i])}) \in Nat
           /\ Count(SubSeq(g, n + 1, Len(g)), p) \in Nat
           /\ Count(g, p) = Cardinality({i \in 1..n : p \in Range(g[i])})
                            + Count(SubSeq(g, n + 1, Len(g)), p)
<1> DEFINE m == Len(g)
           h == SubSeq(g, n + 1, m)
           A == {i \in 1..n : p \in Range(g[i])}
           B == {i \in (n + 1)..m : p \in Range(g[i])}
<1>1. m \in Nat /\ n \in Nat /\ n <= m
  OBVIOUS
<1>2. h \in Seq(S) /\ Len(h) = m - n /\ \A i \in 1..(m - n) : h[i] = g[n + i]
  BY <1>1
<1>3. IsFiniteSet(Holders(g, p)) /\ IsFiniteSet(Holders(h, p)) /\ Count(h, p) \in Nat
  BY <1>2, CountType, Zenon
<1>4. A \subseteq Holders(g, p) /\ B \subseteq Holders(g, p) /\ A \cap B = {}
      /\ Holders(g, p) = A \cup B
  BY <1>1 DEF Holders
<1>5. IsFiniteSet(A) /\ IsFiniteSet(B)
  BY <1>3, <1>4, FS_Subset, Zenon
<1>6. Cardinality(Holders(g, p)) = Cardinality(A) + Cardinality(B)
  <2>1. Cardinality(A \cup B) = Cardinality(A) + Cardinality(B) - Cardinality({})
    BY <1>4, <1>5, FS_Union, Zenon
  <2>2. Cardinality(A) \in Nat /\ Cardinality(B) \in Nat /\ Cardinality({}) = 0
    BY <1>5, FS_CardinalityType, FS_EmptySet, Zenon
  <2> HIDE DEF A, B
  <2> QED
    BY <1>4, <2>1, <2>2
<1>7. Cardinality(Holders(h, p)) = Cardinality(B)
  <2> DEFINE f == [i \in Holders(h, p) |-> n + i]
  <2> HIDE DEF h
  <2>1. \A i \in Holders(h, p) : i \in 1..(m - n) /\ n + i \in B
    BY <1>1, <1>2 DEF Holders
  <2>2. \A j \in B : j - n \in Holders(h, p) /\ n + (j - n) = j
    BY <1>1, <1>2 DEF Holders
  <2>3. \A i, j \in Holders(h, p) : n + i = n + j => i = j
    BY <1>1, <2>1
  <2> HIDE DEF B
  <2>4. f \in Injection(Holders(h, p), B)
    BY <2>1, <2>3, Zenon DEF Injection, IsInjective
  <2>5. f \in Surjection(Holders(h, p), B)
    BY <2>1, <2>2, Zenon DEF Surjection
  <2>6. ExistsBijection(Holders(h, p), B)
    BY <2>4, <2>5, Zenon DEF ExistsBijection, Bijection
  <2> QED
    BY <1>3, <2>6, FS_Bijection, Zenon
<1>8. Cardinality(A) \in Nat
  BY <1>5, FS_CardinalityType, Zenon
<1> QED
  BY <1>3, <1>6, <1>7, <1>8, Zenon DEF Count

\* How often a plan is held does not depend on the order of the groups.
LEMMA CountOfRange ==
    ASSUME NEW S, NEW g \in Seq(S), IsInjective(g), NEW p
    PROVE  Count(g, p) = Cardinality({v \in Range(g) : p \in Range(v)})
<1> DEFINE B == {v \in Range(g) : p \in Range(v)}
           f == [i \in Holders(g, p) |-> g[i]]
<1>1. DOMAIN g = 1..Len(g)
  OBVIOUS
<1>2. f \in Injection(Holders(g, p), B)
  BY <1>1, Zenon DEF Injection, IsInjective, Holders, Range
<1>3. \A v \in B : \E i \in Holders(g, p) : g[i] = v
  BY <1>1, Zenon DEF Holders, Range
<1>4. f \in Surjection(Holders(g, p), B)
  BY <1>2, <1>3, Zenon DEF Injection, Surjection
<1>5. ExistsBijection(Holders(g, p), B)
  BY <1>2, <1>4, Zenon DEF ExistsBijection, Bijection
<1>6. IsFiniteSet(Holders(g, p))
  BY CountType, Zenon
<1> QED
  BY <1>5, <1>6, FS_Bijection, Zenon DEF Count

\* Two queues without repetitions that have nothing in common, one after the
\* other, have no repetition.
LEMMA ConcatInjective ==
    ASSUME NEW S, NEW s \in Seq(S), NEW t \in Seq(S), IsInjective(s), IsInjective(t),
           Range(s) \cap Range(t) = {}
    PROVE  s \o t \in Seq(S) /\ IsInjective(s \o t) /\ Range(s \o t) = Range(s) \cup Range(t)
<1> DEFINE n == Len(s)
           m == Len(t)
           u == s \o t
<1>1. /\ n \in Nat /\ m \in Nat /\ u \in Seq(S) /\ DOMAIN u = 1..(n + m)
      /\ DOMAIN s = 1..n /\ DOMAIN t = 1..m
      /\ \A i \in 1..n : u[i] = s[i]
      /\ \A i \in (n + 1)..(n + m) : u[i] = t[i - n] /\ i - n \in 1..m
  OBVIOUS
<1>2. Range(u) = Range(s) \cup Range(t)
  BY RangeConcat, Zenon
<1> HIDE DEF u, n, m
<1>3. \A i \in 1..n : u[i] \in Range(s)
  BY <1>1, Zenon DEF Range
<1>4. \A i \in (n + 1)..(n + m) : u[i] \in Range(t)
  BY <1>1, Zenon DEF Range
<1>5. ASSUME NEW i \in 1..(n + m), NEW j \in 1..(n + m), u[i] = u[j] PROVE i = j
  <2>1. i \in 1..n \/ i \in (n + 1)..(n + m)
    BY <1>1
  <2>2. j \in 1..n \/ j \in (n + 1)..(n + m)
    BY <1>1
  <2>3. CASE i \in 1..n /\ j \in 1..n
    BY <1>1, <1>5, <2>3, Zenon DEF IsInjective
  <2>4. CASE i \in (n + 1)..(n + m) /\ j \in (n + 1)..(n + m)
    <3> DEFINE a == i - n
               b == j - n
    <3>a. u[i] = t[a] /\ u[j] = t[b] /\ a \in DOMAIN t /\ b \in DOMAIN t
      BY <1>1, <2>4, Zenon
    <3> HIDE DEF a, b
    <3>b. a = b
      BY <1>5, <3>a, Zenon DEF IsInjective
    <3>1. i - n = j - n
      BY <3>b, Zenon DEF a, b
    <3> QED
      BY <1>1, <3>1
  <2> QED
    BY <1>3, <1>4, <1>5, <2>1, <2>2, <2>3, <2>4, Zenon
<1> QED
  BY <1>1, <1>2, <1>5, Zenon DEF IsInjective, u

\* move_to_end keeps what a queue holds, and that it holds it once.
LEMMA TouchedIs ==
    ASSUME NEW S, NEW g \in Seq(S), NEW w \in Seq(S), IsInjective(g), IsInjective(w),
           Range(w) \subseteq Range(g)
    PROVE  Touched(g, w) \in Seq(S) /\ IsInjective(Touched(g, w)) /\ Range(Touched(g, w)) = Range(g)
<1>1. Minus(g, Range(w)) \in Seq(S)
  BY MinusType, Zenon
<1>2. Range(Minus(g, Range(w))) = Range(g) \ Range(w) /\ IsInjective(Minus(g, Range(w)))
  BY MinusIs, Zenon
<1>3. Range(Minus(g, Range(w))) \cap Range(w) = {}
  BY <1>2, Zenon
<1>4. (Range(g) \ Range(w)) \cup Range(w) = Range(g)
  BY Zenon
<1> DEFINE A == Minus(g, Range(w))
<1> HIDE DEF A
<1>5. A \in Seq(S) /\ IsInjective(A) /\ Range(A) \cap Range(w) = {}
  BY <1>1, <1>2, <1>3, Zenon DEF A
<1>6. A \o w \in Seq(S) /\ IsInjective(A \o w) /\ Range(A \o w) = Range(A) \cup Range(w)
  BY <1>5, ConcatInjective
<1> QED
  BY <1>2, <1>4, <1>6, Zenon DEF Touched, A

-----------------------------------------------------------------------------
(***************************************************************************)
(* The accounts of the host tier: groups that are refreshed or recorded.   *)
(***************************************************************************)
\* The host tier's accounts: every group is recorded once, a plan is held once
\* by each group it belongs to and has pages, all of them, as long as it is
\* held; the other pages are free.
HostCounts ==
    /\ groups \in Seq(Schedules) /\ IsInjective(groups) /\ refs \in [Plans -> Nat]
    /\ \A p \in Plans : refs[p] = Count(groups, p)
    /\ \A p \in Plans : page[p] = {} <=> refs[p] = 0
    /\ \A p \in Plans : page[p] # {} => Cardinality(page[p]) = Length[p]
    /\ \A i \in Pages : i \in freePages <=> \A p \in Plans : i \notin page[p]

\* Refreshing a group that is recorded moves it, and changes no count.
LEMMA RefreshCounts ==
    ASSUME HostCounts, NEW w \in Schedules, \E i \in 1..Len(groups) : groups[i] = w,
           groups' = Touched(groups, <<w>>), UNCHANGED <<page, refs, freePages>>
    PROVE  HostCounts'
<1>1. groups \in Seq(Schedules) /\ IsInjective(groups) /\ DOMAIN groups = 1..Len(groups)
  BY DEF HostCounts
<1>2. <<w>> \in Seq(Schedules) /\ Range(<<w>>) = {w} /\ IsInjective(<<w>>)
  BY DEF Range, IsInjective
<1>3. Range(<<w>>) \subseteq Range(groups)
  BY <1>1, <1>2, Zenon DEF Range
<1>4. groups' \in Seq(Schedules) /\ IsInjective(groups') /\ Range(groups') = Range(groups)
  BY <1>1, <1>2, <1>3, TouchedIs, Zenon
<1>5. \A p \in Plans : Count(groups', p) = Count(groups, p)
  <2> TAKE p \in Plans
  <2>1. Count(groups, p) = Cardinality({v \in Range(groups) : p \in Range(v)})
    BY <1>1, CountOfRange, Zenon
  <2>2. Count(groups', p) = Cardinality({v \in Range(groups') : p \in Range(v)})
    BY <1>4, CountOfRange, Zenon
  <2> QED
    BY <1>4, <2>1, <2>2, Zenon
<1> QED
  BY <1>4, <1>5, Zenon DEF HostCounts

\* A new group after those that are there is recorded once.
LEMMA AppendInjective ==
    ASSUME NEW S, NEW g \in Seq(S), NEW w \in S, IsInjective(g), w \notin Range(g)
    PROVE  Append(g, w) \in Seq(S) /\ IsInjective(Append(g, w))
<1>1. PICK n \in Nat : n = Len(g) /\ DOMAIN g = 1..n
  OBVIOUS
<1>2. PICK h : h = Append(g, w)
  BY Zenon
<1>3. h \in Seq(S) /\ DOMAIN h = 1..(n + 1) /\ h[n + 1] = w /\ \A i \in 1..n : h[i] = g[i]
  BY <1>1, <1>2
<1>4. \A i \in 1..(n + 1) : i \in 1..n \/ i = n + 1
  BY <1>1
<1>5. \A i \in 1..n : h[i] # w
  BY <1>1, <1>3, Zenon DEF Range
<1>6. \A i, j \in 1..n : h[i] = h[j] => i = j
  BY <1>1, <1>3, Zenon DEF IsInjective
<1> QED
  BY <1>2, <1>3, <1>4, <1>5, <1>6, Zenon DEF IsInjective

\* register_group keeps the accounts.
LEMMA RegisterCounts ==
    ASSUME HostCounts, NEW w \in Schedules, RegisterGroup(w)
    PROVE  HostCounts'
<1>1. groups \in Seq(Schedules) /\ IsInjective(groups) /\ DOMAIN groups = 1..Len(groups)
      /\ refs \in [Plans -> Nat] /\ UNCHANGED <<page, freePages, mem>>
  BY DEF HostCounts, RegisterGroup
<1>2. CASE \E i \in 1..Len(groups) : groups[i] = w
  BY <1>1, <1>2, RefreshCounts, Zenon DEF RegisterGroup
<1>3. CASE UNCHANGED <<groups, refs>>
  BY <1>1, <1>3, Zenon DEF HostCounts
<1>4. CASE /\ ~\E i \in 1..Len(groups) : groups[i] = w
           /\ Range(w) \subseteq Stored
           /\ groups' = Append(groups, w)
           /\ refs' = [p \in Plans |-> IF p \in Range(w) THEN refs[p] + 1 ELSE refs[p]]
  <2>1. w \notin Range(groups)
    BY <1>1, <1>4, Zenon DEF Range
  <2>2. groups' \in Seq(Schedules) /\ IsInjective(groups')
    BY <1>1, <1>4, <2>1, AppendInjective, Zenon
  <2>3. \A p \in Plans : /\ p \in Range(w) => Count(groups', p) = Count(groups, p) + 1
                         /\ p \notin Range(w) => Count(groups', p) = Count(groups, p)
    BY <1>1, <1>4, CountAppend, Zenon
  <2>4. \A p \in Plans : /\ refs'[p] = Count(groups', p) /\ refs'[p] \in Nat
                         /\ refs'[p] = 0 <=> refs[p] = 0 /\ p \notin Range(w)
    BY <1>1, <1>4, <2>3 DEF HostCounts
  <2>5. \A p \in Plans : p \in Range(w) => page[p] # {}
    BY <1>4, Zenon DEF Stored
  <2>6. refs' \in [Plans -> Nat]
    BY <1>4, <2>4, Zenon
  <2> QED
    BY <1>1, <2>2, <2>4, <2>5, <2>6, Zenon DEF HostCounts
<1> QED
  BY <1>2, <1>3, <1>4, Zenon DEF RegisterGroup

\* What store_group evicts is a beginning of the list of groups: there is a
\* shortest one that is enough, or all of it.
LEMMA EvictionsIn ==
    ASSUME groups \in Seq(Schedules), NEW w
    PROVE  Evictions(w) \in 0..Len(groups)
<1> DEFINE Enough(n) == Needed(w) <= Cardinality(FreeAfter(w, n))
           T == {n \in 0..Len(groups) : Enough(n) \/ n = Len(groups)}
<1>1. Len(groups) \in Nat
  OBVIOUS
<1> HIDE DEF Enough
<1>2. T \subseteq Nat /\ Len(groups) \in T
  BY <1>1
<1>3. PICK m \in T : \A n \in T : m <= n
  BY <1>2, Least, Zenon
<1>4. \A k \in 0..(m - 1) : k \in 0..Len(groups) /\ ~(m <= k)
  BY <1>1, <1>3
<1>5. \A k \in 0..(m - 1) : ~Enough(k)
  BY <1>3, <1>4, Zenon
<1>6. \E n \in 0..Len(groups) : /\ Enough(n) \/ n = Len(groups)
                                /\ \A k \in 0..(n - 1) : ~Enough(k)
  BY <1>3, <1>5, Zenon
<1> QED
  BY <1>6, Zenon DEF Evictions, Enough

\* A queue without its first n elements.
LEMMA SuffixIs ==
    ASSUME NEW S, NEW g \in Seq(S), NEW n \in 0..Len(g)
    PROVE  /\ SubSeq(g, n + 1, Len(g)) \in Seq(S)
           /\ DOMAIN SubSeq(g, n + 1, Len(g)) = 1..(Len(g) - n)
           /\ \A i \in 1..(Len(g) - n) : SubSeq(g, n + 1, Len(g))[i] = g[n + i]
<1>1. PICK m \in Nat : m = Len(g) /\ n \in Nat /\ n <= m
  OBVIOUS
<1>2. SubSeq(g, n + 1, m) \in Seq(S) /\ Len(SubSeq(g, n + 1, m)) = m - n
  BY <1>1
<1>3. DOMAIN SubSeq(g, n + 1, m) = 1..(m - n)
  BY <1>1, <1>2
<1>4. \A i \in 1..(m - n) : SubSeq(g, n + 1, m)[i] = g[n + i]
  BY <1>1
<1> QED
  BY <1>1, <1>2, <1>3, <1>4, Zenon

\* What is left of the groups when the first n have gone, and how often a plan
\* is held then.
Left(w, n, h) ==
    /\ h \in Seq(Schedules) /\ IsInjective(h) /\ Range(h) \subseteq Range(groups)
    /\ \A p \in Plans : Count(h, p) \in Nat
    /\ \A p \in Plans : page[p] = {} => Count(h, p) = 0
    /\ \A p \in Plans : p \in Range(w) /\ page[p] # {} => Held(w, n)[p] = Count(h, p) + 1
    /\ \A p \in Plans : p \notin Range(w) \/ page[p] = {} => Held(w, n)[p] = Count(h, p)

\* store_group drops groups from the oldest on.
LEMMA DroppedCounts ==
    ASSUME HostCounts, NEW w \in Schedules, NEW n \in 0..Len(groups), NEW h,
           h = SubSeq(groups, n + 1, Len(groups))
    PROVE  Left(w, n, h)
<1>1. groups \in Seq(Schedules) /\ IsInjective(groups) /\ DOMAIN groups = 1..Len(groups)
      /\ n \in Nat /\ Len(groups) \in Nat /\ n <= Len(groups)
  BY DEF HostCounts
<1>a. h \in Seq(Schedules) /\ \A i \in 1..(Len(groups) - n) : h[i] = groups[n + i]
  BY <1>1, SuffixIs, Zenon
<1>b. DOMAIN h = 1..(Len(groups) - n)
  BY <1>1, SuffixIs, Zenon
<1>c. \A i \in 1..(Len(groups) - n) : n + i \in 1..Len(groups)
  BY <1>1
<1>2. \A i \in DOMAIN h : h[i] = groups[n + i] /\ n + i \in DOMAIN groups
  BY <1>1, <1>a, <1>b, <1>c, Zenon
<1>3. IsInjective(h)
  <2>1. \A i, j \in DOMAIN h : h[i] = h[j] => n + i = n + j
    <3> TAKE i, j \in DOMAIN h
    <3>1. PICK a, b : a = n + i /\ b = n + j
      BY Zenon
    <3> QED
      BY <1>1, <1>2, <3>1, Zenon DEF IsInjective
  <2>2. \A i, j \in DOMAIN h : n + i = n + j => i = j
    BY <1>1, <1>b
  <2> QED
    BY <2>1, <2>2, Zenon DEF IsInjective
<1>4. Range(h) \subseteq Range(groups)
  BY <1>2, Zenon DEF Range
<1>5. ASSUME NEW p \in Plans
      PROVE  /\ Count(h, p) \in Nat
             /\ page[p] = {} => Count(h, p) = 0
             /\ p \in Range(w) /\ page[p] # {} => Held(w, n)[p] = Count(h, p) + 1
             /\ p \notin Range(w) \/ page[p] = {} => Held(w, n)[p] = Count(h, p)
  <2>1. PICK c : c = Cardinality({i \in 1..n : p \in Range(groups[i])})
    BY Zenon
  <2>2. c \in Nat /\ Count(h, p) \in Nat /\ Count(groups, p) = c + Count(h, p)
    BY <1>1, <2>1, CountDrop, Zenon
  <2>3. refs[p] = c + Count(h, p) /\ (page[p] = {} <=> refs[p] = 0)
    BY <2>2, Zenon DEF HostCounts
  <2>4. Held(w, n)[p] = refs[p] + (IF p \in Range(w) \cap Stored THEN 1 ELSE 0) - c
    BY <2>1, Zenon DEF Held
  <2>5. p \in Range(w) \cap Stored <=> p \in Range(w) /\ page[p] # {}
    BY Zenon DEF Stored
  <2> QED
    BY <2>2, <2>3, <2>4, <2>5
<1> QED
  BY <1>a, <1>3, <1>4, <1>5, Zenon DEF Left

-----------------------------------------------------------------------------
(***************************************************************************)
(* The accounts of the host tier: groups that are stored.                  *)
(***************************************************************************)
\* store_group with room for the group: the groups before it, the plans that
\* only they held, and the pages of these plans make way for it.
LEMMA StoredCounts ==
    ASSUME Types, HostRight, HostCounts, NEW w \in Schedules, w \notin Range(groups),
           NEW n \in 0..Len(groups), NEW h, h = SubSeq(groups, n + 1, Len(groups)),
           NEW f \in Placements(w, FreeAfter(w, n)),
           page' = [p \in Plans |-> IF p \in DOMAIN f THEN f[p]
                                    ELSE IF p \in Gone(w, n) THEN {} ELSE page[p]],
           refs' = [p \in Plans |-> IF p \in DOMAIN f THEN 1 ELSE Held(w, n)[p]],
           groups' = Append(h, w),
           freePages' = FreeAfter(w, n) \ UNION {f[p] : p \in DOMAIN f}
    PROVE  HostCounts'
<1>1. Left(w, n, h)
  BY DroppedCounts, Zenon
<1>2. groups' \in Seq(Schedules) /\ IsInjective(groups')
  <2>1. h \in Seq(Schedules) /\ IsInjective(h) /\ w \notin Range(h)
    BY <1>1, Zenon DEF Left
  <2> QED
    BY <2>1, AppendInjective, Zenon
<1>3. \A p \in Plans : /\ p \in Range(w) => Count(groups', p) = Count(h, p) + 1
                       /\ p \notin Range(w) => Count(groups', p) = Count(h, p)
  <2>1. h \in Seq(Schedules)
    BY <1>1, Zenon DEF Left
  <2> QED
    BY <2>1, CountAppend, Zenon
<1>4. /\ DOMAIN f = Range(w) \ Stored
      /\ \A p \in DOMAIN f : f[p] \subseteq FreeAfter(w, n) /\ Cardinality(f[p]) = Length[p]
  BY Zenon DEF Placements
<1>5. \A p \in Plans : p \in DOMAIN f <=> p \in Range(w) /\ page[p] = {}
  BY <1>4, Zenon DEF Stored
<1>6. \A p \in Plans : p \in Gone(w, n) <=> page[p] # {} /\ Held(w, n)[p] = 0
  BY Zenon DEF Gone, Stored
<1>7. DOMAIN f \subseteq Plans
  BY <1>4, SchedulePlans, Zenon
<1>8. \A p \in Plans : refs'[p] = Count(groups', p) /\ refs'[p] \in Nat
  <2> SUFFICES ASSUME NEW p \in Plans PROVE refs'[p] = Count(groups', p) /\ refs'[p] \in Nat
    BY Zenon
  <2>1. Count(h, p) \in Nat
    BY <1>1, Zenon DEF Left
  <2>2. CASE p \in Range(w) /\ page[p] = {}
    <3>1. refs'[p] = 1 /\ Count(h, p) = 0 /\ Count(groups', p) = Count(h, p) + 1
      BY <1>1, <1>3, <1>5, <2>2, Zenon DEF Left
    <3> QED
      BY <3>1
  <2>3. CASE ~(p \in Range(w) /\ page[p] = {})
    <3>1. refs'[p] = Held(w, n)[p]
      BY <1>5, <2>3, Zenon
    <3>2. Held(w, n)[p] = Count(groups', p)
      BY <1>1, <1>3, <2>3, Zenon DEF Left
    <3>3. Count(groups', p) \in {Count(h, p), Count(h, p) + 1}
      BY <1>3, Zenon
    <3> QED
      BY <2>1, <3>1, <3>2, <3>3
  <2> QED
    BY <2>2, <2>3, Zenon
<1>9. refs' \in [Plans -> Nat]
  BY <1>8, Zenon
<1>10. \A p \in DOMAIN f : f[p] # {} /\ page'[p] = f[p] /\ refs'[p] = 1
  <2> SUFFICES ASSUME NEW p \in DOMAIN f PROVE f[p] # {} /\ page'[p] = f[p] /\ refs'[p] = 1
    BY Zenon
  <2>1. Length[p] \in Nat \ {0} /\ Cardinality({}) = 0
    BY <1>7, AdalnAssumption, FS_EmptySet, Zenon
  <2>2. Cardinality(f[p]) = Length[p]
    BY <1>4, Zenon
  <2>3. f[p] # {}
    BY <2>1, <2>2
  <2> QED
    BY <1>7, <2>3, Zenon
<1>11. \A p \in Plans : page'[p] = {} <=> refs'[p] = 0
  <2> SUFFICES ASSUME NEW p \in Plans PROVE page'[p] = {} <=> refs'[p] = 0
    BY Zenon
  <2>1. CASE p \in DOMAIN f
    <3>1. page'[p] # {} /\ refs'[p] = 1
      BY <1>10, <2>1, Zenon
    <3> QED
      BY <3>1
  <2>2. CASE p \notin DOMAIN f /\ page[p] # {}
    <3>1. refs'[p] = Held(w, n)[p] /\ page'[p] = IF p \in Gone(w, n) THEN {} ELSE page[p]
      BY <2>2, Zenon
    <3> QED
      BY <1>6, <2>2, <3>1, Zenon
  <2>3. CASE p \notin DOMAIN f /\ page[p] = {}
    <3>1. page'[p] = {} /\ refs'[p] = Held(w, n)[p]
      BY <2>3, Zenon
    <3>2. p \notin Range(w) /\ Count(h, p) = 0
      BY <1>1, <1>5, <2>3, Zenon DEF Left
    <3>3. Held(w, n)[p] = 0
      BY <1>1, <3>2, Zenon DEF Left
    <3> QED
      BY <3>1, <3>3, Zenon
  <2> QED
    BY <2>1, <2>2, <2>3, Zenon
<1>12. \A p \in Plans : page'[p] # {} => Cardinality(page'[p]) = Length[p]
  BY <1>4, <1>10, Zenon DEF HostCounts
<1>13. \A i \in Pages : i \in freePages' <=> \A p \in Plans : i \notin page'[p]
  <2> SUFFICES ASSUME NEW i \in Pages
               PROVE  i \in freePages' <=> \A p \in Plans : i \notin page'[p]
    BY Zenon
  <2>1. i \in FreeAfter(w, n) <=> i \in freePages \/ \E p \in Gone(w, n) : i \in page[p]
    BY Zenon DEF FreeAfter
  <2>2. i \in freePages' <=> i \in FreeAfter(w, n) /\ \A p \in DOMAIN f : i \notin f[p]
    BY Zenon
  <2>3. i \in freePages <=> \A p \in Plans : i \notin page[p]
    BY Zenon DEF HostCounts
  <2>4. \A p, q \in Plans : i \in page[p] /\ i \in page[q] => p = q
    BY Zenon DEF HostRight
  <2>5. \A p \in Plans : page'[p] = IF p \in DOMAIN f THEN f[p]
                                    ELSE IF p \in Gone(w, n) THEN {} ELSE page[p]
    BY Zenon
  <2>6. \A p \in DOMAIN f : page[p] = {} /\ p \notin Gone(w, n)
    BY <1>5, <1>6, <1>7, Zenon
  <2>7. ASSUME i \in freePages', NEW p \in Plans PROVE i \notin page'[p]
    <3>1. CASE p \in DOMAIN f
      BY <2>2, <2>5, <2>7, <3>1, Zenon
    <3>2. CASE p \notin DOMAIN f /\ p \notin Gone(w, n)
      <4>1. page'[p] = page[p]
        BY <2>5, <3>2, Zenon
      <4>2. i \in freePages \/ \E q \in Gone(w, n) : i \in page[q]
        BY <2>1, <2>2, <2>7, Zenon
      <4> QED
        BY <2>3, <2>4, <3>2, <4>1, <4>2, Zenon DEF Gone, Stored
    <3>3. CASE p \in Gone(w, n)
      BY <2>5, <2>6, <3>3, Zenon
    <3> QED
      BY <3>1, <3>2, <3>3, Zenon
  <2>8. ASSUME \A p \in Plans : i \notin page'[p] PROVE i \in freePages'
    <3>1. \A p \in DOMAIN f : i \notin f[p]
      BY <1>7, <2>5, <2>8, Zenon
    <3>2. \A p \in Plans : i \in page[p] => p \in Gone(w, n)
      BY <2>5, <2>6, <2>8, Zenon
    <3> QED
      BY <2>1, <2>2, <2>3, <3>1, <3>2, Zenon
  <2> QED
    BY <2>7, <2>8, Zenon
<1> QED
  BY <1>2, <1>8, <1>9, <1>11, <1>12, <1>13, Zenon DEF HostCounts

\* store_group that has evicted groups in vain: what it held is let go.
Unstores(w, n, h, unheld, lost) ==
    /\ unheld = [p \in Plans |-> IF p \in Range(w) \cap Stored
                                 THEN Held(w, n)[p] - 1 ELSE Held(w, n)[p]]
    /\ lost = {p \in Stored : unheld[p] = 0}
    /\ page' = [p \in Plans |-> IF p \in lost THEN {} ELSE page[p]]
    /\ refs' = unheld /\ groups' = h
    /\ freePages' = freePages \cup UNION {page[p] : p \in lost}

\* That leaves the accounts right, too.
LEMMA UnstoredCounts ==
    ASSUME HostRight, HostCounts, NEW w \in Schedules,
           NEW n \in 0..Len(groups), NEW h, h = SubSeq(groups, n + 1, Len(groups)),
           NEW unheld, NEW lost, Unstores(w, n, h, unheld, lost)
    PROVE  HostCounts'
<1> USE DEF Unstores
<1>1. Left(w, n, h)
  BY DroppedCounts, Zenon
<1>2. \A p \in Plans : unheld[p] = Count(h, p)
  <2> SUFFICES ASSUME NEW p \in Plans PROVE unheld[p] = Count(h, p)
    BY Zenon
  <2>1. CASE p \in Range(w) /\ page[p] # {}
    <3>1. unheld[p] = Held(w, n)[p] - 1 /\ Held(w, n)[p] = Count(h, p) + 1 /\ Count(h, p) \in Nat
      BY <1>1, <2>1, Zenon DEF Left, Stored
    <3> QED
      BY <3>1
  <2>2. CASE ~(p \in Range(w) /\ page[p] # {})
    <3>1. unheld[p] = Held(w, n)[p] /\ Held(w, n)[p] = Count(h, p)
      BY <1>1, <2>2, Zenon DEF Left, Stored
    <3> QED
      BY <3>1, Zenon
  <2> QED
    BY <2>1, <2>2, Zenon
<1>3. refs' \in [Plans -> Nat] /\ \A p \in Plans : refs'[p] = Count(groups', p)
  BY <1>1, <1>2, Zenon DEF Left
<1>4. lost \subseteq Plans /\ \A p \in Plans : p \in lost <=> page[p] # {} /\ Count(h, p) = 0
  BY <1>2, Zenon DEF Stored
<1>5. \A p \in Plans : page'[p] = {} <=> refs'[p] = 0
  BY <1>1, <1>2, <1>4, Zenon DEF Left
<1>6. \A p \in Plans : page'[p] # {} => Cardinality(page'[p]) = Length[p]
  BY Zenon DEF HostCounts
<1>7. \A i \in Pages : i \in freePages' <=> \A p \in Plans : i \notin page'[p]
  <2> SUFFICES ASSUME NEW i \in Pages
               PROVE  i \in freePages' <=> \A p \in Plans : i \notin page'[p]
    BY Zenon
  <2>1. i \in freePages' <=> i \in freePages \/ \E p \in lost : i \in page[p]
    BY Zenon
  <2>2. i \in freePages <=> \A p \in Plans : i \notin page[p]
    BY Zenon DEF HostCounts
  <2>3. \A p, q \in Plans : i \in page[p] /\ i \in page[q] => p = q
    BY Zenon DEF HostRight
  <2>4. \A p \in Plans : i \in page'[p] <=> i \in page[p] /\ p \notin lost
    BY Zenon
  <2> QED
    BY <1>4, <2>1, <2>2, <2>3, <2>4, Zenon
<1> QED
  BY <1>1, <1>3, <1>5, <1>6, <1>7, Zenon DEF HostCounts, Left

\* store_group keeps the accounts, whatever it is given to store.
LEMMA StoreGroupCounts ==
    ASSUME Types, HostRight, HostCounts, NEW w \in Schedules, NEW filled, StoreGroup(w, filled)
    PROVE  HostCounts'
<1>1. groups \in Seq(Schedules) /\ DOMAIN groups = 1..Len(groups)
  BY DEF HostCounts
<1> DEFINE n      == Evictions(w)
           unheld == [p \in Plans |-> IF p \in Range(w) \cap Stored
                                      THEN Held(w, n)[p] - 1 ELSE Held(w, n)[p]]
           lost   == {p \in Stored : unheld[p] = 0}
<1>2. n \in 0..Len(groups)
  BY <1>1, EvictionsIn, Zenon
<1>3. \/ /\ \E i \in 1..Len(groups) : groups[i] = w
         /\ groups' = Touched(groups, <<w>>) /\ UNCHANGED <<page, refs, freePages>>
      \/ UNCHANGED host
      \/ /\ ~\E i \in 1..Len(groups) : groups[i] = w
         /\ \E f \in Placements(w, FreeAfter(w, n)) :
              /\ page' = [p \in Plans |-> IF p \in DOMAIN f THEN f[p]
                                          ELSE IF p \in Gone(w, n) THEN {} ELSE page[p]]
              /\ refs' = [p \in Plans |-> IF p \in DOMAIN f THEN 1 ELSE Held(w, n)[p]]
              /\ groups' = Append(SubSeq(groups, n + 1, Len(groups)), w)
              /\ freePages' = FreeAfter(w, n) \ UNION {f[p] : p \in DOMAIN f}
      \/ /\ page' = [p \in Plans |-> IF p \in lost THEN {} ELSE page[p]]
         /\ refs' = unheld
         /\ groups' = SubSeq(groups, n + 1, Len(groups))
         /\ freePages' = freePages \cup UNION {page[p] : p \in lost}
  BY Zenon DEF StoreGroup
<1>4. PICK h : h = SubSeq(groups, n + 1, Len(groups))
  BY Zenon
<1>5. PICK x : x = unheld
  BY Zenon
<1>6. PICK z : z = lost
  BY Zenon
<1>7. /\ x = [p \in Plans |-> IF p \in Range(w) \cap Stored
                               THEN Held(w, n)[p] - 1 ELSE Held(w, n)[p]]
      /\ z = {p \in Stored : x[p] = 0}
  BY <1>5, <1>6, Zenon
<1> HIDE DEF n, unheld, lost
<1>8. ASSUME ~\E i \in 1..Len(groups) : groups[i] = w,
             NEW f \in Placements(w, FreeAfter(w, n)),
             page' = [p \in Plans |-> IF p \in DOMAIN f THEN f[p]
                                      ELSE IF p \in Gone(w, n) THEN {} ELSE page[p]],
             refs' = [p \in Plans |-> IF p \in DOMAIN f THEN 1 ELSE Held(w, n)[p]],
             groups' = Append(h, w),
             freePages' = FreeAfter(w, n) \ UNION {f[p] : p \in DOMAIN f}
      PROVE  HostCounts'
  <2>1. w \notin Range(groups)
    BY <1>1, <1>8, Zenon DEF Range
  <2> QED
    BY <1>2, <1>4, <1>8, <2>1, StoredCounts, Zenon
<1>9. ASSUME page' = [p \in Plans |-> IF p \in z THEN {} ELSE page[p]],
             refs' = x, groups' = h,
             freePages' = freePages \cup UNION {page[p] : p \in z}
      PROVE  HostCounts'
  <2>1. Unstores(w, n, h, x, z)
    BY <1>7, <1>9, Zenon DEF Unstores
  <2> QED
    BY <1>2, <1>4, <2>1, UnstoredCounts, Zenon
<1>10. CASE UNCHANGED host
  BY <1>10, Zenon DEF HostCounts, host
<1> QED
  BY <1>3, <1>4, <1>5, <1>6, <1>8, <1>9, <1>10, RefreshCounts, Zenon

\* The accounts of the host tier are right after every step.
LEMMA HostCountsNext ==
    ASSUME IInv, HostCounts, [Next]_vars
    PROVE  HostCounts'
<1>1. CASE UNCHANGED host
  BY <1>1, Zenon DEF HostCounts, host
<1>2. ASSUME NEW w \in Schedules, Hit(w) PROVE HostCounts'
  BY <1>2, RegisterCounts, Zenon DEF Hit
<1>3. CASE SwapInEnd
  <2>1. request \in Schedules /\ RegisterGroup(request)
    BY <1>3, Zenon DEF SwapInEnd, IInv, Preparing
  <2> QED
    BY <2>1, RegisterCounts, Zenon
<1>4. CASE Project
  <2>1. PICK filled : StoreGroup(request, filled)
    BY <1>4, Zenon DEF Project
  <2>2. request \in Schedules /\ Types /\ HostRight
    BY <1>4, Zenon DEF Project, IInv, Preparing
  <2> QED
    BY <2>1, <2>2, StoreGroupCounts, Zenon
<1>5. ASSUME NEW s \in Sources, Invalidate(s) PROVE HostCounts'
  <2>1. page' = [p \in Plans |-> {}] /\ refs' = [p \in Plans |-> 0] /\ groups' = <<>> /\ freePages' = Pages
    BY <1>5, Zenon DEF Invalidate
  <2>2. groups' \in Seq(Schedules) /\ Holders(groups', 0) = {} /\ IsInjective(groups')
    BY <2>1 DEF Holders, IsInjective
  <2>3. \A p : Holders(groups', p) = {}
    BY <2>1 DEF Holders
  <2>4. \A p : Count(groups', p) = 0
    BY <2>3, FS_EmptySet, Zenon DEF Count
  <2>5. refs' \in [Plans -> Nat] /\ \A p \in Plans : refs'[p] = 0 /\ page'[p] = {}
    BY <2>1
  <2> QED
    BY <2>1, <2>2, <2>4, <2>5, Zenon DEF HostCounts
<1>6. ASSUME NEW w \in Schedules, SwapIn(w) \/ SwapInFails(w) \/ RebuildBegin(w) \/ PopsEmpty(w)
      PROVE  HostCounts'
  BY <1>1, <1>6, Zenon DEF SwapIn, SwapInFails, RebuildBegin, PopsEmpty
<1>7. CASE Land \/ EmbedFails \/ ProjectFails \/ Finish \/ UNCHANGED vars
  BY <1>1, <1>7, Zenon DEF Land, EmbedFails, ProjectFails, Finish, vars
<1> QED
  BY <1>2, <1>3, <1>4, <1>5, <1>6, <1>7, Zenon DEF Next

\* The host tier starts empty, with its accounts right.
LEMMA InitHostCounts == Init => HostCounts
<1> SUFFICES ASSUME Init PROVE HostCounts
  BY Zenon
<1>1. page = [p \in Plans |-> {}] /\ refs = [p \in Plans |-> 0] /\ groups = <<>> /\ freePages = Pages
  BY Zenon DEF Init
<1>2. groups \in Seq(Schedules) /\ IsInjective(groups)
  BY <1>1 DEF IsInjective
<1>3. \A p : Holders(groups, p) = {}
  BY <1>1 DEF Holders
<1>4. \A p : Count(groups, p) = 0
  BY <1>3, FS_EmptySet, Zenon DEF Count
<1>5. refs \in [Plans -> Nat] /\ \A p \in Plans : refs[p] = 0 /\ page[p] = {}
  BY <1>1
<1> QED
  BY <1>1, <1>2, <1>4, <1>5, Zenon DEF HostCounts

\* The host tier keeps its promise.
THEOREM HostTierStaysRight == Spec => []HostTierRight
<1>1. Init => HostCounts
  BY InitHostCounts, Zenon
<1>2. IInv /\ HostCounts /\ [Next]_vars => HostCounts'
  BY HostCountsNext, Zenon
<1>3. IInv /\ HostCounts => HostTierRight
  <2> SUFFICES ASSUME IInv, HostCounts PROVE HostTierRight
    BY Zenon
  <2>1. ASSUME NEW p \in Plans
        PROVE  /\ refs[p] = Cardinality({i \in 1..Len(groups) : p \in Range(groups[i])})
               /\ p \in Stored <=> refs[p] > 0
               /\ p \in Stored => Cardinality(page[p]) = Length[p]
               /\ \A i \in page[p] : mem[i] = Of(p)
               /\ \A q \in Plans \ {p} : page[p] \cap page[q] = {}
    <3>1. refs[p] = Cardinality({i \in 1..Len(groups) : p \in Range(groups[i])}) /\ refs[p] \in Nat
      BY Zenon DEF HostCounts, Count, Holders
    <3>2. p \in Stored <=> refs[p] # 0
      BY Zenon DEF HostCounts, Stored
    <3>3. p \in Stored <=> refs[p] > 0
      BY <3>1, <3>2
    <3>4. p \in Stored => Cardinality(page[p]) = Length[p]
      BY Zenon DEF HostCounts, Stored
    <3>5. \A i \in page[p] : mem[i] = Of(p)
      BY Zenon DEF IInv, HostRight
    <3>6. \A q \in Plans \ {p} : page[p] \cap page[q] = {}
      BY Zenon DEF IInv, HostRight
    <3> QED
      BY <3>1, <3>3, <3>4, <3>5, <3>6, Zenon
  <2>2. freePages = Pages \ UNION {page[p] : p \in Plans}
    <3>1. freePages \subseteq Pages
      BY Zenon DEF IInv, Types
    <3>2. \A i \in Pages : i \in freePages <=> i \notin UNION {page[p] : p \in Plans}
      BY Zenon DEF HostCounts
    <3> QED
      BY <3>1, <3>2, Zenon
  <2> QED
    BY <2>1, <2>2, Zenon DEF HostTierRight
<1> QED
  BY <1>1, <1>2, <1>3, Inductive, PTL DEF Spec

-----------------------------------------------------------------------------
(***************************************************************************)
(* The order in which the slab evicts.                                     *)
(***************************************************************************)
\* One plan comes before another in a queue.
Before(s, q, p) == \E i, j \in 1..Len(s) : i < j /\ s[i] = q /\ s[j] = p

\* What is in the first of two queues comes before what is in the second, and
\* the order in the first one stays.
LEMMA BeforeConcat ==
    ASSUME NEW S, NEW s \in Seq(S), NEW t \in Seq(S), NEW q, NEW p,
           Before(s, q, p) \/ (q \in Range(s) /\ p \in Range(t))
    PROVE  Before(s \o t, q, p)
<1>1. PICK n \in Nat, m \in Nat : n = Len(s) /\ m = Len(t) /\ DOMAIN s = 1..n /\ DOMAIN t = 1..m
  OBVIOUS
<1>2. PICK u : u = s \o t
  BY Zenon
<1>3. /\ Len(u) = n + m /\ \A i \in 1..n : u[i] = s[i]
      /\ \A i \in 1..m : u[n + i] = t[i]
  BY <1>1, <1>2
<1>4. \A i \in 1..n : i \in 1..(n + m)
  BY <1>1
<1>5. CASE Before(s, q, p)
  BY <1>1, <1>2, <1>3, <1>4, <1>5, Zenon DEF Before
<1>6. CASE q \in Range(s) /\ p \in Range(t)
  <2>1. PICK i \in 1..n : s[i] = q
    BY <1>1, <1>6, Zenon DEF Range
  <2>2. PICK j \in 1..m : t[j] = p
    BY <1>1, <1>6, Zenon DEF Range
  <2>3. i \in 1..(n + m) /\ n + j \in 1..(n + m) /\ i < n + j
    BY <1>1
  <2> QED
    BY <1>2, <1>3, <2>1, <2>2, <2>3, Zenon DEF Before
<1> QED
  BY <1>5, <1>6, Zenon

\* The order of the slab: it lists what is resident, each plan once.  From the
\* moment slots are reserved for a request, the plans it wants come last.
Recent ==
    /\ lru \in Seq(Plans) /\ IsInjective(lru) /\ Range(lru) = Resident
    /\ phase # "idle" =>
         \A p \in Range(request) \cap Resident, q \in Resident \ Range(request) : Before(lru, q, p)
    /\ phase \in {"copying", "projecting"} =>
         \A p \in Plans : pending[p] # NoSlot => p \in Range(request)

\* A schedule lists plans, each of them once.
LEMMA ScheduleIs ==
    ASSUME NEW w \in Schedules
    PROVE  w \in Seq(Plans) /\ IsInjective(w) /\ Range(w) \subseteq Plans
BY AdalnAssumption, SchedulePlans, Zenon

\* Eviction takes its victims out of the order, and puts what the request
\* wants at its end.
LEMMA EvictRecent ==
    ASSUME Types, Recent, NEW w \in Schedules, NEW V \in Victims(w), Evict(w, V)
    PROVE  /\ lru' \in Seq(Plans) /\ IsInjective(lru') /\ Range(lru') = Resident'
           /\ \A p \in Range(w) \cap Resident', q \in Resident' \ Range(w) : Before(lru', q, p)
<1>1. V \subseteq Resident /\ V \cap Range(w) = {}
  BY Zenon DEF Victims, Evictable
<1>2. Resident' = Resident \ V
  BY Zenon DEF Evict, Resident
<1>3. PICK a, b : a = Minus(lru, V \cup Range(w)) /\ b = Minus(w, Plans \ Resident)
  BY Zenon
<1>4. w \in Seq(Plans) /\ IsInjective(w) /\ Range(w) \subseteq Plans
  BY ScheduleIs, Zenon
<1>5. lru \in Seq(Plans) /\ IsInjective(lru) /\ Range(lru) = Resident
  BY Zenon DEF Recent
<1>6. a \in Seq(Plans) /\ IsInjective(a) /\ Range(a) = Resident \ (V \cup Range(w))
  BY <1>3, <1>5, MinusType, MinusIs, Zenon
<1>7. b \in Seq(Plans) /\ IsInjective(b) /\ Range(b) = Range(w) \ (Plans \ Resident)
  BY <1>3, <1>4, MinusType, MinusIs, Zenon
<1>8. Range(b) = Range(w) \cap Resident
  BY <1>4, <1>7, Zenon
<1>9. lru' = a \o b
  BY <1>3, Zenon DEF Evict
<1>10. Range(a) \cap Range(b) = {}
  BY <1>6, <1>8, Zenon
<1>11. lru' \in Seq(Plans) /\ IsInjective(lru') /\ Range(lru') = Range(a) \cup Range(b)
  BY <1>6, <1>7, <1>9, <1>10, ConcatInjective
<1>12. Range(lru') = Resident'
  BY <1>1, <1>2, <1>6, <1>8, <1>11, Zenon
<1>13. ASSUME NEW p \in Range(w) \cap Resident', NEW q \in Resident' \ Range(w)
       PROVE  Before(lru', q, p)
  <2>1. q \in Range(a) /\ p \in Range(b)
    BY <1>2, <1>6, <1>8, Zenon
  <2> QED
    BY <1>6, <1>7, <1>9, <2>1, BeforeConcat, Zenon
<1> QED
  BY <1>11, <1>12, <1>13, Zenon

\* Showing the plans that were missing puts them at the end of the order.
LEMMA CommitRecent ==
    ASSUME Types, Preparing, Recent, phase \in {"copying", "projecting"}, phase' = "ready",
           request' = request, Commit(request, pending, InOrder(request))
    PROVE  Recent'
<1>1. request \in Schedules /\ phase # "idle"
  BY Zenon DEF Preparing
<1>2. PICK w : w = request
  BY Zenon
<1>3. w \in Seq(Plans) /\ IsInjective(w) /\ Range(w) \subseteq Plans
  BY <1>1, <1>2, ScheduleIs, Zenon
<1>4. PICK b : b = Minus(w, Plans \ Missing(w))
  BY Zenon
<1>5. b \in Seq(Plans) /\ IsInjective(b) /\ Range(b) = Range(w) \ (Plans \ Missing(w))
  BY <1>3, <1>4, MinusType, MinusIs, Zenon
<1>6. Range(b) = Missing(w) /\ lru' = lru \o b
  BY <1>2, <1>3, <1>4, <1>5, Zenon DEF Missing, Commit, InOrder
<1>7. \A p \in Plans : pending[p] # NoSlot <=> p \in Missing(w)
  BY <1>2, Zenon DEF Preparing, Recent, Missing
<1>8. Missing(w) \subseteq Plans /\ Missing(w) \subseteq Range(w) /\ Missing(w) \cap Resident = {}
  BY <1>3, Zenon DEF Missing, Resident
<1>9. slot' = [p \in Plans |-> IF pending[p] # NoSlot THEN pending[p] ELSE slot[p]]
  BY Zenon DEF Commit
<1>10. Resident' = Resident \cup Missing(w)
  BY <1>7, <1>8, <1>9, Zenon DEF Resident
<1>11. lru \in Seq(Plans) /\ IsInjective(lru) /\ Range(lru) = Resident
  BY Zenon DEF Recent
<1>12. lru' \in Seq(Plans) /\ IsInjective(lru') /\ Range(lru') = Range(lru) \cup Range(b)
  BY <1>5, <1>6, <1>8, <1>11, ConcatInjective
<1>13. ASSUME NEW p \in Range(w) \cap Resident', NEW q \in Resident' \ Range(w)
       PROVE  Before(lru', q, p)
  <2>1. q \in Resident
    BY <1>8, <1>10, Zenon
  <2>2. CASE p \in Missing(w)
    BY <1>5, <1>6, <1>11, <2>1, <2>2, BeforeConcat, Zenon
  <2>3. CASE p \in Resident
    <3>1. Before(lru, q, p)
      BY <1>1, <1>2, <2>1, <2>3, Zenon DEF Recent
    <3> QED
      BY <1>5, <1>6, <1>11, <3>1, BeforeConcat, Zenon
  <2> QED
    BY <1>10, <2>2, <2>3, Zenon
<1> QED
  BY <1>2, <1>6, <1>10, <1>11, <1>12, <1>13, Zenon DEF Recent

\* The order of the slab is right after every step.
LEMMA RecentNext ==
    ASSUME IInv, Recent, [Next]_vars
    PROVE  Recent'
<1>1. Types /\ Preparing
  BY Zenon DEF IInv
<1>2. ASSUME UNCHANGED <<slot, lru>>, phase' = "idle" \/ UNCHANGED <<phase, pending, request>>
      PROVE  Recent'
  BY <1>2, Zenon DEF Recent, Resident
<1>3. ASSUME NEW w \in Schedules, Hit(w) PROVE Recent'
  <2>1. phase' = "ready" /\ request' = w /\ slot' = slot /\ Missing(w) = {} /\ lru' = Touched(lru, w)
    BY <1>3, Zenon DEF Hit
  <2>2. w \in Seq(Plans) /\ IsInjective(w) /\ Range(w) \subseteq Plans
    BY ScheduleIs, Zenon
  <2>3. lru \in Seq(Plans) /\ IsInjective(lru) /\ Range(lru) = Resident /\ Resident' = Resident
    BY <2>1, Zenon DEF Recent, Resident
  <2>4. Range(w) \subseteq Resident
    BY <2>1, <2>2, Zenon DEF Missing, Resident
  <2>5. lru' \in Seq(Plans) /\ IsInjective(lru') /\ Range(lru') = Resident'
    BY <2>1, <2>2, <2>3, <2>4, TouchedIs, Zenon
  <2>6. PICK a : a = Minus(lru, Range(w))
    BY Zenon
  <2>7. a \in Seq(Plans) /\ Range(a) = Resident \ Range(w) /\ lru' = a \o w
    BY <2>1, <2>3, <2>6, MinusType, MinusIs, Zenon DEF Touched
  <2>8. \A p \in Range(w), q \in Resident \ Range(w) : Before(lru', q, p)
    BY <2>2, <2>7, BeforeConcat, Zenon
  <2> QED
    BY <2>1, <2>3, <2>5, <2>8, Zenon DEF Recent
<1>4. ASSUME NEW w \in Schedules, NEW V \in Victims(w), Evict(w, V), phase' = "idle"
      PROVE  Recent'
  BY <1>1, <1>4, EvictRecent, Zenon DEF Recent
<1>5. ASSUME NEW w \in Schedules, SwapInFails(w) \/ PopsEmpty(w) PROVE Recent'
  <2>1. phase' = "idle" /\ \E V \in Victims(w) : Evict(w, V)
    BY <1>5, Zenon DEF SwapInFails, PopsEmpty
  <2> QED
    BY <1>4, <2>1, Zenon
<1>6. ASSUME NEW w \in Schedules, SwapIn(w) \/ RebuildBegin(w) PROVE Recent'
  <2>1. phase = "idle" /\ request' = w /\ phase' \in {"copying", "projecting"}
    BY <1>6, Zenon DEF SwapIn, RebuildBegin
  <2>2. PICK V \in Victims(w) : /\ Evict(w, V)
                                /\ \E f \in Injection(Missing(w), Pool(V)) : pending' = Reserved(f)
    BY <1>6, Zenon DEF SwapIn, RebuildBegin
  <2>3. PICK f \in Injection(Missing(w), Pool(V)) : pending' = Reserved(f)
    BY <2>2, Zenon
  <2>4. \A p \in Plans : pending'[p] # NoSlot => p \in Range(w)
    BY <2>3, Zenon DEF Reserved, Injection, Missing
  <2>5. /\ lru' \in Seq(Plans) /\ IsInjective(lru') /\ Range(lru') = Resident'
        /\ \A p \in Range(w) \cap Resident', q \in Resident' \ Range(w) : Before(lru', q, p)
    BY <1>1, <2>2, EvictRecent, Zenon
  <2> QED
    BY <2>1, <2>4, <2>5, Zenon DEF Recent
<1>7. CASE SwapInEnd \/ Project
  BY <1>1, <1>7, CommitRecent, Zenon DEF SwapInEnd, Project
<1>8. ASSUME NEW s \in Sources, Invalidate(s) PROVE Recent'
  <2>1. phase' = "idle" /\ lru' = <<>> /\ slot' = NoPending
    BY <1>8, Zenon DEF Invalidate
  <2>2. lru' \in Seq(Plans) /\ IsInjective(lru') /\ Range(lru') = {}
    BY <2>1 DEF IsInjective, Range
  <2>3. Resident' = {}
    BY <2>1, Zenon DEF Resident, NoPending
  <2> QED
    BY <2>1, <2>2, <2>3, Zenon DEF Recent
<1>9. CASE Land \/ EmbedFails \/ ProjectFails \/ Finish \/ UNCHANGED vars
  BY <1>2, <1>9, Zenon DEF Land, EmbedFails, ProjectFails, Finish, vars, slab
<1> QED
  BY <1>3, <1>5, <1>6, <1>7, <1>8, <1>9, Zenon DEF Next

\* The slab starts empty, and so does its order.
LEMMA InitRecent == Init => Recent
<1> SUFFICES ASSUME Init PROVE Recent
  BY Zenon
<1>1. phase = "idle" /\ lru = <<>> /\ slot = [p \in Plans |-> NoSlot]
  BY Zenon DEF Init
<1>2. lru \in Seq(Plans) /\ IsInjective(lru) /\ Range(lru) = {}
  BY <1>1 DEF IsInjective, Range
<1>3. Resident = {}
  BY <1>1, Zenon DEF Resident
<1> QED
  BY <1>1, <1>2, <1>3 DEF Recent

\* Who is served is evicted last.
THEOREM ServedPlansStayRecent == Spec => []ServedPlansRecent
<1>1. Init => Recent
  BY InitRecent, Zenon
<1>2. IInv /\ Recent /\ [Next]_vars => Recent'
  BY RecentNext, Zenon
<1>3. IInv /\ Recent => ServedPlansRecent
  <2> SUFFICES ASSUME IInv, Recent PROVE ServedPlansRecent
    BY Zenon
  <2>1. lru \in Seq(Plans) /\ IsInjective(lru) /\ Range(lru) = Resident
    BY Zenon DEF Recent
  <2>2. Len(lru) = Cardinality(Resident)
    <3>1. PICK n \in Nat : n = Len(lru) /\ DOMAIN lru = 1..n
      BY <2>1
    <3>2. lru \in [1..n -> Plans]
      BY <2>1, <3>1
    <3>3. lru \in [1..n -> Resident]
      BY <2>1, <3>1, <3>2, Zenon DEF Range
    <3>4. lru \in Injection(1..n, Resident) /\ lru \in Surjection(1..n, Resident)
      BY <2>1, <3>1, <3>3, Zenon DEF Injection, Surjection, Range
    <3>5. ExistsBijection(1..n, Resident)
      BY <3>4, Zenon DEF ExistsBijection, Bijection
    <3>a. 1 \in Int /\ n \in Int
      OBVIOUS
    <3>b. IsFiniteSet(1..n) /\ Cardinality(1..n) = IF 1 > n THEN 0 ELSE n - 1 + 1
      BY <3>a, FS_Interval, Zenon
    <3>c. (IF 1 > n THEN 0 ELSE n - 1 + 1) = n
      OBVIOUS
    <3>6. IsFiniteSet(1..n) /\ Cardinality(1..n) = n
      BY <3>b, <3>c
    <3> QED
      BY <3>1, <3>5, <3>6, FS_Bijection, Zenon
  <2>3. ASSUME phase = "ready", NEW p \in Range(request), NEW q \in Resident \ Range(request)
        PROVE  Older(q, p)
    <3>1. slot[p] # NoSlot /\ request \in Schedules \cup {<<>>} /\ phase # "idle"
      BY <2>3, Zenon DEF IInv, Preparing, Types
    <3>2. request # <<>>
      BY <2>3 DEF Range
    <3>3. p \in Resident
      BY <3>1, <3>2, SchedulePlans, Zenon DEF Resident
    <3>4. Before(lru, q, p)
      BY <3>1, <3>3, Zenon DEF Recent
    <3> QED
      BY <3>4, Zenon DEF Before, Older
  <2> QED
    BY <2>1, <2>2, <2>3, Zenon DEF ServedPlansRecent
<1> QED
  BY <1>1, <1>2, <1>3, Inductive, PTL DEF Spec

-----------------------------------------------------------------------------
(***************************************************************************)
(* What slots and pages hold, and the types of the variables.              *)
(***************************************************************************)
\* What slots and pages hold is the outputs of some plan, or torn; a copy reads
\* the pages of a plan, and there are some.
Holds ==
    /\ data \in [Slots -> Contents] /\ mem \in [Pages -> Contents] /\ source \in Sources
    /\ \A c \in copies : c.pages # {}

\* The outputs of a plan computed from the checkpoint that is served.
LEMMA OfContents ==
    ASSUME Holds
    PROVE  \A p \in Plans : Of(p) \in Contents
BY DEF Holds, Of, Contents

\* store_group fills pages with outputs of plans.
LEMMA StoreGroupHolds ==
    ASSUME Holds, NEW w \in Schedules, NEW filled, \A p \in Range(w) : filled[p] \in Contents,
           StoreGroup(w, filled)
    PROVE  mem' \in [Pages -> Contents]
<1>1. CASE UNCHANGED mem
  BY <1>1, Zenon DEF Holds
<1>2. ASSUME NEW f \in Placements(w, FreeAfter(w, Evictions(w))),
             mem' = [i \in Pages |-> IF \E p \in DOMAIN f : i \in f[p]
                       THEN filled[CHOOSE p \in DOMAIN f : i \in f[p]] ELSE mem[i]]
      PROVE  mem' \in [Pages -> Contents]
  <2>1. DOMAIN f \subseteq Range(w)
    BY Zenon DEF Placements
  <2>2. ASSUME NEW i \in Pages PROVE mem'[i] \in Contents
    <3>1. CASE \E p \in DOMAIN f : i \in f[p]
      <4>1. (CHOOSE p \in DOMAIN f : i \in f[p]) \in DOMAIN f
        BY <3>1, Zenon
      <4> QED
        BY <1>2, <2>1, <3>1, <4>1, Zenon
    <3>2. CASE ~\E p \in DOMAIN f : i \in f[p]
      BY <1>2, <3>2, Zenon DEF Holds
    <3> QED
      BY <3>1, <3>2, Zenon
  <2> QED
    BY <1>2, <2>2, Zenon
<1> QED
  BY <1>1, <1>2, Zenon DEF StoreGroup, host

\* Slots and pages hold outputs of plans, or are torn, after every step.
LEMMA HoldsNext ==
    ASSUME IInv, Holds, [Next]_vars
    PROVE  Holds'
<1>1. Types /\ Preparing
  BY Zenon DEF IInv
<1>2. ASSUME UNCHANGED <<data, mem, source, copies>> PROVE Holds'
  BY <1>2, Zenon DEF Holds
<1>3. ASSUME NEW w \in Schedules, Hit(w) \/ RebuildBegin(w) \/ PopsEmpty(w) PROVE Holds'
  BY <1>2, <1>3, Zenon DEF Hit, RebuildBegin, PopsEmpty, RegisterGroup, host
<1>4. ASSUME NEW w \in Schedules, SwapIn(w) \/ SwapInFails(w) PROVE Holds'
  <2>1. UNCHANGED <<data, mem, source>> /\ Missing(w) \subseteq Stored
    BY <1>4, Zenon DEF SwapIn, SwapInFails, host
  <2>2. PICK V \in Victims(w) : \E f \in Injection(Missing(w), Pool(V)) : copies' \subseteq Enqueued(f)
    BY <1>4, Zenon DEF SwapIn, SwapInFails
  <2>3. PICK f \in Injection(Missing(w), Pool(V)) : copies' \subseteq Enqueued(f)
    BY <2>2, Zenon
  <2>4. DOMAIN f = Missing(w)
    BY Zenon DEF Injection
  <2>5. ASSUME NEW c \in copies' PROVE c.pages # {}
    <3>1. PICK p \in Missing(w) : c = [slot |-> f[p], pages |-> page[p]]
      BY <2>3, <2>4, Zenon DEF Enqueued
    <3>2. c.pages = page[p]
      BY <3>1, Zenon
    <3> QED
      BY <2>1, <3>2, Zenon DEF Stored
  <2> QED
    BY <2>1, <2>5, Zenon DEF Holds
<1>5. CASE Land
  <2>1. UNCHANGED <<mem, source>>
    BY <1>5, Zenon DEF Land, host
  <2>2. PICK c \in copies : data' = [data EXCEPT ![c.slot] = Fetched(c.pages)] /\ copies' = copies \ {c}
    BY <1>5, Zenon DEF Land
  <2>3. c.pages # {} /\ c.pages \subseteq Pages
    <3>1. c \in [slot : Slots, pages : SUBSET Pages]
      BY <1>1, Zenon DEF Types
    <3> QED
      BY <3>1 DEF Holds
  <2>4. Torn \in Contents /\ (CHOOSE i \in c.pages : TRUE) \in c.pages
    BY <2>3, Zenon DEF Contents
  <2>5. Fetched(c.pages) \in Contents
    BY <2>3, <2>4, Zenon DEF Fetched, Holds
  <2>6. data' \in [Slots -> Contents]
    BY <2>2, <2>5 DEF Holds
  <2> QED
    BY <2>1, <2>2, <2>6, Zenon DEF Holds
<1>6. CASE SwapInEnd \/ EmbedFails \/ Finish \/ UNCHANGED vars
  BY <1>2, <1>6, Zenon DEF SwapInEnd, EmbedFails, Finish, RegisterGroup, vars, slab, host
<1>7. CASE ProjectFails
  <2>1. UNCHANGED <<mem, source, copies>>
        /\ data' = [s \in Slots |-> IF s \in Taken THEN Torn ELSE data[s]]
    BY <1>7, Zenon DEF ProjectFails, host
  <2>2. data' \in [Slots -> Contents]
    BY <2>1, Zenon DEF Holds, Contents
  <2> QED
    BY <2>1, <2>2, Zenon DEF Holds
<1>8. CASE Project
  <2>1. UNCHANGED <<source, copies>> /\ request \in Schedules /\ phase = "projecting"
        /\ data' = [s \in Slots |-> IF s \in Taken
                                    THEN Of(CHOOSE p \in Plans : pending[p] = s) ELSE data[s]]
    BY <1>1, <1>8, Zenon DEF Project, Preparing
  <2>2. \A p \in Plans : Of(p) \in Contents
    BY OfContents, Zenon
  <2>3. ASSUME NEW s \in Slots PROVE data'[s] \in Contents
    <3>1. CASE s \in Taken
      <4>1. (CHOOSE p \in Plans : pending[p] = s) \in Plans
        BY <3>1, Zenon DEF Taken
      <4> QED
        BY <2>1, <2>2, <3>1, <4>1, Zenon
    <3>2. CASE s \notin Taken
      BY <2>1, <3>2, Zenon DEF Holds
    <3> QED
      BY <3>1, <3>2, Zenon
  <2>4. data' \in [Slots -> Contents]
    BY <2>1, <2>3, Zenon
  <2>5. PICK filled : /\ filled = [p \in Range(request) |->
                             IF pending[p] = NoSlot THEN data[slot[p]] ELSE Of(p)]
                      /\ StoreGroup(request, filled)
    BY <1>8, Zenon DEF Project
  <2>6. ASSUME NEW p \in Range(request) PROVE filled[p] \in Contents
    <3>1. p \in Plans /\ slot[p] \in Slots \cup {NoSlot} /\ (slot[p] # NoSlot \/ pending[p] # NoSlot)
      BY <1>1, <2>1, SchedulePlans, Zenon DEF Types, Preparing
    <3>2. CASE pending[p] = NoSlot
      BY <2>5, <3>1, <3>2, Zenon DEF Holds
    <3>3. CASE pending[p] # NoSlot
      BY <2>2, <2>5, <3>1, <3>3, Zenon
    <3> QED
      BY <3>2, <3>3, Zenon
  <2>7. mem' \in [Pages -> Contents]
    BY <2>1, <2>5, <2>6, StoreGroupHolds, Zenon
  <2> QED
    BY <2>1, <2>4, <2>7, Zenon DEF Holds
<1>9. ASSUME NEW s \in Sources, Invalidate(s) PROVE Holds'
  BY <1>9, Zenon DEF Invalidate, Holds
<1> QED
  BY <1>3, <1>4, <1>5, <1>6, <1>7, <1>8, <1>9, Zenon DEF Next

\* The types of the variables; reference counts never go below zero.
THEOREM CacheTypes == Spec => []TypeOK
<1>1. Init => HostCounts /\ Recent
  BY InitHostCounts, InitRecent, Zenon
<1>2. Init => Holds
  <2> SUFFICES ASSUME Init PROVE Holds
    BY Zenon
  <2>1. source \in Sources /\ Torn \in Contents /\ copies = {}
        /\ data = [s \in Slots |-> Torn] /\ mem = [i \in Pages |-> Torn]
    BY AdalnAssumption, Zenon DEF Init, Contents
  <2> QED
    BY <2>1, Zenon DEF Holds
<1>3. IInv /\ HostCounts /\ Recent /\ Holds /\ [Next]_vars => HostCounts' /\ Recent' /\ Holds'
  BY HostCountsNext, RecentNext, HoldsNext, Zenon
<1>4. IInv /\ HostCounts /\ Recent /\ Holds => TypeOK
  BY Zenon DEF IInv, Types, HostCounts, Recent, Holds, TypeOK
<1> QED
  BY <1>1, <1>2, <1>3, <1>4, Inductive, PTL DEF Spec
=============================================================================
