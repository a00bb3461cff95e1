----------------------------- MODULE AdalnCache -----------------------------
(***************************************************************************)
(* The cache of AdaLN outputs of the MiniMax H3 transformer                *)
(* (models/dits/minimax_h3_adaln_cache.py), in the mode that rebuilds      *)
(* plans from a checkpoint.  Before it denoises, a request makes every     *)
(* plan of its schedule resident in a slab on the GPU: plans that are not  *)
(* there are copied from a host tier, or computed from the checkpoint and  *)
(* then stored in the host tier.  The slab evicts plans, the host tier     *)
(* evicts groups, which are whole schedules.  Copies from the host run on  *)
(* a stream of their own, behind the back of the request that asked.       *)
(***************************************************************************)
EXTENDS Naturals, Sequences, FiniteSets, Queues

CONSTANTS
    Plans,          \* plan keys
    Length,         \* the timesteps of a plan, each of which fills one page
    Width,          \* max_plan_width
    Slots,          \* rows of the slab, max_plans of them
    Pages,          \* pages of the host tier; none if there is no tier
    Schedules,      \* what requests ask for: plans in order of first use
    Sources,        \* checkpoints that plans can be computed from
    First,          \* the one that is served at first
    NoSlot, NoPlan, Torn,
    Faults          \* what may raise

ASSUME AdalnAssumption ==
    /\ IsFiniteSet(Plans) /\ IsFiniteSet(Slots) /\ IsFiniteSet(Pages)
    /\ Length \in [Plans -> Nat \ {0}] /\ Width \in Nat
    /\ Schedules \subseteq Seq(Plans) /\ \A w \in Schedules : IsInjective(w)
    /\ First \in Sources
    /\ NoSlot \notin Slots /\ NoPlan \notin Plans
    /\ Torn \notin [plan : Plans, source : Sources]
    /\ Faults \subseteq {"embed", "project", "copy"}

VARIABLES
    slot,           \* _slots: where a resident plan is
    lru,            \* the order of _slots, oldest first
    free,           \* _free_slots
    shown,          \* plan_timesteps and plan_lengths: the plan lookup finds
    data,           \* block_params and final_params: what a slot holds
    copies,         \* copies on the stream of the host tier not yet done
    pending,        \* slots reserved by the request that is being prepared
    request,        \* the schedule of that request
    phase,          \* how far it is
    page,           \* _plans of the host tier: the pages of a plan
    refs,           \* refcount of each of them
    groups,         \* _groups, oldest first
    freePages,      \* _free_pages
    mem,            \* the host slab: what a page holds
    source,         \* weight_files
    leaked          \* whether slots have been popped and never handed back

slab == <<slot, lru, free, shown, data, pending>>
host == <<page, refs, groups, freePages, mem>>
vars == <<slab, host, copies, request, phase, source, leaked>>

\* The outputs of a plan computed from a checkpoint.
Contents == [plan : Plans, source : Sources] \cup {Torn}
Of(p)    == [plan |-> p, source |-> source]

Resident == {p \in Plans : slot[p] # NoSlot}
Stored   == {p \in Plans : page[p] # {}}
Missing(w) == {p \in Range(w) : slot[p] = NoSlot}

\* The types of the variables: slots, pages and plans are those that exist, and
\* no reference count of the host tier goes below zero.
TypeOK ==
    /\ slot \in [Plans -> Slots \cup {NoSlot}] /\ pending \in [Plans -> Slots \cup {NoSlot}]
    /\ lru \in Seq(Plans) /\ free \subseteq Slots
    /\ shown \in [Slots -> Plans \cup {NoPlan}] /\ data \in [Slots -> Contents]
    /\ copies \subseteq [slot : Slots, pages : SUBSET Pages]
    /\ request \in Schedules \cup {<<>>} /\ phase \in {"idle", "copying", "projecting", "ready"}
    /\ page \in [Plans -> SUBSET Pages] /\ refs \in [Plans -> Nat]
    /\ groups \in Seq(Schedules) /\ freePages \subseteq Pages
    /\ mem \in [Pages -> Contents] /\ source \in Sources /\ leaked \in BOOLEAN

NoPending == [p \in Plans |-> NoSlot]

Init ==
    /\ slot = [p \in Plans |-> NoSlot] /\ lru = <<>> /\ free = Slots
    /\ shown = [s \in Slots |-> NoPlan] /\ data = [s \in Slots |-> Torn]
    /\ copies = {} /\ pending = NoPending /\ request = <<>> /\ phase = "idle"
    /\ page = [p \in Plans |-> {}] /\ refs = [p \in Plans |-> 0]
    /\ groups = <<>> /\ freePages = Pages /\ mem = [i \in Pages |-> Torn]
    /\ source = First /\ leaked = FALSE

-----------------------------------------------------------------------------
\* OrderedDict.move_to_end, for each of w in turn.
Touched(seq, w) == Minus(seq, Range(w)) \o w

\* register_group: a group that is stored is refreshed; one whose plans are
\* all there is recorded, and holds them.
RegisterGroup(w) ==
    /\ IF \E i \in 1..Len(groups) : groups[i] = w
       THEN groups' = Touched(groups, <<w>>) /\ UNCHANGED refs
       ELSE IF Range(w) \subseteq Stored
       THEN /\ groups' = Append(groups, w)
            /\ refs' = [p \in Plans |-> IF p \in Range(w) THEN refs[p] + 1 ELSE refs[p]]
       ELSE UNCHANGED <<groups, refs>>
    /\ UNCHANGED <<page, freePages, mem>>

\* store_group.  The plans of the group that are stored already are held
\* first; then the oldest n groups go, as few as make room for the others.
HeldLate(w, n) == [p \in Plans |->
    refs[p] - Cardinality({i \in 1..n : p \in Range(groups[i])})]
Held(w, n) == [p \in Plans |->
    refs[p] + (IF p \in Range(w) \cap Stored THEN 1 ELSE 0)
            - Cardinality({i \in 1..n : p \in Range(groups[i])})]

Gone(w, n)      == {p \in Stored : Held(w, n)[p] = 0}
FreeAfter(w, n) == freePages \cup UNION {page[p] : p \in Gone(w, n)}
Needed(w)       == MapThenSumSet(LAMBDA p : Length[p], Range(w) \ Stored)

Evictions(w) == CHOOSE n \in 0..Len(groups) :
    /\ Needed(w) <= Cardinality(FreeAfter(w, n)) \/ n = Len(groups)
    /\ \A k \in 0..(n - 1) : ~(Needed(w) <= Cardinality(FreeAfter(w, k)))

\* Pages for the plans of w that are not stored.
Placements(w, pool) ==
    {f \in [Range(w) \ Stored -> SUBSET pool] :
        /\ \A p \in Range(w) \ Stored : Cardinality(f[p]) = Length[p]
        /\ \A p, q \in Range(w) \ Stored : p # q => f[p] \cap f[q] = {}}

StoreGroup(w, filled) ==
    LET n    == Evictions(w)
        held == Held(w, n)
        gone == Gone(w, n)
        pool == FreeAfter(w, n)
    IN IF \E i \in 1..Len(groups) : groups[i] = w
       THEN groups' = Touched(groups, <<w>>) /\ UNCHANGED <<page, refs, freePages, mem>>
       ELSE IF Needed(w) > Cardinality(Pages)
       THEN UNCHANGED host
       ELSE IF Needed(w) <= Cardinality(pool)
       THEN \E f \in Placements(w, pool) :
              /\ page' = [p \in Plans |-> IF p \in DOMAIN f THEN f[p]
                                          ELSE IF p \in gone THEN {} ELSE page[p]]
              /\ refs' = [p \in Plans |-> IF p \in DOMAIN f THEN 1 ELSE held[p]]
              /\ groups' = Append(SubSeq(groups, n + 1, Len(groups)), w)
              /\ freePages' = pool \ UNION {f[p] : p \in DOMAIN f}
              /\ mem' = [i \in Pages |-> IF \E p \in DOMAIN f : i \in f[p]
                           THEN filled[CHOOSE p \in DOMAIN f : i \in f[p]] ELSE mem[i]]
       ELSE LET unheld == [p \in Plans |-> IF p \in Range(w) \cap Stored
                                           THEN held[p] - 1 ELSE held[p]]
                lost   == {p \in Stored : unheld[p] = 0}
            IN /\ page' = [p \in Plans |-> IF p \in lost THEN {} ELSE page[p]]
               /\ refs' = unheld
               /\ groups' = SubSeq(groups, n + 1, Len(groups))
               /\ freePages' = freePages \cup UNION {page[p] : p \in lost}
               /\ UNCHANGED mem

-----------------------------------------------------------------------------
\* build() goes on with a schedule that the slab can hold.
Accepted(w) ==
    /\ Missing(w) # {} /\ Cardinality(Range(w)) <= Cardinality(Slots)
    /\ \A p \in Range(w) : Length[p] <= Width

\* fence_prepare_start, fence_gpu_reads, synchronize: what the compute stream
\* does next comes after the copies.
FencedNever == TRUE
Fenced == copies = {}

\* _allocate_slots: the oldest plans that the request does not want, as many
\* as slots are short.
Evictable(w) == Resident \ Range(w)
Shortfall(w) == IF Cardinality(Missing(w)) > Cardinality(free)
                THEN Cardinality(Missing(w)) - Cardinality(free) ELSE 0
Older(p, q)  == \E i, j \in 1..Len(lru) : i < j /\ lru[i] = p /\ lru[j] = q
Victims(w)   == {V \in SUBSET Evictable(w) :
    /\ Cardinality(V) <= Shortfall(w)
    /\ Cardinality(V) < Shortfall(w) => V = Evictable(w)
    /\ \A p \in V, q \in Evictable(w) \ V : Older(p, q)}
Pool(V)      == free \cup {slot[p] : p \in V}

Evict(w, V) ==
    /\ slot' = [p \in Plans |-> IF p \in V THEN NoSlot ELSE slot[p]]
    /\ shown' = [s \in Slots |-> IF \E p \in V : slot[p] = s THEN NoPlan ELSE shown[s]]
    /\ lru' = Minus(lru, V \cup Range(w)) \o Minus(w, Plans \ Resident)

\* The plans of the request that a reservation f of slots makes resident.
Reserved(f) == [p \in Plans |-> IF p \in DOMAIN f THEN f[p] ELSE NoSlot]
InOrder(w)  == Minus(w, Plans \ Missing(w))

\* copy_to_gpu: the copies go to different slots, their order does not matter.
Enqueued(f) == {[slot |-> f[p], pages |-> page[p]] : p \in DOMAIN f}

\* _swap_in_from_host, up to the fence.
SwapIn(w) ==
    /\ phase = "idle" /\ Accepted(w) /\ Fenced /\ Missing(w) \subseteq Stored
    /\ \E V \in Victims(w) : \E f \in Injection(Missing(w), Pool(V)) :
         /\ Evict(w, V)
         /\ free' = Pool(V) \ Range(f) /\ pending' = Reserved(f)
         /\ copies' = Enqueued(f)
    /\ request' = w /\ phase' = "copying"
    /\ UNCHANGED <<data, host, source, leaked>>

\* ... when a copy raises: some are on the stream by then, and stay there.
SwapInFailsKeeping(w) ==
    /\ "copy" \in Faults
    /\ phase = "idle" /\ Accepted(w) /\ Fenced /\ Missing(w) \subseteq Stored
    /\ \E V \in Victims(w) : \E f \in Injection(Missing(w), Pool(V)) :
         /\ Evict(w, V)
         /\ free' = Pool(V) \ Range(f)
         /\ copies' \in SUBSET Enqueued(f)
    /\ UNCHANGED <<data, pending, host, request, phase, source, leaked>>
SwapInFails(w) ==
    /\ "copy" \in Faults
    /\ phase = "idle" /\ Accepted(w) /\ Fenced /\ Missing(w) \subseteq Stored
    /\ \E V \in Victims(w) : \E f \in Injection(Missing(w), Pool(V)) :
         /\ Evict(w, V)
         /\ free' = Pool(V)
         /\ copies' \in SUBSET Enqueued(f)
    /\ UNCHANGED <<data, pending, host, request, phase, source, leaked>>

\* A copy on the stream of the host tier is done.
Fetched(P) == IF \A i, j \in P : mem[i] = mem[j] THEN mem[CHOOSE i \in P : TRUE] ELSE Torn
Land ==
    /\ \E c \in copies : /\ data' = [data EXCEPT ![c.slot] = Fetched(c.pages)]
                         /\ copies' = copies \ {c}
    /\ UNCHANGED <<slot, lru, free, shown, pending, host, request, phase, source, leaked>>

\* The reserved slots become visible.
Commit(w, given, order) ==
    /\ slot' = [p \in Plans |-> IF given[p] # NoSlot THEN given[p] ELSE slot[p]]
    /\ shown' = [s \in Slots |-> IF \E p \in Plans : given[p] = s
                                 THEN CHOOSE p \in Plans : given[p] = s ELSE shown[s]]
    /\ lru' = lru \o order

\* _swap_in_from_host, from the fence on.
SwapInEnd ==
    /\ phase = "copying" /\ Fenced
    /\ Commit(request, pending, InOrder(request))
    /\ pending' = NoPending /\ phase' = "ready"
    /\ RegisterGroup(request)
    /\ UNCHANGED <<free, data, copies, request, source, leaked>>

\* A request all of whose plans are resident.
HitUntouched(w) ==
    /\ phase = "idle" /\ Missing(w) = {}
    /\ request' = w /\ phase' = "ready"
    /\ RegisterGroup(w)
    /\ UNCHANGED <<slab, copies, source, leaked>>
Hit(w) ==
    /\ phase = "idle" /\ Missing(w) = {}
    /\ lru' = Touched(lru, w)
    /\ request' = w /\ phase' = "ready"
    /\ RegisterGroup(w)
    /\ UNCHANGED <<slot, free, shown, data, pending, copies, source, leaked>>

\* The way through the checkpoint: slots are reserved, and written layer by
\* layer.
RebuildBegin(w) ==
    /\ phase = "idle" /\ Accepted(w) /\ Fenced /\ ~(Missing(w) \subseteq Stored)
    /\ \E V \in Victims(w) : \E f \in Injection(Missing(w), Pool(V)) :
         /\ Evict(w, V)
         /\ free' = Pool(V) \ Range(f) /\ pending' = Reserved(f)
    /\ request' = w /\ phase' = "projecting"
    /\ UNCHANGED <<data, copies, host, source, leaked>>

Taken == {pending[p] : p \in {q \in Plans : pending[q] # NoSlot}}

\* embed raises: nobody hands the slots back.
EmbedFails ==
    /\ "embed" \in Faults /\ phase = "projecting"
    /\ pending' = NoPending /\ leaked' = TRUE
    /\ request' = <<>> /\ phase' = "idle"
    /\ UNCHANGED <<slot, lru, free, shown, data, copies, host, source>>

\* A read of the checkpoint or a projection raises.
ProjectFails ==
    /\ "project" \in Faults /\ phase = "projecting"
    /\ data' = [s \in Slots |-> IF s \in Taken THEN Torn ELSE data[s]]
    /\ free' = free \cup Taken /\ pending' = NoPending
    /\ request' = <<>> /\ phase' = "idle"
    /\ UNCHANGED <<slot, lru, shown, copies, host, source, leaked>>

Project ==
    /\ phase = "projecting"
    /\ data' = [s \in Slots |-> IF s \in Taken
                                THEN Of(CHOOSE p \in Plans : pending[p] = s) ELSE data[s]]
    /\ Commit(request, pending, InOrder(request))
    /\ pending' = NoPending /\ phase' = "ready"
    /\ StoreGroup(request, [p \in Range(request) |->
                                IF pending[p] = NoSlot THEN data[slot[p]] ELSE Of(p)])
    /\ UNCHANGED <<free, copies, request, source, leaked>>

\* The free list runs out while slots are popped from it: the request fails,
\* and the slots that it has popped are gone.
PopsEmpty(w) ==
    /\ phase = "idle" /\ Accepted(w) /\ Fenced
    /\ \E V \in Victims(w) :
         /\ Cardinality(Pool(V)) < Cardinality(Missing(w))
         /\ Evict(w, V)
    /\ free' = {} /\ leaked' = TRUE
    /\ UNCHANGED <<data, pending, copies, host, request, phase, source>>

\* The request has denoised, or has failed doing so.
Finish ==
    /\ phase = "ready"
    /\ request' = <<>> /\ phase' = "idle"
    /\ UNCHANGED <<slab, copies, host, source, leaked>>

\* refresh_weight_derived_caches after an update of the weights: the cache
\* reads another checkpoint from now on, and forgets everything (invalidate).
InvalidateSlab(s) ==
    /\ phase = "idle" /\ Fenced
    /\ slot' = NoPending /\ lru' = <<>> /\ free' = Slots
    /\ shown' = [i \in Slots |-> NoPlan] /\ source' = s /\ leaked' = FALSE
    /\ UNCHANGED <<data, pending, copies, host, request, phase>>
Invalidate(s) ==
    /\ phase = "idle" /\ Fenced
    /\ page' = [p \in Plans |-> {}] /\ refs' = [p \in Plans |-> 0]
    /\ groups' = <<>> /\ freePages' = Pages
    /\ slot' = NoPending /\ lru' = <<>> /\ free' = Slots
    /\ shown' = [i \in Slots |-> NoPlan] /\ source' = s /\ leaked' = FALSE
    /\ UNCHANGED <<data, pending, copies, mem, request, phase>>

Next ==
    \/ \E w \in Schedules : \/ Hit(w) \/ SwapIn(w) \/ SwapInFails(w)
                            \/ RebuildBegin(w) \/ PopsEmpty(w)
    \/ Land \/ SwapInEnd \/ EmbedFails \/ ProjectFails \/ Project \/ Finish
    \/ \E s \in Sources : Invalidate(s)

Spec == Init /\ [][Next]_vars

-----------------------------------------------------------------------------
\* What denoising reads: every plan of a request that build() has let through
\* is resident, lookup finds it in the slot that resolve_slots names and in no
\* other, and the slot holds the outputs of that plan from the checkpoint that
\* is served: neither another plan's, nor an earlier checkpoint's, nor what a
\* copy of an earlier, failed request has left there or may still bring.
ServedPlansRight ==
    /\ \A p \in Resident : /\ data[slot[p]] = Of(p)
                           /\ \A s \in Slots : shown[s] = p <=> s = slot[p]
                           /\ \A c \in copies : c.slot # slot[p]
    /\ phase = "ready" => Range(request) \subseteq Resident

\* The free-list invariant that _swap_in_from_host speaks of: every slot is
\* free, or holds one resident plan, or is reserved by the request that is
\* being prepared, and only a failure of embed takes slots out of this account.
SlabAccounted ==
    /\ free \cap {slot[p] : p \in Resident} = {}
    /\ Taken \cap (free \cup {slot[p] : p \in Resident}) = {}
    /\ \A p, q \in Resident : slot[p] = slot[q] => p = q
    /\ \A p, q \in Plans : pending[p] = pending[q] /\ pending[p] # NoSlot => p = q
    /\ ~leaked => free \cup {slot[p] : p \in Resident} \cup Taken = Slots

\* "The wanted-count check in build() guarantees enough resident plans outside
\* this request to cover the shortfall": a request that passes the check never
\* pops from an empty free list.  It does once embed has raised: the slots it
\* held are outside the handler that would hand them back.
AdmittedFits ==
    phase = "idle" =>
        \A w \in Schedules : Accepted(w) =>
            Cardinality(Missing(w)) <= Cardinality(free) + Cardinality(Evictable(w))

\* The host tier: a plan is held once by each group it belongs to and is there
\* as long as one of them is, all of it or nothing; its pages are its own, and
\* hold its outputs from the checkpoint that is served; other pages are free.
HostTierRight ==
    /\ \A p \in Plans :
         /\ refs[p] = Cardinality({i \in 1..Len(groups) : p \in Range(groups[i])})
         /\ p \in Stored <=> refs[p] > 0
         /\ p \in Stored => Cardinality(page[p]) = Length[p]
         /\ \A i \in page[p] : mem[i] = Of(p)
         /\ \A q \in Plans \ {p} : page[p] \cap page[q] = {}
    /\ freePages = Pages \ UNION {page[p] : p \in Plans}

\* The plans of the request that is being served are the last that would be
\* evicted, whichever way they came: "a pure hit is still a use".
ServedPlansRecent ==
    /\ Len(lru) = Cardinality(Resident) /\ Range(lru) = Resident
    /\ phase = "ready" => \A p \in Range(request), q \in Resident \ Range(request) : Older(q, p)
=============================================================================
