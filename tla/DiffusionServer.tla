--------------------------- MODULE DiffusionServer ---------------------------
(***************************************************************************)
(* The orchestrator of the disaggregated deployment                        *)
(* (disaggregation/orchestrator.py with request_state.py), together with   *)
(* the encoder, denoiser and decoder instances it drives                   *)
(* (disaggregation/scheduler_mixin.py, transport/manager.py).              *)
(*                                                                         *)
(* A request waits for a free slot of an encoder, is encoded and staged in *)
(* the encoder's transfer buffer, waits for a denoiser, is pushed into a   *)
(* receive slot of that denoiser, computed and staged there, and goes the  *)
(* same way to a decoder, whose output is the client's reply.  One action  *)
(* is one handler of the orchestrator's event loop, or one message that an *)
(* instance handles.                                                       *)
(*                                                                         *)
(* The event loop is one thread: in each turn it expires requests, handles *)
(* at most one message of the client socket and of each role's socket, in  *)
(* that order, and then dispatches what is queued.  Messages in flight are *)
(* sets: two connections of one socket are not ordered with each other.    *)
(***************************************************************************)
EXTENDS Integers, Sequences, FiniteSets, Functions

CONSTANTS
    Requests,       \* request ids, each submitted once
    NoRequest,
    Count,          \* Count[role]: how many instances the role has
    Capacity,       \* Capacity[role]: free slots of an instance at the start
    PreallocSlots,  \* receive slots a receiver allocates when it starts
    PreallocSize,   \* and their size
    Sizes,          \* the sizes of what an encoder or a denoiser stages
    Faults,         \* which steps of an instance may fail
    Timeouts        \* whether requests may exceed the timeout

Roles     == {"enc", "den", "dec"}
Receivers == {"den", "dec"}

Instances(role) == 0..(Count[role] - 1)

None   == -1            \* Python's None, for instances and slots

ASSUME ConstantsAssumption ==
    /\ NoRequest \notin Requests /\ Requests \cap Int = {}
    /\ \A role \in Roles : Count[role] \in Nat \ {0} /\ Capacity[role] \in Nat
    /\ PreallocSlots \in Nat /\ PreallocSize \in Nat /\ Sizes \subseteq Nat
    /\ Faults \subseteq {"encode", "alloc", "push", "denoise", "decode"}
    /\ Timeouts \in BOOLEAN

VARIABLES
    \* the orchestrator
    stage,          \* how far the event loop is in its turn
    running,        \* FALSE once an exception has ended the loop
    log,            \* the requests in the order of their submission
    rec,            \* _tracker: request -> its record
    pending,        \* _pending: requests whose client waits for a reply
    free_slots,     \* _encoder_free_slots, _denoiser_..., _decoder_...
    tta,            \* _encoder_tta, _denoiser_tta, _decoder_tta
    next_idx,       \* where each role's round robin goes on
    p2p,            \* _transfer_state: request -> where its tensors go
    prealloc,       \* the receivers' free_preallocated_slots
    \* the network
    work,           \* messages to the instances
    results,        \* messages from the instances
    \* the instances
    staged,         \* _staged of the transfer managers
    receives,       \* receive slots allocated on demand
    mem,            \* whose tensors each receive slot holds
    \* what the clients and the roles have seen
    replies,
    progress

server    == <<stage, running, log, rec, pending, free_slots, tta, next_idx,
               p2p, prealloc>>
instances == <<staged, receives, mem, progress>>
vars      == <<server, work, results, instances, replies>>

Record   == [state : {"encoder_waiting", "encoder_running",
                      "denoising_waiting", "denoising_running",
                      "decoder_waiting", "decoder_running"},
             enc : Int, den : Int, dec : Int]

Transfer == [sender : Int, receiver : Int, slot : Int, size : Nat]

\* A receive slot of an instance: a preallocated one, or the one that the
\* instance allocated for a request.
Place(role, i, r, slot) == <<role, i, IF slot = None THEN r ELSE slot>>

Work(kind, role, i, r, place) ==
    [kind |-> kind, role |-> role, idx |-> i, r |-> r, place |-> place]
Result(kind, role, i, r, size) ==
    [kind |-> kind, role |-> role, idx |-> i, r |-> r, size |-> size]

Kinds == {"encode", "alloc", "push", "ready",
          "register", "staged", "error", "allocated", "pushed",
          "done", "failed", "output", "output_error"}

InLog(r) == \E i \in 1..Len(log) : log[i] = r

TypeOK ==
    /\ stage \in 0..5 /\ running \in BOOLEAN
    /\ log \in Seq(Requests)
    /\ DOMAIN rec \subseteq Requests /\ \A r \in DOMAIN rec : rec[r] \in Record
    /\ pending \subseteq Requests
    /\ \A role \in Roles : free_slots[role] \in [Instances(role) -> Int]
    /\ tta \in [Roles -> Seq(Requests)] /\ \A role \in Roles : IsInjective(tta[role])
    /\ \A role \in Roles : next_idx[role] \in Instances(role)
    /\ DOMAIN p2p \subseteq Requests /\ \A r \in DOMAIN p2p : p2p[r] \in Transfer
    /\ \A m \in work \cup results : /\ m.kind \in Kinds
                                    /\ m.role \in Roles
                                    /\ m.idx \in Instances(m.role)
                                    /\ m.r \in Requests \cup {NoRequest}
    /\ replies \in [Requests -> {"none", "ok", "error"}]
    /\ progress \in [Requests -> 0..3]

\* Every receiver announces the slots it preallocated when it starts.
Init ==
    /\ stage = 0 /\ running = TRUE /\ log = <<>>
    /\ rec = <<>> /\ pending = {} /\ p2p = <<>>
    /\ free_slots = [role \in Roles |-> [i \in Instances(role) |-> Capacity[role]]]
    /\ tta = [role \in Roles |-> <<>>]
    /\ next_idx = [role \in Roles |-> 0]
    /\ prealloc = [role \in Receivers |-> [i \in Instances(role) |-> <<>>]]
    /\ work = {}
    /\ results = UNION {{Result("register", role, i, NoRequest, 0) :
                            i \in Instances(role)} : role \in Receivers}
    /\ staged = {} /\ receives = {} /\ mem = <<>>
    /\ replies = [r \in Requests |-> "none"]
    /\ progress = [r \in Requests |-> 0]

-----------------------------------------------------------------------------
\* _VALID_TRANSITIONS among the states a request may be in.
ValidTransitions ==
    [encoder_waiting   |-> {"encoder_running"},
     encoder_running   |-> {"encoder_done"},
     encoder_done      |-> {"denoising_waiting", "denoising_running"},
     denoising_waiting |-> {"denoising_running"},
     denoising_running |-> {"denoising_waiting", "denoising_done"},
     denoising_done    |-> {"decoder_waiting", "decoder_running"},
     decoder_waiting   |-> {"decoder_running"},
     decoder_running   |-> {}]

\* transition raises on an unknown request or an invalid step; every caller
\* passes over the exception.
MoveFromRunning(t, r, s) ==
    IF r \in DOMAIN t /\ t[r].state \in {"encoder_running", "denoising_running"}
    THEN [t EXCEPT ![r].state = s] ELSE t
Move(t, r, s) ==
    IF r \in DOMAIN t /\ s \in ValidTransitions[t[r].state]
    THEN [t EXCEPT ![r].state = s] ELSE t

\* The same with the instance that the request is dispatched to.
MoveTo(t, r, s, role, i) ==
    IF r \in DOMAIN t /\ s \in ValidTransitions[t[r].state]
    THEN [t EXCEPT ![r].state = s, ![r][role] = i] ELSE t

Forget(t, r) == [q \in DOMAIN t \ {r} |-> t[q]]
Put(t, r, v) == [q \in DOMAIN t \cup {r} |-> IF q = r THEN v ELSE t[q]]

\* One slot of instance i given back, if there is an instance.
FreeSlotOfFirst(role, i) ==
    free_slots' = [free_slots EXCEPT ![role][0] = @ + 1]
FreeSlotNever(role, i) == UNCHANGED free_slots
FreeSlot(role, i) ==
    free_slots' = IF i = None THEN free_slots
                              ELSE [free_slots EXCEPT ![role][i] = @ + 1]

OnInstance(r, role) == IF r \in DOMAIN rec THEN rec[r][role] ELSE None

StateIn(r, states) == r \in DOMAIN rec /\ rec[r].state \in states

\* The request leaves the tracker; its client, if it still waits, gets a.
AnswerKeepsRecord(r, a) ==
    /\ pending' = pending \ {r}
    /\ replies' = IF r \in pending THEN [replies EXCEPT ![r] = a] ELSE replies
    /\ UNCHANGED rec
AnswerTwice(r, a) ==
    /\ rec' = Forget(rec, r)
    /\ pending' = pending \ {r}
    /\ replies' = [replies EXCEPT ![r] = a]
Answer(r, a) ==
    /\ rec' = Forget(rec, r)
    /\ pending' = pending \ {r}
    /\ replies' = IF r \in pending THEN [replies EXCEPT ![r] = a] ELSE replies

-----------------------------------------------------------------------------
(***************************************************************************)
(* The event loop.  Turn(k) is the k-th thing the loop does in a turn; the *)
(* sockets of the client, the encoders, the denoisers and the decoders are *)
(* 1 to 4, dispatching is 5.                                               *)
(***************************************************************************)
Turn(k) == running /\ stage < k /\ stage' = k

Socket == [enc |-> 2, den |-> 3, dec |-> 4]

Receive(m) == m \in results /\ Turn(Socket[m.role]) /\ results' = results \ {m}

\* Which slot _free_slot_for_record gives back for a request that expires.
ExpiredSlotUpstream ==
    [encoder_waiting   |-> "none", encoder_running   |-> "enc",
     denoising_waiting |-> "none", denoising_running |-> "enc",
     decoder_waiting   |-> "none", decoder_running   |-> "den"]
ExpiredSlot == [encoder_waiting   |-> "none", encoder_running   |-> "enc",
                denoising_waiting |-> "none", denoising_running |-> "den",
                decoder_waiting   |-> "none", decoder_running   |-> "dec"]

\* find_timed_out: any tracked request; a terminal one is no longer tracked.
ExpirableWhenRunning(r) ==
    StateIn(r, {"encoder_running", "denoising_running", "decoder_running"})
Expirable(r) == r \in DOMAIN rec

\* deque(e for e in q if e.request_id not in timed_set): a request waits at most
\* once in a queue (TypeOK), so that one entry goes.
Without(q, r) ==
    LET at == CHOOSE i \in DOMAIN q : q[i] = r
    IN IF r \in Range(q) THEN SubSeq(q, 1, at - 1) \o SubSeq(q, at + 1, Len(q)) ELSE q

\* _handle_timeouts, one request after the other, the oldest first.
HandleTimeout(r) ==
    LET role == ExpiredSlot[rec[r].state]
    IN /\ Timeouts /\ running /\ stage = 0
       /\ Expirable(r)
       /\ \A i, j \in 1..Len(log) :
            Expirable(log[i]) /\ log[j] = r => j <= i
       /\ IF role = "none" THEN UNCHANGED free_slots
                           ELSE FreeSlot(role, rec[r][role])
       /\ Answer(r, "error")
       /\ tta' = [q \in Roles |-> Without(tta[q], r)]
       /\ UNCHANGED <<stage, running, log, next_idx, p2p, prealloc, work,
                      results, instances>>

HandleClientRequest(r) ==
    /\ Turn(1)
    /\ ~InLog(r)
    /\ log' = Append(log, r)
    /\ rec' = Put(rec, r, [state |-> "encoder_waiting",
                           enc |-> None, den |-> None, dec |-> None])
    /\ pending' = pending \cup {r}
    /\ tta' = [tta EXCEPT !["enc"] = Append(@, r)]
    /\ UNCHANGED <<running, free_slots, next_idx, p2p, prealloc, work, results,
                   instances, replies>>

\* The slots a receiver registers with.
RegisteredSlots == [s \in 1..PreallocSlots |-> [slot |-> s, size |-> PreallocSize]]

HandleRegister(m) ==
    /\ m.kind = "register"
    /\ Receive(m)
    /\ prealloc' = [prealloc EXCEPT ![m.role][m.idx] = RegisteredSlots]
    /\ UNCHANGED <<running, log, rec, pending, free_slots, tta, next_idx, p2p,
                   work, instances, replies>>

\* _handle_role_error_frames: the encoder could not compute or stage it.
HandleRoleError(m) ==
    /\ m.kind = "error"
    /\ Receive(m)
    /\ Answer(m.r, "error")
    /\ UNCHANGED <<running, log, free_slots, tta, next_idx, p2p, prealloc, work,
                   instances>>

\* _handle_transfer_staged; a request that is no longer tracked goes on.
HandleStaged(m) ==
    /\ m.kind = "staged"
    /\ Receive(m)
    /\ p2p' = Put(p2p, m.r,
                  [sender   |-> IF m.r \in DOMAIN rec THEN rec[m.r].enc ELSE 0,
                   receiver |-> None, slot |-> None, size |-> m.size])
    /\ rec' = Move(Move(rec, m.r, "encoder_done"), m.r, "denoising_waiting")
    /\ tta' = [tta EXCEPT !["den"] = Append(@, m.r)]
    /\ UNCHANGED <<running, log, pending, free_slots, next_idx, prealloc, work,
                   instances, replies>>

Denoising == {"denoising_waiting", "denoising_running"}
Decoding  == {"decoder_waiting", "decoder_running"}

\* Who has staged a request; without a record it is taken for an encoder.
SenderEncoder(r) == "enc"
SenderRole(r) == IF StateIn(r, Decoding) THEN "den" ELSE "enc"

\* _handle_transfer_allocated: tell the sender where to push.  An index that
\* no encoder has ends the event loop with an IndexError.
HandleAllocated(m) ==
    LET role == SenderRole(m.r)
        i    == p2p[m.r].sender
    IN /\ m.kind = "allocated"
       /\ Receive(m)
       /\ IF m.r \in DOMAIN p2p /\ i \in Instances(role)
          THEN work' = work \cup {Work("push", role, i, m.r,
                                       Place(m.role, m.idx, m.r, None))}
          ELSE UNCHANGED work
       /\ running' = (m.r \in DOMAIN p2p => i \in Instances(role))
       /\ UNCHANGED <<log, rec, pending, free_slots, tta, next_idx, p2p,
                      prealloc, instances, replies>>

\* _handle_transfer_pushed: the sender has given its slot back; the receiver
\* may start.  Neither happens for a request that is no longer tracked.
HandlePushed(m) ==
    LET r        == m.r
        role     == IF StateIn(r, Denoising) THEN "den" ELSE "dec"
        sender   == IF role = "den" THEN "enc" ELSE "den"
        i        == p2p[r].receiver
        expected == r \in DOMAIN p2p /\ StateIn(r, Denoising \cup Decoding)
    IN /\ m.kind = "pushed"
       /\ Receive(m)
       /\ IF expected
          THEN /\ FreeSlot(sender, rec[r][sender])
               /\ work' = work \cup {Work("ready", role, i, r,
                                          Place(role, i, r, p2p[r].slot))}
          ELSE UNCHANGED <<free_slots, work>>
       /\ UNCHANGED <<running, log, rec, pending, tta, next_idx, p2p, prealloc,
                      instances, replies>>

\* _recycle_prealloc_slot: back to the end of the receiver's list, with the
\* size of what it last held.
Recycle(r) ==
    LET i == p2p[r].receiver
    IN prealloc' =
         IF r \notin DOMAIN p2p \/ p2p[r].slot = None THEN prealloc
         ELSE [prealloc EXCEPT !["den"][i] =
                  Append(@, [slot |-> p2p[r].slot, size |-> p2p[r].size])]

\* _handle_transfer_done of a denoiser that staged its output.
HandleDone(m) ==
    LET r == m.r
    IN /\ m.kind = "done"
       /\ Receive(m)
       /\ Recycle(r)
       /\ IF r \in DOMAIN p2p
          THEN /\ p2p' = [p2p EXCEPT ![r].slot = None, ![r].size = m.size,
                          ![r].sender = IF r \in DOMAIN rec THEN rec[r].den ELSE 0]
               /\ rec' = Move(Move(rec, r, "denoising_done"), r, "decoder_waiting")
               /\ tta' = [tta EXCEPT !["dec"] = Append(@, r)]
               /\ UNCHANGED free_slots
          ELSE /\ rec' = Move(rec, r, "denoising_done")
               /\ FreeSlot("den", OnInstance(r, "den"))
               /\ UNCHANGED <<p2p, tta>>
       /\ UNCHANGED <<running, log, pending, next_idx, work, instances, replies>>

\* _handle_transfer_done with an error; the transfer state stays behind.
HandleFailed(m) ==
    LET r == m.r
    IN /\ m.kind = "failed"
       /\ Receive(m)
       /\ Recycle(r)
       /\ p2p' = IF r \in DOMAIN p2p THEN [p2p EXCEPT ![r].slot = None] ELSE p2p
       /\ FreeSlot("den", OnInstance(r, "den"))
       /\ Answer(r, "error")
       /\ UNCHANGED <<running, log, tta, next_idx, work, instances>>

\* _handle_decoder_result_frames.  The slot the output was received in is not
\* recycled here, and the decoder sends no transfer_done.
HandleOutput(m) ==
    /\ m.kind \in {"output", "output_error"}
    /\ Receive(m)
    /\ FreeSlot("dec", OnInstance(m.r, "dec"))
    /\ Answer(m.r, IF m.kind = "output" THEN "ok" ELSE "error")
    /\ p2p' = IF m.r \in pending THEN Forget(p2p, m.r) ELSE p2p
    /\ UNCHANGED <<running, log, tta, next_idx, prealloc, work, instances>>

-----------------------------------------------------------------------------
\* _drain_all_queues: the encoder queue, then the denoisers', the decoders'.
\* RoundRobin.select_with_capacity comes by every instance once, the next in
\* turn first ...
Visited(role, k) == (next_idx[role] + k) % Count[role]

\* ... and passes over those without a free slot.  The set holds how many: it
\* is empty when select_with_capacity returns None.
Passed(role) ==
    {k \in Instances(role) : /\ free_slots[role][Visited(role, k)] > 0
                             /\ \A j \in 0..(k - 1) :
                                  free_slots[role][Visited(role, j)] <= 0}

HasCapacityToSpare(role) == \E i \in Instances(role) : free_slots[role][i] > 1
HasCapacity(role) == Passed(role) # {}

Drainable(role) == tta[role] # <<>> /\ HasCapacity(role)

\* The instance it selects if there is one.
Selected(role) == Visited(role, CHOOSE k \in Passed(role) : TRUE)

\* What every dispatch does: take the oldest entry, claim a slot.
Claim(role, state) ==
    LET r == Head(tta[role])
        i == Selected(role)
    IN /\ running /\ stage' = 5
       /\ Drainable(role)
       /\ tta' = [tta EXCEPT ![role] = Tail(@)]
       /\ next_idx' = [next_idx EXCEPT ![role] = (i + 1) % Count[role]]
       /\ free_slots' = [free_slots EXCEPT ![role][i] = @ - 1]
       /\ rec' = MoveTo(rec, r, state, role, i)

DispatchToEncoder ==
    /\ Claim("enc", "encoder_running")
    /\ work' = work \cup {Work("encode", "enc", Selected("enc"),
                               Head(tta["enc"]), <<>>)}
    /\ UNCHANGED <<running, log, pending, p2p, prealloc, results, instances,
                   replies>>

\* The fast path needs the first free slot of the receiver to be large enough.
FitsFirst(slots, n) == slots # <<>>
FastPath(slots, n) == slots # <<>> /\ Head(slots).size >= n

\* It takes that slot off the list.
PopNothing(slots) == slots
Pop(slots) == Tail(slots)

\* _transfer_dispatch_to_denoiser and _transfer_dispatch_to_decoder.
DispatchTransfer(role, sender) ==
    LET r     == Head(tta[role])
        i     == Selected(role)
        slots == prealloc[role][i]
        fast  == FastPath(slots, p2p[r].size)
    IN /\ IF fast
          THEN /\ prealloc' = [prealloc EXCEPT ![role][i] = Pop(@)]
               /\ p2p' = [p2p EXCEPT ![r].receiver = i,
                                     ![r].slot = Head(slots).slot]
               /\ work' = work \cup
                    {Work("push", sender, p2p[r].sender, r,
                          Place(role, i, r, Head(slots).slot))}
          ELSE /\ p2p' = [p2p EXCEPT ![r].receiver = i]
               /\ work' = work \cup {Work("alloc", role, i, r, <<>>)}
               /\ UNCHANGED prealloc
       /\ UNCHANGED <<running, log, pending, results, instances, replies>>

DispatchToDenoiser ==
    /\ ~Drainable("enc")
    /\ Claim("den", "denoising_running")
    /\ DispatchTransfer("den", "enc")

DispatchToDecoder ==
    /\ ~Drainable("enc") /\ ~Drainable("den")
    /\ Claim("dec", "decoder_running")
    /\ DispatchTransfer("dec", "den")

EndOfTurn ==
    /\ running /\ stage > 0 /\ stage' = 0
    /\ \A role \in Roles : ~Drainable(role)
    /\ UNCHANGED <<running, log, rec, pending, free_slots, tta, next_idx, p2p,
                   prealloc, work, results, instances, replies>>

-----------------------------------------------------------------------------
(***************************************************************************)
(* The instances.  A step that a fault names may also fail, in the way the *)
(* code reports it: an encoder sends an error, a denoiser transfer_done    *)
(* with an error, a decoder an error as its output; a receiver that cannot *)
(* allocate sends nothing; a sender whose push fails reports it as done.   *)
(***************************************************************************)
MayFail(step) == step \in Faults

\* What the roles have computed counts when each had the right input.
Computed(r, ok, n) ==
    progress' = IF ok /\ progress[r] = n THEN [progress EXCEPT ![r] = n + 1]
                                         ELSE progress

\* The transfer manager's table of staged tensors and of receive slots.
Stage(role, i, r) == staged' = staged \cup {<<role, i, r>>}

PushToPeer(t, place) == staged' = staged \ {t} /\ mem' = Put(mem, place, t[3])

AllocateReceiveSlot(place) == receives' = receives \cup {place}

FreeReceiveSlot(place) ==
    /\ receives' = receives \ {place}
    /\ mem' = IF place \in receives THEN Forget(mem, place) ELSE mem

\* _disagg_encoder_step
Encode(m) ==
    LET i == m.idx
        r == m.r
    IN /\ m.kind = "encode"
       /\ work' = work \ {m}
       /\ \/ \E n \in Sizes :
               /\ Stage("enc", i, r)
               /\ results' = results \cup {Result("staged", "enc", i, r, n)}
               /\ Computed(r, TRUE, 0)
          \/ /\ MayFail("encode")
             /\ results' = results \cup {Result("error", "enc", i, r, 0)}
             /\ UNCHANGED <<staged, progress>>
       /\ UNCHANGED <<server, receives, mem, replies>>

\* _handle_transfer_alloc
Allocate(m) ==
    /\ m.kind = "alloc"
    /\ work' = work \ {m}
    /\ \/ /\ AllocateReceiveSlot(<<m.role, m.idx, m.r>>)
          /\ results' = results \cup {Result("allocated", m.role, m.idx, m.r, 0)}
       \/ MayFail("alloc") /\ UNCHANGED <<receives, results>>
    /\ UNCHANGED <<server, staged, mem, progress, replies>>

\* _handle_transfer_push hands the message to the push thread.
PushRequested(m) == m.kind = "push" /\ work' = work \ {m}

\* _rdma_push_loop: staged tensors are written to the receiver and dropped;
\* transfer_pushed is sent in any case.
Push(m) ==
    LET t == <<m.role, m.idx, m.r>>
    IN /\ PushRequested(m)
       /\ results' = results \cup {Result("pushed", m.role, m.idx, m.r, 0)}
       /\ \/ t \in staged /\ PushToPeer(t, m.place)
          \/ (t \notin staged \/ MayFail("push")) /\ UNCHANGED <<staged, mem>>
       /\ UNCHANGED <<server, receives, progress, replies>>

\* transfer_ready: load what the receive slot holds, give a slot allocated on
\* demand back, and compute (_prefetch_transfer_ready, the prefetch loop,
\* _disagg_denoiser_compute and _disagg_decoder_compute).
LoadKeepsSlot(m) ==
    /\ m.kind = "ready"
    /\ work' = work \ {m}
    /\ UNCHANGED <<receives, mem>>
Load(m) ==
    /\ m.kind = "ready"
    /\ work' = work \ {m}
    /\ FreeReceiveSlot(m.place)

OwnData(m) == m.place \in DOMAIN mem /\ mem[m.place] = m.r

Denoise(m) ==
    LET i == m.idx
        r == m.r
    IN /\ m.role = "den"
       /\ Load(m)
       /\ \/ \E n \in Sizes :
               /\ Stage("den", i, r)
               /\ results' = results \cup {Result("done", "den", i, r, n)}
               /\ Computed(r, OwnData(m), 1)
          \/ /\ MayFail("denoise")
             /\ results' = results \cup {Result("failed", "den", i, r, 0)}
             /\ UNCHANGED <<staged, progress>>
       /\ UNCHANGED <<server, replies>>

Decode(m) ==
    /\ m.role = "dec"
    /\ Load(m)
    /\ \/ /\ results' = results \cup {Result("output", "dec", m.idx, m.r, 0)}
          /\ Computed(m.r, OwnData(m), 2)
       \/ /\ MayFail("decode")
          /\ results' = results \cup {Result("output_error", "dec", m.idx, m.r, 0)}
          /\ UNCHANGED progress
    /\ UNCHANGED <<server, staged, replies>>

-----------------------------------------------------------------------------
HandleResult(m) ==
    \/ HandleRegister(m)
    \/ HandleRoleError(m)
    \/ HandleStaged(m)
    \/ HandleAllocated(m)
    \/ HandlePushed(m)
    \/ HandleDone(m)
    \/ HandleFailed(m)
    \/ HandleOutput(m)

ServerNext ==
    \/ \E r \in Requests : HandleTimeout(r)
    \/ \E r \in Requests : HandleClientRequest(r)
    \/ \E m \in results : HandleResult(m)
    \/ DispatchToEncoder
    \/ DispatchToDenoiser
    \/ DispatchToDecoder
    \/ EndOfTurn

InstanceNext ==
    \E m \in work : Encode(m) \/ Allocate(m) \/ Push(m) \/ Denoise(m) \/ Decode(m)

\* Every request has been answered and the server waits for more.
AllServed ==
    /\ stage = 0 /\ DOMAIN rec = {}
    /\ \A r \in Requests : InLog(r)
    /\ UNCHANGED vars

Next == ServerNext \/ InstanceNext \/ AllServed

Spec == Init /\ [][Next]_vars

\* The event loop polls for at most 10 ms and never stops by itself; every
\* step of it uses up a message, a queue entry or a request, or ends a turn
\* that did, so weak fairness of the loop as a whole is enough.  The clock
\* is part of it: a request that stays tracked expires.
ServerFairness == WF_vars(ServerNext)

\* An instance serves its work socket as long as it lives.
FairSpec == Spec /\ ServerFairness /\ WF_vars(InstanceNext)

\* Instances may stop for ever: only the orchestrator is known to go on.
ServerFairSpec == Spec /\ ServerFairness

-----------------------------------------------------------------------------
\* A transfer of the request is under way.
InTransfer(r) == \E m \in work \cup results :
                    m.r = r /\ m.kind \in {"alloc", "allocated", "push", "pushed"}

\* Request r occupies a slot of instance i: from its dispatch until its output
\* has been pushed on (the decoder: until it has answered).
Occupies(r, role, i) ==
    /\ rec[r][role] = i
    /\ CASE role = "enc" -> \/ rec[r].state \in {"encoder_running", "denoising_waiting"}
                            \/ rec[r].state = "denoising_running" /\ InTransfer(r)
         [] role = "den" -> \/ rec[r].state \in {"denoising_running", "decoder_waiting"}
                            \/ rec[r].state = "decoder_running" /\ InTransfer(r)
         [] role = "dec" -> rec[r].state = "decoder_running"

\* Slots are neither lost nor counted twice: what is missing from an instance's
\* free slots is exactly what the tracked requests occupy.
SlotsConserved ==
    \A role \in Roles : \A i \in Instances(role) :
        Capacity[role] - free_slots[role][i] =
            Cardinality({r \in DOMAIN rec : Occupies(r, role, i)})

\* No instance is ever given more requests than its slots, nor a slot back
\* that it never gave: not even when a request expires while a result of it
\* is on its way, and an instance fails.
SlotsWithinCapacity ==
    \A role \in Roles : \A i \in Instances(role) :
        free_slots[role][i] \in 0..Capacity[role]

\* A request whose client waits is tracked, and one whose client has been
\* answered is not: no reply is lost and no record is left behind.
ClientsAccounted ==
    /\ pending = DOMAIN rec
    /\ \A r \in Requests : replies[r] = "none" <=> (~InLog(r) \/ r \in pending)

\* A request waits in a queue only while no instance of that role has a slot.
NoIdleCapacity ==
    stage = 0 => \A role \in Roles :
                    tta[role] # <<>> => \A i \in Instances(role) :
                                            free_slots[role][i] = 0

\* The slot an instance is told to load from holds that request's tensors:
\* they have been pushed, and no other transfer has written over them.
ReadyDataLanded ==
    \A m \in work : m.kind = "ready" => OwnData(m)

\* A push is asked of the instance that has staged the tensors.
PushGoesToStager ==
    \A m \in work : m.kind = "push" => <<m.role, m.idx, m.r>> \in staged

\* A preallocated slot has at most one user: it is listed as free once, or is
\* the target of one transfer, which fits in it although a recycled slot is
\* listed with a size that is not its own.
PreallocSlotsSound ==
    LET Free(role, i) == prealloc[role][i]
        Targeted == {m \in work : m.kind \in {"push", "ready"} /\ m.place[3] \in Nat}
    IN /\ \A role \in Receivers : \A i \in Instances(role) :
            \A a, b \in 1..Len(Free(role, i)) :
               /\ Free(role, i)[a].size <= PreallocSize
               /\ Free(role, i)[a].slot = Free(role, i)[b].slot => a = b
       /\ \A m \in Targeted :
            /\ p2p[m.r].size <= PreallocSize
            /\ \A n \in Targeted : n.place = m.place => n = m
            /\ \A a \in 1..Len(Free(m.place[1], m.place[2])) :
                 Free(m.place[1], m.place[2])[a].slot # m.place[3]

\* Nothing is left of requests that have been answered, once every message has
\* been handled: all slots are free and the transfer buffers are empty.
Quiet == /\ stage = 0 /\ DOMAIN rec = {} /\ work = {} /\ results = {}
         /\ \A role \in Roles : tta[role] = <<>>
AllSlotsFree ==
    \A role \in Roles : \A i \in Instances(role) :
        free_slots[role][i] = Capacity[role]
NothingLeftBehind == Quiet => AllSlotsFree /\ staged = {} /\ receives = {}

\* As long as a client waits for a reply the event loop runs, so that at least
\* the timeout can answer it.
PendingCanExpire == pending # {} => running

\* Every request that the server accepted is answered.
EveryRequestAnswered ==
    \A r \in Requests : InLog(r) ~> replies[r] # "none"

\* The orchestrator and its instances implement Pipeline: a result is sent at
\* most once, and only after the three roles computed it, each on the tensors
\* the one before it had staged for this request.
Abstract == INSTANCE Pipeline
ImplementsPipeline == Abstract!Spec
=============================================================================
