------------------------------ MODULE Scheduler ------------------------------
(***************************************************************************)
(* The scheduler of a model replica (managers/scheduler.py with            *)
(* dynamic_batch_admission.py).  Every GPU rank runs the same event loop.  *)
(* Rank 0 alone has the socket: it receives requests and broadcasts them,  *)
(* and it alone replies.  In each turn a rank receives, takes the next     *)
(* batch off its own waiting queue, and executes it.  Receiving and        *)
(* generating are collective operations: every rank takes part in them at  *)
(* the same time, or waits for ever.                                       *)
(***************************************************************************)
EXTENDS Integers, Sequences, Queues

CONSTANTS
    Requests,       \* requests, each of a client of its own
    Ranks,          \* 0, which has the socket, and the others
    Kind,           \* what a request is (see Kinds)
    Class,          \* its compatibility signature
    Outs,           \* num_outputs_per_prompt
    Cost,           \* estimate_request_cost
    Batching,       \* whether dynamic batching is enabled
    MaxSize,        \* batching_max_size
    Limit,          \* the admission limit on the outputs of a batch
    MaxCost,        \* and on its cost
    Delay,          \* whether batching_delay_ms is positive
    Sequential,     \* supports_sequential_dit_inference
    Warmup,         \* whether warmup_mode is "request"
    MaxRecv,        \* _MAX_RECV_REQS_PER_POLL
    MaxErrors,      \* _max_consecutive_errors
    Faults          \* what may fail: "operate" on one rank and not on another

\* A Req that may be batched; one that may not (an image, a realtime session);
\* a list of Reqs, which is one logical request; the operations on the worker.
Kinds == {"gen", "solo", "group", "sleep", "wake", "update", "shutdown"}

Generations == {"gen", "solo", "group"}

ASSUME SchedulerAssumption ==
    /\ 0 \in Ranks
    /\ Kind \in [Requests -> Kinds]
    /\ Outs \in [Requests -> Nat \ {0}] /\ Cost \in [Requests -> Nat]
    /\ {MaxSize, Limit, MaxCost, MaxRecv} \subseteq Nat /\ MaxErrors \in Nat \ {0}
    /\ {Batching, Delay, Sequential, Warmup} \subseteq BOOLEAN
    /\ Limit <= MaxSize
    /\ Faults \subseteq {"recv", "send", "forward", "operate"}
    \* the signature holds num_outputs_per_prompt, unless Sequential
    /\ \A r, s \in Requests :
         ~Sequential /\ Class[r] = Class[s] => Outs[r] = Outs[s]

VARIABLES
    inbox,          \* rank 0's socket: requests sent and not yet received
    sent,           \* the requests that have been sent
    arrived,        \* the requests in the order in which they were queued
    pc,             \* where each rank is in its turn
    queue,          \* waiting_queue
    late,           \* queued requests that have waited for the batching delay
    batch,          \* the items a rank executes
    sleeping,       \* worker.is_sleeping()
    warmed,         \* req_based_warmup_scheduled
    errors,         \* _consecutive_error_count of rank 0
    replies         \* what each client has received

vars == <<inbox, sent, arrived, pc, queue, late, batch, sleeping, warmed, errors,
          replies>>

Item(r)       == [r |-> r, warm |-> FALSE]
WarmupItem(r) == [r |-> r, warm |-> TRUE]
Items         == [r : Requests, warm : BOOLEAN]

\* The outputs that a request asks for.
OutputsOf(r) == [i \in 1..Outs[r] |-> <<r, i>>]

RequestsIn(q) == {q[i].r : i \in 1..Len(q)}

TypeOK ==
    /\ inbox \in Seq(Requests) /\ arrived \in Seq(Requests) /\ sent \subseteq Requests
    /\ pc \in [Ranks -> {"recv", "select", "execute", "stopped", "dead"}]
    /\ queue \in [Ranks -> Seq(Items)] /\ batch \in [Ranks -> Seq(Items)]
    /\ \A k \in Ranks : batch[k] # <<>> <=> pc[k] = "execute"
    /\ late \in [Ranks -> SUBSET Requests]
    /\ sleeping \in [Ranks -> BOOLEAN]
    /\ warmed \in BOOLEAN /\ errors \in 0..MaxErrors

Init ==
    /\ inbox = <<>> /\ sent = {} /\ arrived = <<>>
    /\ pc = [k \in Ranks |-> "recv"]
    /\ queue = [k \in Ranks |-> <<>>]
    /\ late = [k \in Ranks |-> {}]
    /\ batch = [k \in Ranks |-> <<>>]
    /\ sleeping = [k \in Ranks |-> FALSE]
    /\ warmed = FALSE /\ errors = 0
    /\ replies = [r \in Requests |-> <<>>]

Send(r) ==
    /\ r \notin sent
    /\ sent' = sent \cup {r} /\ inbox' = Append(inbox, r)
    /\ UNCHANGED <<arrived, pc, queue, late, batch, sleeping, warmed, errors, replies>>

-----------------------------------------------------------------------------
\* recv_reqs takes what the socket holds, up to a bound.
Received == SubSeq(inbox, 1, IF Len(inbox) < MaxRecv THEN Len(inbox) ELSE MaxRecv)

\* process_received_reqs_with_req_based_warmup: the first request that comes,
\* if it is a generation, is preceded by a copy of it that warms the server up.
NeedsWarmup == /\ Warmup /\ ~warmed /\ Received # <<>>
               /\ Kind[Head(Received)] \in Generations

NewItems == (IF NeedsWarmup THEN <<WarmupItem(Head(Received))>> ELSE <<>>)
                \o [i \in 1..Len(Received) |-> Item(Received[i])]

\* What rank k has once the broadcasts are done: what rank 0 received.
BroadcastToDriver(k) == IF k = 0 THEN NewItems ELSE <<>>
Broadcast(k) == NewItems

\* The first part of a turn: rank 0 receives, all ranks get the broadcast and
\* queue what is in it.  With no delay to wait for a request is late at once.
Recv ==
    /\ \A k \in Ranks : pc[k] = "recv"
    /\ pc' = [k \in Ranks |-> "select"]
    /\ inbox' = SubSeq(inbox, Len(Received) + 1, Len(inbox))
    /\ arrived' = arrived \o Received
    /\ queue' = [k \in Ranks |-> queue[k] \o Broadcast(k)]
    /\ late' = [k \in Ranks |-> IF Delay THEN late[k]
                                ELSE late[k] \cup Range(Received)]
    /\ warmed' = (warmed \/ NeedsWarmup)
    /\ errors' = 0
    /\ UNCHANGED <<sent, batch, sleeping, replies>>

\* Receiving fails on rank 0 while the others wait for the broadcast; what was
\* taken off the socket before the failure is gone.
RecvFails ==
    /\ "recv" \in Faults
    /\ pc[0] = "recv"
    /\ \E n \in 0..Len(Received) : inbox' = SubSeq(inbox, n + 1, Len(inbox))
    /\ errors' = errors + 1
    /\ pc' = IF errors + 1 >= MaxErrors THEN [pc EXCEPT ![0] = "dead"] ELSE pc
    /\ UNCHANGED <<sent, arrived, queue, late, batch, sleeping, warmed, replies>>

\* The clock of rank k says that r has waited for the delay.
Elapse(k, r) ==
    /\ Delay
    /\ r \in RequestsIn(queue[k]) \ late[k]
    /\ late' = [late EXCEPT ![k] = @ \cup {r}]
    /\ UNCHANGED <<inbox, sent, arrived, pc, queue, batch, sleeping, warmed,
                   errors, replies>>

-----------------------------------------------------------------------------
\* _can_dynamic_batch
CanBatch(a, b) == /\ Kind[a.r] = "gen" /\ Kind[b.r] = "gen"
                  /\ ~a.warm /\ ~b.warm
                  /\ Class[a.r] = Class[b.r]

Total(f, q) == FoldLeft(LAMBDA n, x : n + f[x.r], 0, q)

\* reject_reason_for_candidate, batch_is_full
AdmittedBlindly(q) == Len(q) <= MaxSize
Admitted(q) == Total(Outs, q) <= Limit /\ Total(Cost, q) <= MaxCost

Full(q) == \/ Len(q) >= MaxSize
           \/ Total(Outs, q) >= Limit
           \/ Total(Cost, Append(q, Head(q))) > MaxCost

\* The items of the queue that go into a batch with its head: the scan ends
\* when the batch is full and passes over what does not fit in it.
CompatibleNewest(q) ==
    LET Scan(b, x) == IF ~Full(b) /\ CanBatch(Head(b), x) /\ Admitted(Append(b, x))
                      THEN Append(b, x) ELSE b
    IN FoldLeft(Scan, <<Head(q)>>, [i \in 1..Len(q) - 1 |-> q[Len(q) + 1 - i]])
Compatible(q) ==
    LET Scan(b, x) == IF /\ ~Full(b)
                         /\ CanBatch(Head(b), x)
                         /\ Admitted(Append(b, x))
                      THEN Append(b, x) ELSE b
    IN FoldLeft(Scan, <<Head(q)>>, Tail(q))

\* What is taken is deleted; the others keep their order.
DropFirst(q, taken) == SubSeq(q, Len(taken) + 1, Len(q))
Drop(q, taken) == Minus(q, Range(taken))

\* The head may be batched; it waits for more to be batched with while there
\* is room and it is not late.
Batchable(q) == Batching /\ CanBatch(Head(q), Head(q))

WaitsForFull(k) == Batchable(queue[k]) /\ ~Full(Compatible(queue[k]))
Waits(k) ==
    /\ Batchable(queue[k])
    /\ Head(queue[k]).r \notin late[k]
    /\ ~Full(Compatible(queue[k]))

\* get_next_batch_to_run; the head is taken alone unless it may be batched.
NextBatch(q) == IF Batchable(q) THEN Compatible(q) ELSE <<Head(q)>>

Select(k) ==
    LET q == queue[k]
    IN /\ pc[k] = "select"
       /\ IF q = <<>> \/ Waits(k)
          THEN /\ pc' = [pc EXCEPT ![k] = "recv"]
               /\ UNCHANGED <<queue, batch, late>>
          ELSE \E b \in {NextBatch(q)} :
               /\ pc' = [pc EXCEPT ![k] = "execute"]
               /\ batch' = [batch EXCEPT ![k] = b]
               /\ queue' = [queue EXCEPT ![k] = Drop(q, b)]
               /\ late' = [late EXCEPT ![k] = @ \cap RequestsIn(queue'[k])]
       /\ UNCHANGED <<inbox, sent, arrived, sleeping, warmed, errors, replies>>

-----------------------------------------------------------------------------
\* The first n items are answered.  Warmups get no reply.
Replied(items, n, result) ==
    replies' = [r \in Requests |->
        IF \E i \in 1..n : items[i] = Item(r)
        THEN Append(replies[r], result[CHOOSE i \in 1..n : items[i] = Item(r)])
        ELSE replies[r]]

\* Replies go out one by one; a ZMQError ends them.
ReturnAll(items, result) ==
    replies' = [r \in Requests |->
        IF r \in RequestsIn(items)
        THEN Append(replies[r], result[CHOOSE i \in 1..Len(items) : items[i].r = r])
        ELSE replies[r]]
Return(items, result) ==
    \E n \in 0..Len(items) :
        /\ n = Len(items) \/ "send" \in Faults
        /\ Replied(items, n, result)

Failed == <<>>

\* _split_batched_output: the slice of request i starts after those before it.
SplitAtIndex(items, out, i) == SubSeq(out, i, i + Outs[items[i].r] - 1)
SplitAt(items, out, i) ==
    LET start == Total(Outs, SubSeq(items, 1, i - 1))
    IN SubSeq(out, start + 1, start + Outs[items[i].r])

\* What the worker computes for a batch: the outputs one after the other.
Merged(items) == FoldLeft(LAMBDA out, x : out \o OutputsOf(x.r), <<>>, items)

Split(items) ==
    LET out == Merged(items)
    IN [i \in 1..Len(items) |-> SplitAt(items, out, i)]

Errors(items) == [i \in 1..Len(items) |-> Failed]

\* Some requests of the batch fail: all of it, when it was merged and the
\* forward pass raises or the output does not split, or any of them, when they
\* were computed one by one or could not be saved.
Partly(items, bad) == [i \in 1..Len(items) |-> IF i \in bad THEN Failed ELSE Split(items)[i]]

\* All ranks generate the same items: the collectives of the forward pass need
\* every one of them, and a rank that sleeps does not get there.
Together(items) ==
    \A k \in Ranks : /\ pc[k] = "execute" /\ batch[k] = items
                     /\ Kind[Head(items).r] \in Generations
                     /\ ~sleeping[k]

TurnedKeepsBatch == pc' = [k \in Ranks |-> "recv"] /\ UNCHANGED batch
Turned == /\ pc' = [k \in Ranks |-> "recv"]
          /\ batch' = [k \in Ranks |-> <<>>]

\* _handle_generation of a batch or of one request.
Generate ==
    LET items == batch[0]
    IN /\ Together(items)
       /\ ~(Sequential /\ Len(items) > 1)
       /\ \E bad \in SUBSET (1..Len(items)) :
            /\ bad = {} \/ "forward" \in Faults
            /\ Return(items, Partly(items, bad))
       /\ Turned
       /\ UNCHANGED <<inbox, sent, arrived, queue, late, sleeping, warmed, errors>>

\* _return_results_sequentially: the first request of the batch is computed
\* and answered, with an error if its outputs could not be saved, before the
\* next one starts.  If its forward pass fails, all the rest do; if its reply
\* cannot be sent, rank 0 alone goes on to its next turn.
GenerateNext ==
    LET items == batch[0]
        first == SubSeq(items, 1, 1)
    IN /\ Together(items)
       /\ Sequential /\ Len(items) > 1
       /\ \/ /\ \/ Replied(first, 1, Split(first))
                \/ "forward" \in Faults /\ Replied(first, 1, Errors(first))
             /\ batch' = [k \in Ranks |-> Tail(items)]
             /\ UNCHANGED pc
          \/ /\ "send" \in Faults
             /\ batch' = [k \in Ranks |-> IF k = 0 THEN <<>> ELSE Tail(items)]
             /\ pc' = [pc EXCEPT ![0] = "recv"]
             /\ UNCHANGED replies
          \/ /\ "forward" \in Faults
             /\ Return(items, Errors(items))
             /\ Turned
       /\ UNCHANGED <<inbox, sent, arrived, queue, late, sleeping, warmed, errors>>

\* The turn of one rank ends; rank 0 alone replies.
TurnedAlone(k, next, items, result) ==
    /\ pc' = [pc EXCEPT ![k] = next]
    /\ batch' = [batch EXCEPT ![k] = <<>>]
    /\ IF k = 0 THEN Return(items, result) ELSE UNCHANGED replies

\* _handle_generation raises on a rank whose worker sleeps, before any
\* collective and whatever the other ranks do.
Refuse(k) ==
    /\ pc[k] = "execute" /\ Kind[Head(batch[k]).r] \in Generations /\ sleeping[k]
    /\ TurnedAlone(k, "recv", batch[k], Errors(batch[k]))
    /\ UNCHANGED <<inbox, sent, arrived, queue, late, sleeping, warmed, errors>>

\* The operations on the worker, which every rank does for itself; rank 0
\* replies, after a shutdown too.
Operate(k) ==
    LET item == Head(batch[k])
        kind == Kind[item.r]
    IN /\ pc[k] = "execute" /\ kind \notin Generations
       /\ sleeping' = [sleeping EXCEPT ![k] = CASE kind = "sleep" -> TRUE
                                                 [] kind = "wake" -> FALSE
                                                 [] OTHER -> @]
       /\ TurnedAlone(k, IF kind = "shutdown" THEN "stopped" ELSE "recv", <<item>>,
                      IF kind = "update" /\ sleeping[k]
                      THEN Errors(<<item>>) ELSE Split(<<item>>))
       /\ UNCHANGED <<inbox, sent, arrived, queue, late, warmed, errors>>

\* ... when it raises on this rank: moving the modules of a worker that falls
\* asleep or wakes up, loading weights into one that is awake.
OperateFails(k) ==
    LET item == Head(batch[k])
        kind == Kind[item.r]
    IN /\ "operate" \in Faults
       /\ pc[k] = "execute"
       /\ kind \in (IF sleeping[k] THEN {"wake"} ELSE {"sleep", "update"})
       /\ TurnedAlone(k, "recv", <<item>>, Errors(<<item>>))
       /\ UNCHANGED <<inbox, sent, arrived, queue, late, sleeping, warmed, errors>>

-----------------------------------------------------------------------------
Next ==
    \/ \E r \in Requests : Send(r)
    \/ Recv
    \/ RecvFails
    \/ \E k \in Ranks, r \in Requests : Elapse(k, r)
    \/ \E k \in Ranks : Select(k)
    \/ Generate
    \/ GenerateNext
    \/ \E k \in Ranks : Refuse(k) \/ Operate(k) \/ OperateFails(k)

Spec == Init /\ [][Next]_vars

\* Each rank is a process whose loop never sleeps for longer than the delay,
\* and time passes; a collective happens once every rank is in it.
Fairness ==
    /\ WF_vars(Recv)
    /\ \A k \in Ranks : WF_vars(Select(k))
    /\ WF_vars(Generate \/ GenerateNext)
    /\ \A k \in Ranks : WF_vars(Refuse(k) \/ Operate(k) \/ OperateFails(k))
    /\ WF_vars(\E k \in Ranks, r \in Requests : Elapse(k, r))

FairSpec == Spec /\ Fairness

-----------------------------------------------------------------------------
Answered(r) == replies[r] # <<>>

Position(r) == CHOOSE i \in 1..Len(arrived) : arrived[i] = r
HasArrived(r) == \E i \in 1..Len(arrived) : arrived[i] = r

\* A client gets at most one reply, the copy of its request that warmed the
\* server up included, and one that is not an error holds the outputs of its
\* own request, whatever batch it was split from.
OwnReplyOnce ==
    \A r \in Requests :
        /\ Len(replies[r]) <= 1
        /\ Answered(r) => replies[r][1] \in {Failed, OutputsOf(r)}

\* A batch of several requests is one the admission control allows: they are
\* compatible with its head and stay within all three limits together.
BatchesAdmitted ==
    \A k \in Ranks :
        LET b == batch[k]
        IN Len(b) > 1 => /\ \A i \in 1..Len(b) : CanBatch(b[1], b[i])
                         /\ Len(b) <= MaxSize
                         /\ Total(Outs, b) <= Limit
                         /\ Total(Cost, b) <= MaxCost

\* Of two compatible requests of the same size the one that came first is
\* never left in a queue from which the other has been taken.
FifoWithinClass ==
    \A k \in Ranks : \A r, s \in RequestsIn(queue[k]) \cup {arrived[i] : i \in 1..Len(arrived)} :
        /\ CanBatch(Item(r), Item(s)) /\ Outs[r] = Outs[s] /\ Cost[r] = Cost[s]
        /\ Position(r) < Position(s)
        /\ s \notin RequestsIn(queue[k])
        => Item(r) \notin Range(queue[k])

\* What has been queued is not lost: it waits, is being executed, or has been
\* answered.
NothingDropped ==
    \A r \in Requests : HasArrived(r) =>
        Answered(r) \/ Item(r) \in Range(queue[0]) \cup Range(batch[0])

\* The ranks choose alike without asking each other: those that are about to
\* execute have the same items, and those that wait for the next broadcast
\* have the same queue.  They do so even if an operation on the worker has gone
\* wrong on some of them only.
RanksInStep ==
    \A j, k \in Ranks :
        /\ pc[j] = "execute" /\ pc[k] = "execute" => batch[j] = batch[k]
        /\ pc[j] = pc[k] => queue[j] = queue[k]

\* "make sure a reply is always sent": a request that was queued is answered,
\* unless the scheduler has been shut down or has given up receiving.  It is
\* so as long as no rank waits in a collective for one that is not coming.
EveryRequestAnswered ==
    \A r \in Requests :
        HasArrived(r) ~> (Answered(r) \/ pc[0] \in {"stopped", "dead"})
=============================================================================
