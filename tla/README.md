# Formal models of the H3 Lightning serving runtime

TLA+ specifications, TLC configurations and TLAPS proofs for the runtime that
this repository ships: SGLang's `multimodal_gen`, under
`src/sglang/python/sglang/multimodal_gen/runtime` (written `R/` below). The
models follow the code, not its documentation. `PROJECT.json` maps each
definition to the lines it stands for and lists components, hazards, runs,
mutants, findings and theorems.

## The system

The repository is a recipe (scripts that install and start the server on eight
GPUs) around a pinned snapshot of SGLang. Of the snapshot, the recipe runs only
`multimodal_gen`. Its parts, and how they interact:

| Part | Code | Model |
|---|---|---|
| OpenAI video API, job store | `R/entrypoints/openai/` | `VideoJobs` |
| Image and mesh API, command line | `R/entrypoints/` | not modelled |
| Scheduler client | `R/scheduler_client.py` | `SchedulerClient`; the environment of `Scheduler` |
| Scheduler: one event loop per GPU rank, dynamic batching | `R/managers/scheduler.py`, `dynamic_batch_admission.py` | `Scheduler` |
| Request-based warmup | `R/server_warmup.py` | `Scheduler` (the warmup copy) |
| Rank groups and broadcasts | `R/distributed/` | one broadcast in `Scheduler` |
| GPU worker, pipelines, models, kernels, step caches | `R/managers/gpu_worker.py`, `R/pipelines*`, `R/layers`, `R/cache` | a forward pass is one step with an outcome |
| AdaLN plan cache of MiniMax H3 | `R/models/dits/minimax_h3_adaln_cache.py` | `AdalnCache` |
| Sleep and wake, residency of modules | `R/managers/memory_managers/` | `Worker`; a flag in `Scheduler` |
| Disaggregation orchestrator | `R/disaggregation/orchestrator.py`, `request_state.py`, `dispatch_policy.py` | `DiffusionServer`, `Pipeline` |
| Encoder, denoiser and decoder instances | `R/disaggregation/scheduler_mixin.py` | `DiffusionServer` |
| Transfer manager and protocol | `R/disaggregation/transport/manager.py`, `protocol.py` | `DiffusionServer` |
| Transfer buffer, buddy allocator | `transport/allocator.py`, `buffer.py` | `BuddyAllocator`, `SlotPool` |
| RDMA engine, codec | `transport/engine.py`, `codec.py` | not modelled: a push lands or fails |
| Realtime sessions | `R/realtime/` | not modelled |
| Post-training weight updates | `R/post_training/` | `Worker`; an operation of `Scheduler` |
| LoRA | `R/pipelines_core/lora/` | not modelled |
| Launcher, recipe scripts | `R/launch_server.py`, `src/scripts/` | not modelled: they start processes |
| Language model runtime, gateway, Rust, kernels | rest of `src/sglang` | not modelled: vendored, not run by the recipe |

A request comes over HTTP, goes through the scheduler client to rank 0 of a replica, is
broadcast to the other ranks and generated by all of them together. In the disaggregated
deployment the client talks to the orchestrator instead, which moves the request through
an encoder, a denoiser and a decoder; the tensors go from instance to instance directly,
into slots of a transfer buffer that a buddy allocator hands out. The recipe itself
starts one monolithic replica (`--tp-size 2 --ulysses-degree 4`) and sets no batching
flags; batching, disaggregation and several replicas are options of the same server. The
plan cache belongs to the H3 transformer: before a request denoises, the outputs of the
AdaLN layers for its timesteps are brought into a slab on the GPU. A weight update makes
them invalid.

## Modules

**`BuddyAllocator`** models `BuddyAllocator` and the `allocate` of
`TransferTensorBuffer` above it. State: `blocks`, `free_lists`, the two counters,
the lock, and for each thread where its call is. `AllocateBegin`, one `SplitStep`
per turn of the split loop, and `AllocateEnd` are one critical section;
`GetBlockInfo` is the second acquisition of the lock, in which the buffer reads
the size back. `FreeBegin`, `MergeStep` and `CoalesceEnd` are `free`. Sizes come
from a table `SizeAt` that doubles from order to order. `offset ^ size` is
written as the block's other half, which is the same for aligned blocks; that
blocks are aligned is checked (`BlocksAligned`), not assumed. A refused allocation
changes nothing and is a stutter. **`SlotPool`** is what the buffer promises:
slots inside the pool, no two sharing a byte.

**`DiffusionServer`** composes the orchestrator, the instances and the network
between them. The event loop is one thread: a turn (`stage`) expires requests,
handles at most one message of the client socket and of each role's socket, and
then drains the three queues; each handler is one action. Instances handle one
message per action. Messages in flight are sets, because two connections of one
socket are not ordered with each other. A slot of a receiver is a place whose
content (`mem`) is the request whose tensors landed there last. An exception in a
handler that the code does not catch sets `running` to FALSE. Timeouts: with
`Timeouts`, a tracked request may expire at the head of any turn, oldest first.
An instance that dies is one that takes no more steps. **`Pipeline`** is what a
client is promised: at most one answer, and a result only after three roles have
computed it in order.

**`Scheduler`** models the event loop of every rank of a replica. `Recv` (receive
and broadcast) and `Generate`/`GenerateNext` (forward passes) are collective: all
ranks take part in one step, and a rank whose peers are elsewhere waits. `Select`
(`get_next_batch_to_run`) and `Operate` are local to a rank. The compatibility
signature of a request is a constant class; its size and cost are constants. The
clock of each rank is the action `Elapse`, which may come at any moment. Sleep,
wake and weight updates are run by each rank for itself and may raise on one and
not on another (`OperateFails`); each rank catches that and goes on. A rank that
sleeps refuses a generation before its first collective (`Refuse`), so that ranks
that differ in `sleeping` never meet in `Generate`. The other handlers (LoRA,
sessions, statistics) would be the same step with no state. A forward pass that
fails is taken to fail on all ranks. A reply that fails in sequential mode takes
rank 0 alone out of the batch (`GenerateNext`).

**`AdalnCache`** models the plan cache in the mode that rebuilds plans from a
checkpoint. A request goes one of three ways: `Hit`, `SwapIn` from the host tier
(whose copies land one by one, `Land`, behind the request's back), or
`RebuildBegin` and `Project`, which also stores the schedule as a group of the
host tier. `EmbedFails`, `ProjectFails`, `SwapInFails` and `PopsEmpty` are the ways
to fail, each with what it gives back and what it does not. Contents are pairs of
a plan and the checkpoint it was computed from. `Fenced` is the wait of the compute
stream and the copy stream for each other. `Invalidate` is a weight update.

**`Worker`** says what the control operations do to the worker of one rank, as functions
from a worker to the set of its outcomes: one outcome for success, and one for each
place where loading, refreshing what is derived from the weights, rolling back, moving
or moving back can raise. A module can be left half moved; the code looks only at its
first tensor (`Device`). Beside the state of the code a worker records, for the
properties, which weights each module was `given` by the last update that succeeded.
**`SchedulerClient`** puts replicas behind the client. Every rank of a replica runs an
operation with an outcome of its own, and rank 0 alone answers: errors of the others are
kept in `unheard`. Control calls visit the replicas in order, several calls can be under
way, each wait can time out if `scheduler_rpc_timeout` is set (`RpcTimeout`), and what
was sent may still run later (`RunsLate`). A generation that only some ranks enter
leaves the replica `hung`. **`VideoJobs`** adds the HTTP server: a job's handler, its
task, `delete_video` and shutdown, one action per stretch of code between two awaits,
and the generation that outlives its task (`GeneratedLate`). A job record keeps the
status in the store, the temporary directories, those of them that could not be removed,
and the output on disk; an output may have been written by a save that raised, or resist
removal. These three modules are one system: jobs generate on the same workers that are
updated and put to sleep.

**`Queues`** has the two operators on sequences that the scheduler and the plan cache
share: a loop over a list as a fold, and the comprehension that keeps part of one.

The modules `MC...` give the constants values for TLC, the modules `...Proofs` hold
the theorems, and `CommonFacts` has the lemmas that they share. Operators such as
`SplitAtIndex` or `FreeSlotNever`, each just before the definition it resembles,
are deliberate mistakes: with one in place of its neighbour, a run must fail.

## What the runs check

State counts are those of the checked instance.

| Run | Question | Result |
|---|---|---|
| `buddy` | Two threads, a pool of eight units, requests of orders 0, 1 and 2 and one larger than the pool. Tiling, alignment, exact free lists and counters, disjoint handles, honest refusals, refinement of `SlotPool`. | holds, 57,933 states (threads are symmetric) |
| `pipeline` | Two requests, one encoder, two denoisers, one decoder, denoising and decoding may fail, no timeouts, live instances. Slots conserved exactly, no idle capacity, pushes go to the stager, nothing left behind, every request answered. | holds, 95,108 states |
| `expiry` | Two requests, two encoders, timeouts at any moment, every step but the push may fail, instances may stop for ever. Slots within capacity, clients accounted for, loaded tensors are the request's own, preallocated slots have one user, every request answered, refinement of `Pipeline`. | holds, 343,462 states |
| `loop_stops` | Does the event loop run while a client waits? | violated: finding 1 |
| `scheduler` | Two ranks, no batching delay, sleep and wake among the requests, receiving and forward passes may fail. Ranks agree, nothing queued is lost, own outputs once, every queued request answered. | holds, 190,756 states |
| `batching` | One rank, delay, warmup, sequential inference, unequal sizes, failing operations and sends. Batches within all limits, order within a class, own outputs at most once. | holds, 488,315 states |
| `rank_clocks` | The liveness property of `scheduler`, with a batching delay. | violated: finding 2 |
| `rank_sleep` | The liveness property of `scheduler`, with operations that may raise on one rank. | violated: finding 3 |
| `adaln` | Four plans of one to three pages, three slots, three pages, schedules that share plans, two checkpoints, failures and late copies. Requests read their own plans from the served checkpoint, slots and pages have one use, served plans are the most recent. | holds, 274,272 states (slots and pages are symmetric) |
| `leaked_slots` | Does a request that is admitted find room? | violated: finding 4 |
| `video_jobs` | Two replicas of two ranks, two components, three model paths, two concurrent control calls, two jobs, a budget of faults and timeouts. A call that succeeded did so wherever an error could be heard, weights are known, modules are whole, jobs are accounted for, jobs settle. | holds, 229,280 states |
| `rollback` | Does a failed update leave every module with the weights it had? | violated: finding 5 |

### Findings

1. `_handle_transfer_allocated` takes the sender of an untracked request for an
   encoder. With more denoisers than encoders the index may be out of range; the
   exception ends the event loop, and pending clients no longer even time out.
2. With a batching delay, each rank decides by its own clock whether the head of
   the queue has waited long enough. Ranks that disagree wait for each other in
   different collectives. The recipe sets no delay, and without one (the default)
   all ranks choose the same batches.
3. Even so they may part. A sleep, wake or update that raises on one rank is caught
   there, and the ranks then differ in whether they sleep. Of the next generation,
   those that sleep refuse it and the others wait for them in a collective: the
   replica hangs, and the request is answered only if it is rank 0 that sleeps.
   The choice of batches is not affected, which is what `RanksInStep` says and what
   is proved with failing operations, too.
4. `build` reserves slots and calls `embed` outside the `try` that would hand them
   back. If it raises they are lost, and the check that admits a request, which
   compares with the size of the slab, admits some that find no room.
5. An update of some modules renames the model path for all. A later update that
   fails to load a module without a directory of its own rolls it back from the new
   path, or passes it over if that has no such directory: the module stays half
   loaded, while the reply says that all modules were rolled back. Likewise, weights
   that came as tensors are replaced by those of the last checkpoint on disk.

### What the properties leave out

The properties that hold are stated of the code as it is. What it does beyond them is
listed in `hazards`:

- `SlotsConserved` and `NothingLeftBehind` are about deployments in which nothing
  expires and only denoising and decoding fail. A request that expires while an
  encoder works on it is not cancelled: its late `transfer_staged` is dispatched
  although no record is left, and takes a denoiser slot that no handler gives back.
  An encoder's error frame does not give the encoder's slot back, either.
- `ReadyDataLanded` and `ImplementsPipeline` are about pushes that succeed.
  `_rdma_push_loop` reports `transfer_pushed` also for one that failed; the receiver
  then loads a slot in which nothing has arrived.
- `EveryRequestAnswered` of the scheduler ends with its loop: a shutdown, or three
  failures to receive in a row, leave the rest of the queue without a reply. The run
  `scheduler` has no send failures, since a failed reply to one request of a batch
  leaves the later ones unanswered, and no failing operations (finding 3).
- `SlabAccounted`: every slot is accounted for until an embedding raises (finding 4).
- `WeightsKnown` speaks of modules whose last weights the code can restore: those of a
  directory recorded for the module, or those of the start before any update from
  disk. Others are the subject of finding 5. It leaves out modules that an error
  which was reported left as they were, in a rollback, in `refresh_weight_derived_caches`
  or among tensors (`suspect`).
- `ModulesWhole`: the module at which a move raises stays half moved. If its head is
  on the CPU its next use repairs it; after a rollback that fails in its turn
  (`moves = "stranded"`), not necessarily.
- `SucceededEverywhere` speaks of calls that nothing crossed, and not of ranks other
  than 0 that had an error of their own: no reply carries it, so that a call may say
  it succeeded when such a rank failed. A call that failed or timed out may have taken
  effect on some replicas, and may yet on another.
- `JobsAccounted`: directories stay behind when saving the inputs fails, when a
  handler is cancelled, when a task is cut off before its first step or in its
  `finally` clause (`"left"`, `"cut"`), and when `rmtree` fails, whose errors are
  ignored; a late generation can write into a directory that was removed. A failed job
  may leave an output that was to be kept: `save_outputs` may raise after writing, and a
  rejected output that cannot be removed is only logged. An output that is not
  persistent is removed with the job's directories, so that a completed job can be
  downloaded only if it was to be kept or was uploaded.
- `JobsSettle` is about servers with `scheduler_rpc_timeout`. By default it is `None`,
  and a job whose replica hangs (finding 3) then waits for ever.

### Bounds

Requests are submitted once each, so behaviours are finite apart from the turns of the
loops. Two requests are enough for two transfers to meet in one receiver and for a late
result of one to meet the dispatch of the other; `loop_stops` needs a third as the
waiting client. One role has two instances in each deployment, so that indices can be
confused. Sizes 1 and 3 around a preallocated size of 2 take the fast and the slow path.
In `Scheduler` the requests of one class exceed what one batch admits in `batching`,
`MaxRecv` is below the number of requests, and `MaxErrors` is the code's 3. In `adaln`
one schedule needs more slots than there are, and the plan of three pages fills the host
tier, so that every store decision occurs. `video_jobs` gives each behaviour one of five
budgets (`MCBudgets`) of faults, control calls and jobs: one call with two faults, two
calls with one, three calls without, a call and a job with a fault, or two jobs with a
fault. Two faults let an operation fail on both ranks of a replica, or on two replicas;
one is enough for a replica to hang. Two calls are what an update that renames the path
and a failing one need. One of the checkpoints lacks a component. `rollback` has one
replica of one rank, three calls and one fault. Deadlock checking is off only where a
system may stop: after a shutdown, after three receive errors, after the loop of finding
1, when ranks wait for each other as in findings 2 and 3, or when the jobs and calls of
`video_jobs` are over.

### Fairness

- `ServerFairness`: the orchestrator's loop polls for at most 10 ms and goes on;
  the clock is part of it, so a request that stays tracked expires.
- `FairSpec` of `DiffusionServer` adds that live instances serve their work.
  `expiry` uses `ServerFairSpec`, which does not: the timeout alone must answer.
- `FairSpec` of `Scheduler`: each rank's loop goes on, a collective happens once
  all ranks are in it, and time passes. No fault is ever required to happen, nor
  a request to be sent.
- `Spec` of `VideoJobs`: the awaits in a job's task end. A replica that does not hang
  answers, one that hangs times out if there is a timeout, and worker threads return;
  control calls need not go on. `AdalnCache`
  has no liveness property and no fairness.

## What is proved

Eight modules hold theorems, for every value of the constants that satisfies the
named assumptions of the components. `PROJECT.json` lists them.

**Induction over data.** The library's induction theorems take an operator, which the
provers cannot instantiate. `CommonFacts` therefore states induction over the naturals
and over sequences with a set in place of the operator, and folds with a function in
place of the step (`FoldTable`, `FoldOneMore`): a fold over a set of positions is the last
entry of a table of partial results, each a step from the one before. What `Minus`
keeps of a queue, and what the scan of the scheduler takes from one, is proved from these
for queues of every length.

**The allocator.** `BuddyAllocatorProofs` proves `TypeOK`, `BlocksTilePool`,
`FreeListsExact`, `HandlesAreSlots`, `CallsConsistent`, and that the allocator
implements `SlotPool`, assuming only that `NoThread` is no thread, `MaxOrder` is a
natural number, sizes double from order to order, and request sizes are positive.
None of the properties is inductive alone; `IInv` joins them. Tiling is kept by a
merge only if the buddy taken off the list really is a free block of that size
(`FreeListsExact`), which holds during a split or a merge only with the exception of
the block in hand, which belongs to the holder of the lock (`CallsConsistent`). That
an allocated block is not touched between `AllocateEnd` and `GetBlockInfo` is the
clause of `CallsConsistent` about `"info"`, and makes the second acquisition of the
lock harmless. There is one lemma per action and `NextIInv` combines them. For the
refinement, `GetBlockInfo` is a grant and `FreeBegin` a release.

Three more properties build on `IInv`. `BlocksAligned` needs that the halves of an
aligned block are aligned and that the lower of two buddies is aligned for twice the
size; with it the model's buddy is the code's `offset ^ size`. `CountersExact`
follows the cardinality of the set of allocated bytes through each action.
`RefusalIsHonest` needs one more invariant, `NoFreeBuddies`: outside the critical
section no two buddies are both free. If an aligned region met no allocated block,
take the smallest block that meets it: it is free, hence smaller than the region, so
its buddy lies in the region too. The block there is no smaller, by choice, and no
larger, since blocks do not overlap; so it is the buddy, free and of equal size.

**The scheduler.** `SchedulerProofs` proves `RanksInStep` for any number of ranks, any
classes and any admission limits, under `OneClock`: no batching delay, and no failing
replies in sequential mode. Finding 2 and the failing reply in `GenerateNext` are why it
is assumed; failing operations are not excluded. The invariant `Lockstep` compares what
two ranks will have at the end of their turn, computed from where each of them is
(`RestAt`, `LateAt`, `AsleepAt`): a rank that has chosen agrees with one that has yet to
choose.

The other invariants follow from `ServedInv`, without `OneClock`: `TypeOK`,
`OwnReplyOnce`, `BatchesAdmitted` and `FifoWithinClass` with every fault,
`NothingDropped` if replies can be sent (`"send" \notin Faults`). `ServedInv` says of every
rank that its queue and its batch hold what has arrived, in order and once (`RankOK`), and
of every client that it has been answered exactly if its request is in neither
(`ClientOK`). That a batch is admitted, that its split gives each item its own slice of
the merged output, and that the scan keeps the order within a class are lemmas on the
operators.

**The orchestrator.** All safety properties of `DiffusionServer` that the runs find to hold
are proved, for any number of requests, any deployment and any sizes. The assumptions on
the constants are those of `ConstantsAssumption`: every role has an instance, capacities
and sizes are natural numbers, and a request identifier is not a number (slots allocated
on demand are named for the request, preallocated ones have numbers). What else a
theorem assumes is what the runs leave out, too, and for the same reason:

| Property | Theorem in | Assumes |
|---|---|---|
| `ClientsAccounted`, `OneAnswer`, `TypeOK`, `PreallocSlotsSound` | `DiffusionServerProofs` | nothing: every fault and every expiry |
| `PushGoesToStager` | `DiffusionServerProofs` | no expiry |
| `ReadyDataLanded`, `ImplementsPipeline` | `DiffusionDataProofs` | no failing push |
| `SlotsWithinCapacity` | `DiffusionSlotProofs` | nothing |
| `SlotsConserved`, `NothingLeftBehind` | `DiffusionSlotProofs` | `Lossless`: no expiry, and only denoising and decoding fail |
| `NoIdleCapacity` | `DiffusionSlotProofs` | no expiry |

`Clients` and `Slots` speak of the tables alone. `Flow` is the invariant that ties the
tables to the network: a request is in one place, a message in flight or one entry of one
queue (`OneToken`), and for each kind of message and each queue it says what record,
transfer and staged tensors the request has there (`MsgOK`, `QueueOK`). A message of a
request that has expired may still be on its way, so most clauses hold only of a request
that is tracked (`At`). Each step moves one request (`Concerns`), which reduces the proof
for the others to one lemma (`SameRequest`). The layers above it:

- `Lists` and `SlotsOnce`: a preallocated slot is on its receiver's list or is used by one
  transfer. A registration that is still in flight counts as a list that is empty.
- `Data`: how many roles have computed a request, read off from where it is, and that a
  slot said to be filled holds its tensors. It needs `SlotsOnce`, since otherwise another
  transfer could have written there. The refinement maps a step of an instance to
  `Compute` and every answer to `Succeed` or `Fail`.
- `Held`: for each instance, free slots plus the requests that occupy one
  are at most its capacity, and exactly that if `Lossless`. It is an argument on
  cardinalities: a step changes both by one, or neither.
- `Wanted`: whatever is staged or allocated on an instance belongs to a tracked request
  whose message or place in a queue will have it given back. When no request is left,
  nothing is.
- `NoIdleCapacity` needs that the round robin comes by every instance (`ComesBy`), so that
  a turn can end only when no queue that is not empty has a free slot.

**The plan cache.** `AdalnCacheProofs` proves every property of the run `adaln` for any
plans, slots, pages and schedules, and `AdmittedFits` under the assumption that `embed`
does not raise (`OnlyEmbedStarves`), which finding 4 shows to be needed. `IInv` says
whose a slot is, what slots and pages hold, and that copies under way go to slots
reserved by the request that waits for them or to slots that no plan occupies. It does
not mention the order of eviction, because nothing in it depends on who is evicted.
`HostCounts` adds that a plan's count is the number of groups that hold it, and `Recent`
that the list of plans is in the order of use. `AdmittedFits` is an argument on
cardinalities.

**Workers, calls and jobs.** `VideoJobsProofs` first proves, outcome by outcome, that
every operation keeps a worker `Sound`; then, for any number of replicas, ranks and
calls, that the replies a call has collected still hold as long as it runs alone
(`AnswersHold`). `SucceededEverywhere`, `WeightsKnown` and `ModulesWhole` follow.
`JobsAccounted` follows from `JobsInv`, which says for each place of a job what its
record, its directories and its output can be.

Only model-checked: all liveness, which is out of the prover's reach.

## Not modelled

Tensor computation, numeric caches, RDMA and byte layouts, logging, metrics and
process startup; the language model runtime, which makes up most of the snapshot and
which the recipe does not run. Of the modelled parts:

- disaggregation: the GLM mode, the `max_free_slots` policy, re-registration and
  multi-rank roles; a message of a client that is no request, or whose identifier is
  that of a request still tracked, which `_handle_client_request` drops without a reply;
- scheduler: matching of batching rules, construction of signatures, the LoRA and
  session handlers, the relay of a broadcast over the rank groups, a forward pass that
  fails on some ranks only;
- plan cache: the prebuilt sidecar mode, which never changes after loading, the
  collectives inside a projection, and a device error in the copies of `store_group`
  or in the wait for them, after which the device is of no more use;
- workers: weight snapshots, layerwise offload and the other residency strategies;
- client: the offline broker, `ping`, routing by session;
- HTTP server: the image API, which waits for its result and keeps no task; the mesh
  API, whose task is that of a video job without validation, directories and
  shutdown; downloads; several outputs per job (only the first is uploaded); inputs saved
  to a path that is kept.

Realtime sessions are a bounded dictionary of tensors on each rank. What becomes of a
session that was evicted between two of its blocks is decided inside pipeline stages,
so that a model of the dictionary alone would show nothing.
