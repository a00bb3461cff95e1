--------------------------- MODULE SchedulerClient ---------------------------
(***************************************************************************)
(* AsyncSchedulerClient (scheduler_client.py) in front of the data         *)
(* parallel replicas.  A control call goes to one replica after the other  *)
(* and its replies are merged; a generation goes to one replica.  Calls    *)
(* run concurrently in the event loop of the HTTP server, each with a      *)
(* socket of its own, and a replica runs what reaches it one at a time, on *)
(* all its ranks, of which rank 0 answers.  A call that times out gives up *)
(* its socket, but what it has sent may still be run.                      *)
(***************************************************************************)
EXTENDS Worker

CONSTANTS
    N,              \* dp_size
    Ranks,          \* of a replica, with rank 0
    RpcTimeout,     \* whether scheduler_rpc_timeout is set; it is not by default
    Calls,          \* control calls that can be under way at a time
    Operations      \* what they may ask for

Replicas == 1..N

ASSUME ClientAssumption ==
    /\ N \in Nat \ {0} /\ 0 \in Ranks /\ IsFiniteSet(Ranks) /\ RpcTimeout \in BOOLEAN
    /\ \A op \in Operations :
         \/ op.kind \in {"sleep", "wake"}
         \/ op.kind = "tensor" /\ op.names \in Seq(Modules)
         \/ op.kind = "disk" /\ op.names \in Seq(Modules) /\ op.path \in Paths

VARIABLES
    worker,         \* the workers of each replica, one for every rank
    hung,           \* replicas with a rank that waits for ever for the others
    call,           \* the control calls
    late,           \* what calls that have timed out left in a replica's queue
    faults,         \* how many more times something may raise or time out
    calls           \* how many more control calls there may be

client == <<call, late, calls>>

\* A call: what it asks, which replica has it, whether all replies so far were
\* without error, which other ranks had one, and whether nothing else has changed
\* a worker since it began.
Unused == [op |-> [kind |-> "none"], at |-> 0, state |-> "unused", ok |-> TRUE,
           unheard |-> {}, alone |-> TRUE]

ClientInit ==
    /\ worker = [r \in Replicas |-> [k \in Ranks |-> Fresh]] /\ hung = {}
    /\ call = [c \in Calls |-> Unused] /\ late = {}

\* Every rank of a replica runs an operation; each that raises uses up a fault.
Spent(f) == f <= faults /\ faults' = faults - f
Results(r, op) ==
    LET can == [k \in Ranks |-> {o \in Outcomes(worker[r][k], op) : o.fault => faults > 0}]
    IN {o \in [Ranks -> UNION {can[k] : k \in Ranks}] : \A k \in Ranks : o[k] \in can[k]}
Runs(r, o) ==
    /\ r \notin hung /\ Spent(Cardinality({k \in Ranks : o[k].fault}))
    /\ worker' = [worker EXCEPT ![r] = [k \in Ranks |-> o[k].state]]
    /\ UNCHANGED hung

\* A generation at a replica, which may fail on all ranks.  If only some of them
\* drop out, they answer, or wait for the next request, and the others wait for
\* them in a collective: the replica runs nothing more.
Generates(r) ==
    LET out == {k \in Ranks : DropsOut(worker[r][k])}
    IN IF out = {} THEN {[ok |-> TRUE, fault |-> FALSE, hangs |-> FALSE, answers |-> TRUE],
                         [ok |-> FALSE, fault |-> TRUE, hangs |-> FALSE, answers |-> TRUE]}
       ELSE {[ok |-> FALSE, fault |-> FALSE, hangs |-> out # Ranks, answers |-> 0 \in out]}
Generation(r, o) ==
    /\ r \notin hung /\ o \in Generates(r) /\ Spent(IF o.fault THEN 1 ELSE 0)
    /\ worker' = [worker EXCEPT ![r] = [k \in Ranks |-> Used(@[k])]]
    /\ hung' = IF o.hangs THEN hung \cup {r} ELSE hung

\* Something else is about to change workers: what calls that are over have said
\* holds no more, and calls that are not over no longer run alone.
Busy    == {c \in Calls : call[c].state = "sent"}
Crossed == [c \in Calls |-> IF c \in Busy THEN [call[c] EXCEPT !.alone = FALSE] ELSE Unused]

\* forward, for a control request: the first replica is sent the request.
Idle == CHOOSE c \in Calls : c \notin Busy
Forward(c, op) ==
    /\ c \notin Busy /\ calls > 0 /\ calls' = calls - 1
    /\ call' = [Crossed EXCEPT ![c] = [op |-> op, at |-> 1, state |-> "sent",
                                       ok |-> TRUE, unheard |-> {}, alone |-> Busy = {}]]
    /\ UNCHANGED <<worker, hung, late, faults>>

\* _merge_fanout_results
MergedFirst(ok, at, reply) == IF at = 1 THEN reply ELSE ok
Merged(ok, at, reply) == ok /\ reply

\* The replica runs the operation and rank 0 answers for itself; the call goes on
\* to the next replica, whatever the answer.
Reply(c) ==
    LET k == call[c]
    IN /\ k.state = "sent"
       /\ \E o \in Results(k.at, k.op) :
            /\ Runs(k.at, o)
            /\ call' = [call EXCEPT ![c] = [k EXCEPT
                   !.ok = Merged(k.ok, k.at, o[0].ok),
                   !.unheard = @ \cup ({k.at} \X {i \in Ranks \ {0} : ~o[i].ok}),
                   !.at = IF k.at < N THEN k.at + 1 ELSE k.at,
                   !.state = IF k.at < N THEN "sent" ELSE "done"]]
       /\ UNCHANGED <<late, calls>>

\* No answer in time, by a slow replica or one that hangs: TimeoutError ends the
\* fan-out where it is.
TimesOut(r) == RpcTimeout /\ Spent(IF r \in hung THEN 0 ELSE 1)
Timeout(c) ==
    /\ call[c].state = "sent" /\ TimesOut(call[c].at)
    /\ call' = [call EXCEPT ![c] = Unused]
    /\ late' \in {late, late \cup {[op |-> call[c].op, at |-> call[c].at]}}
    /\ UNCHANGED <<worker, hung, calls>>

RunsLate ==
    /\ \E l \in late : /\ \E o \in Results(l.at, l.op) : Runs(l.at, o)
                       /\ late' = late \ {l}
    /\ call' = Crossed /\ UNCHANGED calls

ClientNext ==
    \/ Busy # Calls /\ \E op \in Operations : Forward(Idle, op)
    \/ \E c \in Calls : Reply(c) \/ Timeout(c)
    \/ RunsLate

-----------------------------------------------------------------------------
\* "'succeeded' must mean succeeded everywhere" (_merge_fanout_results): when a
\* call says so, and no other call or late request has run since it began, rank 0
\* of every replica has what it asked for, however long ago it answered.  So have
\* the other ranks, but for those whose own error nobody has heard of: a rank
\* other than 0 has no reply (scheduler_post_training_mixin.py).
SucceededEverywhere ==
    \A c \in Calls : call[c].state = "done" /\ call[c].ok /\ call[c].alone =>
        \A r \in Replicas, k \in Ranks :
            k = 0 \/ <<r, k>> \notin call[c].unheard => Took(worker[r][k], call[c].op)

\* Which weights a module has, after whatever updates have failed in between.  One
\* with a directory of its own has the weights of that directory, if these were
\* the last it was given, and the transformer's AdaLN outputs are derived from
\* them; the same holds of the weights the server was started with until the
\* first update from disk.  Not so after an error that the reply reports and that
\* leaves the update where it is: in a rollback, in the refresh of what is derived
\* from the weights, or among tensors.
Restorable(w, m) ==
    \/ w.dirs[m] = w.given[m]
    \/ w.given[m] = Start /\ \A n \in Modules : w.dirs[n] = NoPath
WeightsKnown ==
    \A r \in Replicas, k \in Ranks : \A m \in Modules \ worker[r][k].suspect :
        LET w == worker[r][k]
        IN Restorable(w, m) => w.weights[m] = w.given[m] /\ (m = Transformer => w.source = w.given[m])

\* "If any module fails ... every module that was already updated is rolled back by
\* reloading its weights from that module's last successfully-loaded weights
\* directory" (weights_updater.py): after an update from disk that failed to load
\* and was rolled back without an error, every module has the weights that the
\* last update which succeeded gave it.
FailedUpdateRestores ==
    \A r \in Replicas, k \in Ranks : \A m \in Modules \ worker[r][k].suspect :
        worker[r][k].weights[m] = worker[r][k].given[m]

\* _move_modules: "all-or-nothing".  A worker that says it is asleep has nothing
\* on the device, unless a move has failed before; and after failures, as long
\* as their rollbacks went through, no module of a worker that is awake is in a
\* state from which its next use does not bring it whole to the device.
ModulesWhole ==
    \A r \in Replicas, k \in Ranks :
        LET w == worker[r][k]
        IN /\ w.sleeping /\ w.moves = "whole" => \A m \in Modules : w.place[m] = "cpu"
           /\ ~w.sleeping /\ w.moves # "stranded" => \A m \in Modules : w.place[m] # "headGpu"
=============================================================================
