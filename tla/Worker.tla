------------------------------- MODULE Worker -------------------------------
(***************************************************************************)
(* What the control operations do to the worker of one rank: weight        *)
(* updates (post_training/weights_updater.py and its callers) and sleep    *)
(* and wake (memory_managers/memory_occupation_controller.py).  A worker   *)
(* is a record; an operation maps it to the set of its outcomes, one for   *)
(* each place where it can raise.  Every rank of a replica runs it for     *)
(* itself and catches what it raises; the scheduler runs one operation at  *)
(* a time, so an outcome is one step of the modules that use this one.     *)
(***************************************************************************)
EXTENDS Naturals, Sequences, FiniteSets, Functions

CONSTANTS
    Components,     \* get_updatable_modules of the pipeline, in its order
    Transformer,    \* the one that is a BaseDiT, with an AdaLN cache
    Paths,          \* model paths
    Start,          \* the one the server was started with
    Files,          \* the components for which a path has weight files
    Native,         \* paths with native adaln_proj tensors
    Sent,           \* weights that came as tensors
    Torn,           \* weights of which only a part was written
    NoPath

Modules == Range(Components)

ASSUME WorkerAssumption ==
    /\ Components \in Seq(Modules) /\ IsInjective(Components) /\ IsFiniteSet(Modules)
    /\ Transformer \in Modules /\ Start \in Native /\ Native \subseteq Paths
    /\ Files \in [Paths -> SUBSET Modules] /\ Files[Start] = Modules
    /\ Paths \cap {Sent, Torn, NoPath} = {} /\ Sent # NoPath

\* A module is on the device, on the CPU, or was left between them by a move
\* that raised; its first tensor then tells where its head is.
Places == {"gpu", "cpu", "headGpu", "headCpu"}

Worker == [
    weights  : [Modules -> Paths \cup {Sent, Torn}],
    dirs     : [Modules -> Paths \cup {NoPath}],    \* _module_weight_dirs
    path     : Paths,                               \* pipeline.model_path
    source   : Paths,                               \* weight_files of the AdaLN cache
    place    : [Modules -> Places],
    restore  : SUBSET Modules,                      \* _sleep_restore_map
    sleeping : BOOLEAN,
    given    : [Modules -> Paths \cup {Sent}],      \* by the last update that succeeded
    suspect  : SUBSET Modules,      \* left without a rollback by a reported error
    moves    : {"whole", "undone", "stranded"}]     \* the worst end of a move so far

Fresh == [weights |-> [m \in Modules |-> Start], dirs |-> [m \in Modules |-> NoPath],
          path |-> Start, source |-> Start, place |-> [m \in Modules |-> "gpu"],
          restore |-> {}, sleeping |-> FALSE, given |-> [m \in Modules |-> Start],
          suspect |-> {}, moves |-> "whole"]

Done(w)    == [state |-> w, ok |-> TRUE, fault |-> FALSE]
Refused(w) == [state |-> w, ok |-> FALSE, fault |-> FALSE]
Raised(w)  == [state |-> w, ok |-> FALSE, fault |-> TRUE]

First(names, n) == Range(SubSeq(names, 1, n))

-----------------------------------------------------------------------------
\* _rollback takes a module's weights from the directory recorded for it, or
\* from the model path; where that has none the module is passed over.
RollbackDir(w, m) == IF w.dirs[m] # NoPath THEN w.dirs[m] ELSE w.path
RolledBack(w, m, now) == IF m \in Files[RollbackDir(w, m)] THEN RollbackDir(w, m) ELSE now

\* _apply_weights when loading names[n] raises: it is rolled back with those
\* before it.
ApplyFailsKeepingLast(w, new, names, n) ==
    [w EXCEPT !.weights = [m \in Modules |->
        IF m \in First(names, n - 1) THEN RolledBack(w, m, new)
        ELSE IF m = names[n] THEN Torn ELSE w.weights[m]]]
ApplyFails(w, new, names, n) ==
    [w EXCEPT !.weights = [m \in Modules |->
        IF m \in First(names, n - 1) THEN RolledBack(w, m, new)
        ELSE IF m = names[n] THEN RolledBack(w, m, Torn) ELSE w.weights[m]]]

\* ... and when the rollback raises in its turn, at names[k].
RollbackFails(w, new, names, n, k) ==
    [w EXCEPT !.weights = [m \in Modules |->
                  IF m \in First(names, k - 1) THEN RolledBack(w, m, new)
                  ELSE IF m \in {names[k], names[n]} THEN Torn
                  ELSE IF m \in First(names, n - 1) THEN new ELSE w.weights[m]],
              !.suspect = @ \cup First(names, n)]

\* update_weights_from_disk, of the updater and of the worker: the worker sets
\* the model path whether all modules were updated or only some.
Changed(f, names, new) == [m \in Modules |-> IF m \in Range(names) THEN new ELSE f[m]]
DiskUpdated(w, new, names) ==
    [w EXCEPT !.weights = Changed(@, names, new), !.dirs = Changed(@, names, new),
              !.path = new,
              !.source = IF Transformer \in Range(names) THEN new ELSE @,
              !.given = Changed(@, names, new), !.suspect = @ \ Range(names)]

\* ... when refreshing what is derived from the transformer's weights raises: the
\* weights stay, the path is set by the updater only if all modules were asked for.
RefreshFails(w, new, names, source) ==
    [w EXCEPT !.weights = Changed(@, names, new), !.dirs = Changed(@, names, new),
              !.path = IF Range(names) = Modules THEN new ELSE @,
              !.source = source, !.suspect = @ \cup Range(names)]
UpdateFromDisk(w, new, names) ==
    IF \/ w.sleeping \/ names = <<>> \/ ~(Range(names) \subseteq Files[new])
       \/ Transformer \in Range(names) /\ new \notin Native
    THEN {Refused(w)}
    ELSE {Done(DiskUpdated(w, new, names)), Raised(w)}      \* Raised(w): no download
         \cup {Raised(ApplyFails(w, new, names, n)) : n \in 1..Len(names)}
         \cup (UNION {{Raised(RollbackFails(w, new, names, n, k)) : k \in 1..n} :
                      n \in 1..Len(names)})
         \cup (IF Transformer \in Range(names)
               THEN {Raised(RefreshFails(w, new, names, s)) : s \in {w.source, new}} ELSE {})

\* update_weights_from_tensor: nothing is rolled back, nothing is recorded, and
\* a transformer whose AdaLN outputs need a checkpoint is refused.
UpdateFromTensor(w, names) ==
    IF Transformer \in Range(names)
    THEN {Refused(w)}
    ELSE {Done([w EXCEPT !.weights = Changed(@, names, Sent), !.given = Changed(@, names, Sent),
                         !.suspect = @ \ Range(names)])}
         \cup {Raised([w EXCEPT !.weights = [m \in Modules |->
                                   IF m \in First(names, n - 1) THEN Sent
                                   ELSE IF m = names[n] THEN Torn ELSE @[m]],
                                !.suspect = @ \cup First(names, n)]) : n \in 1..Len(names)}

-----------------------------------------------------------------------------
\* _get_module_device looks at the first tensor only.
Device(w, m)  == IF w.place[m] \in {"gpu", "headGpu"} THEN "gpu" ELSE "cpu"
Halfway(to)   == IF to = "gpu" THEN "headGpu" ELSE "headCpu"

\* _move_modules, which takes modules in the order of the pipeline.
Moved(w, names, to) ==
    [m \in Modules |-> IF m \in names THEN to ELSE w.place[m]]
InOrder(names) ==
    {s \in [1..Cardinality(names) -> names] :
        \A i, j \in DOMAIN s : i < j =>
            \E k, l \in DOMAIN Components :
                k < l /\ Components[k] = s[i] /\ Components[l] = s[j]}

\* ... when it raises at the module order[at].  Those that have moved, order[at]
\* among them if its own tensors had, go back to where they were, all of them or
\* up to one whose move back raises.
Attempts(names) ==
    {a \in [order : InOrder(names), at : 1..Cardinality(names),
            moved : 0..Cardinality(names), back : 0..Cardinality(names), half : BOOLEAN] :
        a.moved \in {a.at - 1, a.at} /\ a.back <= a.moved}
Unmoved(w, to, a) ==
    [w EXCEPT
        !.place = [m \in Modules |->
            IF m \in First(a.order, a.back) THEN Device(w, m)
            ELSE IF m \in First(a.order, a.moved)
            THEN IF m = a.order[a.back + 1] THEN Halfway(Device(w, m)) ELSE to
            ELSE IF m = a.order[a.at] /\ a.half THEN Halfway(to) ELSE w.place[m]],
        !.moves = IF a.back < a.moved \/ @ = "stranded" THEN "stranded" ELSE "undone"]
MoveFails(w, names, to) == {Raised(Unmoved(w, to, a)) : a \in Attempts(names)}

\* release_memory_occupation: it may also raise with everything moved, in
\* _clear_torch_device_cache.
Release(w) ==
    LET active == {m \in Modules : Device(w, m) = "gpu"}
    IN IF w.sleeping THEN {Done(w)}
       ELSE {Done([w EXCEPT !.place = Moved(w, active, "cpu"),
                            !.restore = active, !.sleeping = TRUE])}
            \cup {Raised([w EXCEPT !.place = Moved(w, active, "cpu")])}
            \cup MoveFails(w, active, "cpu")

\* resume_memory_occupation
ResumeForgetful(w) ==
    IF ~w.sleeping THEN {Done(w)}
    ELSE {Done([w EXCEPT !.place = Moved(w, w.restore, "gpu"),
                         !.restore = {}, !.sleeping = FALSE])}
         \cup {Raised([o.state EXCEPT !.sleeping = FALSE]) :
                  o \in MoveFails(w, w.restore, "gpu")}
Resume(w) ==
    IF ~w.sleeping THEN {Done(w)}
    ELSE {Done([w EXCEPT !.place = Moved(w, w.restore, "gpu"),
                         !.restore = {}, !.sleeping = FALSE])}
         \cup MoveFails(w, w.restore, "gpu")

-----------------------------------------------------------------------------
\* A generation: refused while the worker sleeps.  ResidentStrategy moves a
\* module whose head is not on the device; one whose head is there is used as
\* it is, and fails if the rest of it is not.
Used(w) == IF w.sleeping THEN w ELSE [w EXCEPT !.place = [m \in Modules |->
               IF Device(w, m) = "cpu" THEN "gpu" ELSE w.place[m]]]
DropsOut(w) == w.sleeping \/ \E m \in Modules : w.place[m] = "headGpu"

Outcomes(w, op) ==
    CASE op.kind = "disk"   -> UpdateFromDisk(w, op.path, op.names)
      [] op.kind = "tensor" -> UpdateFromTensor(w, op.names)
      [] op.kind = "sleep"  -> Release(w)
      [] op.kind = "wake"   -> Resume(w)

\* What an operation that has succeeded leaves behind.
Took(w, op) ==
    CASE op.kind = "disk"   -> /\ \A m \in Range(op.names) : w.weights[m] = op.path
                               /\ Transformer \in Range(op.names) => w.source = op.path
      [] op.kind = "tensor" -> \A m \in Range(op.names) : w.weights[m] = Sent
      [] op.kind = "sleep"  -> w.sleeping
      [] op.kind = "wake"   -> ~w.sleeping
=============================================================================
