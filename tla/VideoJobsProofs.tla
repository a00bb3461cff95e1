-------------------------- MODULE VideoJobsProofs --------------------------
(***************************************************************************)
(* Proofs about workers and control calls, for any number of replicas,     *)
(* components, model paths, calls and jobs.  What every operation keeps of *)
(* one worker is proved first, outcome by outcome; the client then needs   *)
(* who may change a worker while a call is under way.                      *)
(***************************************************************************)
EXTENDS VideoJobs, FiniteSetTheorems, TLAPS

\* Weights, and what is known of where they come from: until the first update from
\* disk the model path is the one the server was started with.
WeightsOK(w) ==
    /\ \A m \in Modules : w.dirs[m] # NoPath => m \in Files[w.dirs[m]]
    /\ (\A m \in Modules : w.dirs[m] = NoPath) => w.path = Start
    /\ \A m \in Modules \ w.suspect : Restorable(w, m) =>
         /\ w.weights[m] = w.given[m]
         /\ m = Transformer => w.source = w.given[m]

\* Where modules are.  The cases in which no move has failed, or failed moves have
\* been undone, lead to each other by sleep and wake.
PlacesOK(w) ==
    /\ ~w.sleeping /\ w.moves = "whole" => \A m \in Modules : w.place[m] \in {"gpu", "cpu"}
    /\ ~w.sleeping /\ w.moves # "stranded" => \A m \in Modules : w.place[m] # "headGpu"
    /\ w.sleeping /\ w.moves = "whole" => \A m \in Modules : w.place[m] = "cpu"
    /\ w.sleeping /\ w.moves # "stranded" =>
         \A m \in Modules : w.place[m] = "headGpu" => m \in w.restore

Sound(w) == w \in Worker /\ WeightsOK(w) /\ PlacesOK(w)

\* What an operation must do: a sound worker stays sound, and an operation that
\* says it succeeded has done what it was asked for.
Keeps(o, op) == Sound(o.state) /\ o.ok \in BOOLEAN /\ (o.ok => Took(o.state, op))

-----------------------------------------------------------------------------
\* The first n of a list of modules.
LEMMA FirstIs ==
  ASSUME NEW S, NEW names \in Seq(S), NEW n \in 0..Len(names)
  PROVE  First(names, n) = {names[i] : i \in 1..n} /\ First(names, n) \subseteq S
<1>1. SubSeq(names, 1, n) = [i \in 1..n |-> names[i]]
  OBVIOUS
<1>2. Range(SubSeq(names, 1, n)) = {names[i] : i \in 1..n}
  BY <1>1 DEF Range
<1>3. \A i \in 1..n : names[i] \in S
  OBVIOUS
<1> QED
  BY <1>2, <1>3 DEF First

\* A worker as it starts is sound.
LEMMA FreshSound == Sound(Fresh)
<1>1. Fresh \in Worker
  BY WorkerAssumption DEF Fresh, Worker, Places
<1>2. WeightsOK(Fresh)
  BY WorkerAssumption DEF Fresh, WeightsOK, Restorable
<1>3. PlacesOK(Fresh)
  BY DEF Fresh, PlacesOK
<1> QED
  BY <1>1, <1>2, <1>3 DEF Sound

\* Where modules are does not change: what remains to be shown is about weights.
LEMMA WeightsChange ==
  ASSUME NEW w, Sound(w), NEW v \in Worker, WeightsOK(v), v.place = w.place,
         v.restore = w.restore, v.sleeping = w.sleeping, v.moves = w.moves
  PROVE  Sound(v)
<1>1. PlacesOK(w)
  BY DEF Sound
<1>2. PlacesOK(v)
  BY <1>1 DEF PlacesOK
<1> QED
  BY <1>2 DEF Sound

\* What update_weights_from_disk leaves when it succeeds is sound, and is what
\* was asked for.
LEMMA DiskUpdatedKeeps ==
  ASSUME NEW w, Sound(w), NEW new \in Paths, NEW names \in Seq(Modules), names # <<>>,
         Range(names) \subseteq Files[new]
  PROVE  LET v == DiskUpdated(w, new, names)
         IN /\ Sound(v)
            /\ \A m \in Range(names) : v.weights[m] = new
            /\ Transformer \in Range(names) => v.source = new
<1> DEFINE v == DiskUpdated(w, new, names)
           named == Range(names)
<1>0. w \in Worker /\ WeightsOK(w)
  BY DEF Sound
<1>1. v = [w EXCEPT !.weights = [m \in Modules |-> IF m \in named THEN new ELSE w.weights[m]],
                    !.dirs = [m \in Modules |-> IF m \in named THEN new ELSE w.dirs[m]],
                    !.path = new,
                    !.source = IF Transformer \in named THEN new ELSE w.source,
                    !.given = [m \in Modules |-> IF m \in named THEN new ELSE w.given[m]],
                    !.suspect = w.suspect \ named]
  BY <1>0 DEF DiskUpdated, Changed, Worker
<1>4. named \subseteq Files[new] /\ named \subseteq Modules /\ new # NoPath /\ names[1] \in named
  BY WorkerAssumption DEF Range
<1> HIDE DEF v, named
<1>2. v \in Worker
  BY <1>0, <1>1 DEF Worker
<1>3. /\ v.weights = [m \in Modules |-> IF m \in named THEN new ELSE w.weights[m]]
      /\ v.dirs = [m \in Modules |-> IF m \in named THEN new ELSE w.dirs[m]]
      /\ v.source = IF Transformer \in named THEN new ELSE w.source
      /\ v.given = [m \in Modules |-> IF m \in named THEN new ELSE w.given[m]]
      /\ v.suspect = w.suspect \ named
      /\ v.place = w.place /\ v.restore = w.restore
      /\ v.sleeping = w.sleeping /\ v.moves = w.moves
  BY <1>0, <1>1 DEF Worker
<1>5. WeightsOK(v)
  BY <1>0, <1>3, <1>4, WorkerAssumption DEF WeightsOK, Restorable
<1>6. Sound(v)
  BY <1>2, <1>3, <1>5, WeightsChange
<1> QED
  BY <1>3, <1>4, <1>6 DEF v, named

\* An update whose weights are in place, but not what is derived from them.
LEMMA RefreshFailsKeeps ==
  ASSUME NEW w, Sound(w), NEW new \in Paths, NEW names \in Seq(Modules), names # <<>>,
         Range(names) \subseteq Files[new], Transformer \in Range(names),
         NEW source \in {w.source, new}
  PROVE  Sound(RefreshFails(w, new, names, source))
<1> DEFINE v == RefreshFails(w, new, names, source)
           named == Range(names)
<1>0. w \in Worker /\ WeightsOK(w)
  BY DEF Sound
<1>1. v = [w EXCEPT !.weights = [m \in Modules |-> IF m \in named THEN new ELSE w.weights[m]],
                    !.dirs = [m \in Modules |-> IF m \in named THEN new ELSE w.dirs[m]],
                    !.path = IF named = Modules THEN new ELSE w.path,
                    !.source = source, !.suspect = w.suspect \cup named]
  BY <1>0 DEF RefreshFails, Changed, Worker
<1>2. named \subseteq Files[new] /\ named \subseteq Modules /\ new # NoPath /\ Transformer \in named
  BY WorkerAssumption DEF Range
<1> HIDE DEF v, named
<1>3. v \in Worker
  BY <1>0, <1>1, <1>2 DEF Worker
<1>4. /\ v.weights = [m \in Modules |-> IF m \in named THEN new ELSE w.weights[m]]
      /\ v.dirs = [m \in Modules |-> IF m \in named THEN new ELSE w.dirs[m]]
      /\ v.given = w.given /\ v.suspect = w.suspect \cup named
      /\ v.place = w.place /\ v.restore = w.restore
      /\ v.sleeping = w.sleeping /\ v.moves = w.moves
  BY <1>0, <1>1 DEF Worker
<1>5. WeightsOK(v)
  BY <1>0, <1>2, <1>4, WorkerAssumption DEF WeightsOK, Restorable
<1>6. Sound(v)
  BY <1>3, <1>4, <1>5, WeightsChange
<1> QED
  BY <1>6 DEF v

\* Only weights change, and more modules may become suspect: those that are not
\* have the weights they were last given, if these can be restored.
LEMMA OnlyWeights ==
  ASSUME NEW w, Sound(w), NEW f \in [Modules -> Paths \cup {Sent, Torn}],
         NEW S \in SUBSET Modules, w.suspect \subseteq S,
         \A m \in Modules \ S : Restorable(w, m) => f[m] = w.given[m]
  PROVE  Sound([w EXCEPT !.weights = f, !.suspect = S])
<1> DEFINE v == [w EXCEPT !.weights = f, !.suspect = S]
<1>0. w \in Worker /\ WeightsOK(w)
  BY DEF Sound
<1>1. v \in Worker
  BY <1>0 DEF Worker
<1>2. /\ v.weights = f /\ v.suspect = S /\ v.dirs = w.dirs /\ v.source = w.source
      /\ v.path = w.path /\ v.given = w.given
      /\ v.place = w.place /\ v.restore = w.restore
      /\ v.sleeping = w.sleeping /\ v.moves = w.moves
  BY <1>0 DEF Worker
<1> HIDE DEF v
<1>3. WeightsOK(v)
  BY <1>0, <1>2 DEF WeightsOK, Restorable
<1>4. Sound(v)
  BY <1>1, <1>2, <1>3, WeightsChange
<1> QED
  BY <1>4 DEF v

\* Rolling a module back gives weights of some path or leaves what is there, and
\* gives those it was last given if they can be restored.
LEMMA RollbackTypes ==
  ASSUME NEW w, Sound(w), NEW m \in Modules, NEW now \in Paths \cup {Sent, Torn}
  PROVE  /\ RolledBack(w, m, now) \in Paths \cup {Sent, Torn}
         /\ Restorable(w, m) => RolledBack(w, m, now) = w.given[m]
<1>0. w \in Worker /\ WeightsOK(w)
  BY DEF Sound
<1>1. w.dirs[m] \in Paths \cup {NoPath} /\ w.path \in Paths
  BY <1>0 DEF Worker
<1>2. RollbackDir(w, m) \in Paths
  BY <1>1 DEF RollbackDir
<1>3. CASE w.dirs[m] = w.given[m]
  <2>1. w.given[m] # NoPath
    BY <1>0, WorkerAssumption DEF Worker
  <2> QED
    BY <1>0, <1>1, <1>2, <1>3, <2>1 DEF WeightsOK, RolledBack, RollbackDir
<1>4. CASE w.given[m] = Start /\ \A n \in Modules : w.dirs[n] = NoPath
  BY <1>0, <1>2, <1>4, WorkerAssumption DEF WeightsOK, RolledBack, RollbackDir
<1> QED
  BY <1>2, <1>3, <1>4 DEF RolledBack, Restorable

\* A failed update whose rollback goes through.
LEMMA ApplyFailsKeeps ==
  ASSUME NEW w, Sound(w), NEW new \in Paths, NEW names \in Seq(Modules),
         NEW n \in 1..Len(names)
  PROVE  Sound(ApplyFails(w, new, names, n))
<1> DEFINE f == [m \in Modules |->
                   IF m \in First(names, n - 1) THEN RolledBack(w, m, new)
                   ELSE IF m = names[n] THEN RolledBack(w, m, Torn) ELSE w.weights[m]]
<1>0. w \in Worker /\ WeightsOK(w)
  BY DEF Sound
<1>1. f \in [Modules -> Paths \cup {Sent, Torn}]
  BY <1>0, RollbackTypes DEF Worker
<1>2. \A m \in Modules \ w.suspect : Restorable(w, m) => f[m] = w.given[m]
  <2> SUFFICES ASSUME NEW m \in Modules \ w.suspect, Restorable(w, m)
               PROVE  f[m] = w.given[m]
    OBVIOUS
  <2>1. w.weights[m] = w.given[m]
    BY <1>0 DEF WeightsOK
  <2>2. RolledBack(w, m, new) = w.given[m] /\ RolledBack(w, m, Torn) = w.given[m]
    BY RollbackTypes
  <2> QED
    BY <2>1, <2>2
<1>3. ApplyFails(w, new, names, n) = [w EXCEPT !.weights = f, !.suspect = w.suspect]
  BY <1>0 DEF ApplyFails, Worker
<1>4. w.suspect \in SUBSET Modules
  BY <1>0 DEF Worker
<1> HIDE DEF f
<1>5. Sound([w EXCEPT !.weights = f, !.suspect = w.suspect])
  BY <1>1, <1>2, <1>4, OnlyWeights
<1> QED
  BY <1>3, <1>5

\* A failed update whose rollback raises: the modules it touched are suspect.
LEMMA RollbackFailsKeeps ==
  ASSUME NEW w, Sound(w), NEW new \in Paths, NEW names \in Seq(Modules),
         NEW n \in 1..Len(names), NEW k \in 1..n
  PROVE  Sound(RollbackFails(w, new, names, n, k))
<1> DEFINE f == [m \in Modules |->
                  IF m \in First(names, k - 1) THEN RolledBack(w, m, new)
                  ELSE IF m \in {names[k], names[n]} THEN Torn
                  ELSE IF m \in First(names, n - 1) THEN new ELSE w.weights[m]]
           S == w.suspect \cup First(names, n)
<1>0. w \in Worker /\ WeightsOK(w)
  BY DEF Sound
<1>1. /\ First(names, n) \subseteq Modules /\ First(names, n - 1) \subseteq First(names, n)
      /\ First(names, k - 1) \subseteq First(names, n) /\ {names[k], names[n]} \subseteq First(names, n)
  <2>1. /\ n - 1 \in 0..Len(names) /\ n \in 0..Len(names) /\ k - 1 \in 0..Len(names)
        /\ 1..(n - 1) \subseteq 1..n /\ 1..(k - 1) \subseteq 1..n /\ n \in 1..n
    OBVIOUS
  <2>2. /\ First(names, n - 1) = {names[i] : i \in 1..(n - 1)}
        /\ First(names, k - 1) = {names[i] : i \in 1..(k - 1)}
    BY <2>1, FirstIs
  <2>3. First(names, n) = {names[i] : i \in 1..n} /\ First(names, n) \subseteq Modules
    BY <2>1, FirstIs
  <2> QED
    BY <2>1, <2>2, <2>3
<1>2. f \in [Modules -> Paths \cup {Sent, Torn}]
  BY <1>0, RollbackTypes DEF Worker
<1>3. S \in SUBSET Modules
  BY <1>0, <1>1 DEF Worker
<1>4. ASSUME NEW m \in Modules \ S, Restorable(w, m)
      PROVE  f[m] = w.given[m]
  <2>1. f[m] = w.weights[m]
    BY <1>1, <1>4
  <2> QED
    BY <2>1, <1>0, <1>4 DEF WeightsOK
<1>5. RollbackFails(w, new, names, n, k) = [w EXCEPT !.weights = f, !.suspect = S]
  BY <1>0 DEF RollbackFails, Worker
<1>6. w.suspect \subseteq S
  OBVIOUS
<1> HIDE DEF f, S
<1>7. Sound([w EXCEPT !.weights = f, !.suspect = S])
  BY <1>2, <1>3, <1>4, <1>6, OnlyWeights
<1> QED
  BY <1>5, <1>7

\* Every outcome of update_weights_from_disk.
LEMMA DiskKeeps ==
  ASSUME NEW w, Sound(w), NEW op, op.kind = "disk", op.names \in Seq(Modules), op.path \in Paths,
         NEW o \in UpdateFromDisk(w, op.path, op.names)
  PROVE  Keeps(o, op)
<1> DEFINE new == op.path
           names == op.names
           none == \/ w.sleeping \/ names = <<>> \/ ~(Range(names) \subseteq Files[new])
                   \/ Transformer \in Range(names) /\ new \notin Native
<1>0. CASE o = Raised(w)
  BY <1>0 DEF Raised, Keeps
<1>1. CASE o = Refused(w)
  BY <1>1 DEF Refused, Keeps
<1>2. CASE /\ o = Done(DiskUpdated(w, new, names)) /\ Range(names) \subseteq Files[new]
           /\ names # <<>>
  BY <1>2, DiskUpdatedKeeps DEF Done, Keeps, Took
<1>3. CASE \E n \in 1..Len(names) : o = Raised(ApplyFails(w, new, names, n))
  BY <1>3, ApplyFailsKeeps DEF Raised, Keeps
<1>4. CASE \E n \in 1..Len(names) : \E k \in 1..n : o = Raised(RollbackFails(w, new, names, n, k))
  BY <1>4, RollbackFailsKeeps DEF Raised, Keeps
<1>5. CASE /\ \E s \in {w.source, new} : o = Raised(RefreshFails(w, new, names, s))
           /\ Range(names) \subseteq Files[new] /\ names # <<>> /\ Transformer \in Range(names)
  BY <1>5, RefreshFailsKeeps DEF Raised, Keeps
<1>6. CASE none
  BY <1>1, <1>6 DEF UpdateFromDisk
<1>7. CASE ~none
  <2> DEFINE A == {Raised(ApplyFails(w, new, names, n)) : n \in 1..Len(names)}
             B == UNION {{Raised(RollbackFails(w, new, names, n, k)) : k \in 1..n} :
                         n \in 1..Len(names)}
             R == {Raised(RefreshFails(w, new, names, s)) : s \in {w.source, new}}
  <2>1. o \in {Done(DiskUpdated(w, new, names)), Raised(w)} \cup A \cup B
                 \cup (IF Transformer \in Range(names) THEN R ELSE {})
    BY <1>7, Zenon DEF UpdateFromDisk
  <2>2. Range(names) \subseteq Files[new] /\ names # <<>>
    BY <1>7
  <2> HIDE DEF none, names, new
  <2>3. CASE o \in A
    BY <1>3, <2>3
  <2>4. CASE o \in B
    BY <1>4, <2>4
  <2>5. CASE Transformer \in Range(names) /\ o \in R
    BY <1>5, <2>2, <2>5
  <2> HIDE DEF A, B, R
  <2> QED
    BY <1>0, <1>2, <2>1, <2>2, <2>3, <2>4, <2>5
<1> QED
  BY <1>6, <1>7

\* Every outcome of update_weights_from_tensor.
LEMMA TensorKeeps ==
  ASSUME NEW w, Sound(w), NEW op, op.kind = "tensor", op.names \in Seq(Modules),
         NEW o \in UpdateFromTensor(w, op.names)
  PROVE  Keeps(o, op)
<1> DEFINE names == op.names
           all == [m \in Modules |-> IF m \in Range(names) THEN Sent ELSE w.weights[m]]
           g == [m \in Modules |-> IF m \in Range(names) THEN Sent ELSE w.given[m]]
           v == [w EXCEPT !.weights = all, !.given = g, !.suspect = w.suspect \ Range(names)]
           some(n) == [m \in Modules |-> IF m \in First(names, n - 1) THEN Sent
                                         ELSE IF m = names[n] THEN Torn ELSE w.weights[m]]
<1>0. w \in Worker /\ WeightsOK(w)
  BY DEF Sound
<1>1. CASE o = Refused(w)
  BY <1>1 DEF Refused, Keeps
<1>2. CASE o = Done(v) /\ Transformer \notin Range(names)
  <2>1. /\ all \in [Modules -> Paths \cup {Sent, Torn}] /\ g \in [Modules -> Paths \cup {Sent}]
        /\ w.suspect \ Range(names) \in SUBSET Modules
    BY <1>0 DEF Worker
  <2>2. \A m \in Range(names) : m \in Modules /\ all[m] = Sent
    BY DEF Range
  <2>3. \A m \in Modules : IF m \in Range(names) THEN all[m] = Sent /\ g[m] = Sent
                                                 ELSE all[m] = w.weights[m] /\ g[m] = w.given[m]
    OBVIOUS
  <2> HIDE DEF all, g
  <2>4. /\ v \in Worker /\ v.weights = all /\ v.given = g /\ v.suspect = w.suspect \ Range(names)
        /\ v.dirs = w.dirs /\ v.path = w.path /\ v.source = w.source
        /\ v.place = w.place /\ v.restore = w.restore
        /\ v.sleeping = w.sleeping /\ v.moves = w.moves
    BY <1>0, <2>1 DEF Worker
  <2>5. o.ok = TRUE /\ o.state = v
    BY <1>2 DEF Done
  <2> HIDE DEF v
  <2>6. WeightsOK(v)
    BY <1>0, <1>2, <2>3, <2>4 DEF WeightsOK, Restorable
  <2>7. Sound(v)
    BY <2>4, <2>6, WeightsChange
  <2>8. Took(v, op)
    BY <2>2, <2>4 DEF Took
  <2> QED
    BY <2>5, <2>7, <2>8 DEF Keeps
<1>3. ASSUME NEW n \in 1..Len(names),
             o = Raised([w EXCEPT !.weights = some(n), !.suspect = w.suspect \cup First(names, n)])
      PROVE  Keeps(o, op)
  <2> DEFINE f == some(n)
             S == w.suspect \cup First(names, n)
  <2>1. /\ First(names, n) \subseteq Modules /\ First(names, n - 1) \subseteq First(names, n)
        /\ names[n] \in First(names, n)
    <3>1. n - 1 \in 0..Len(names) /\ n \in 0..Len(names) /\ 1..(n - 1) \subseteq 1..n /\ n \in 1..n
      OBVIOUS
    <3>2. First(names, n - 1) = {names[i] : i \in 1..(n - 1)}
      BY <3>1, FirstIs
    <3>3. First(names, n) = {names[i] : i \in 1..n} /\ First(names, n) \subseteq Modules
      BY <3>1, FirstIs
    <3> QED
      BY <3>1, <3>2, <3>3
  <2>2. f \in [Modules -> Paths \cup {Sent, Torn}] /\ S \in SUBSET Modules /\ w.suspect \subseteq S
    BY <1>0, <2>1 DEF Worker
  <2>3. ASSUME NEW m \in Modules \ S, Restorable(w, m)
        PROVE  f[m] = w.given[m]
    <3>1. f[m] = w.weights[m]
      BY <2>1, <2>3
    <3> QED
      BY <3>1, <1>0, <2>3 DEF WeightsOK
  <2>4. o = Raised([w EXCEPT !.weights = f, !.suspect = S])
    BY <1>3
  <2> HIDE DEF f, S
  <2>5. Sound([w EXCEPT !.weights = f, !.suspect = S])
    BY <2>2, <2>3, OnlyWeights
  <2> QED
    BY <2>4, <2>5 DEF Raised, Keeps
<1> QED
  <2>1. CASE Transformer \in Range(names)
    BY <2>1, <1>1 DEF UpdateFromTensor
  <2>2. CASE Transformer \notin Range(names)
    BY <2>2, <1>0, <1>2, <1>3 DEF UpdateFromTensor, Changed, Worker
  <2> QED
    BY <2>1, <2>2

-----------------------------------------------------------------------------
\* Only places and what belongs to them change.
LEMMA PlacesChange ==
  ASSUME NEW w, Sound(w), NEW v \in Worker, PlacesOK(v), v.weights = w.weights,
         v.dirs = w.dirs, v.path = w.path, v.source = w.source, v.given = w.given,
         v.suspect = w.suspect
  PROVE  Sound(v)
<1>1. WeightsOK(w)
  BY DEF Sound
<1>2. WeightsOK(v)
  BY <1>1 DEF WeightsOK, Restorable
<1> QED
  BY <1>2 DEF Sound

\* A move that raises: off the device only while awake, onto it only while asleep
\* and only modules that are to be restored.
LEMMA MoveFailsKeeps ==
  ASSUME NEW w, Sound(w), NEW names \in SUBSET Modules, NEW to \in {"gpu", "cpu"},
         IF to = "cpu" THEN ~w.sleeping ELSE w.sleeping /\ names = w.restore,
         NEW o \in MoveFails(w, names, to)
  PROVE  Sound(o.state) /\ o.ok = FALSE
<1>0. w \in Worker /\ PlacesOK(w)
  BY DEF Sound
<1> PICK a \in Attempts(names) : o = Raised(Unmoved(w, to, a))
  BY DEF MoveFails
<1> DEFINE f == [m \in Modules |->
            IF m \in First(a.order, a.back) THEN Device(w, m)
            ELSE IF m \in First(a.order, a.moved)
            THEN IF m = a.order[a.back + 1] THEN Halfway(Device(w, m)) ELSE to
            ELSE IF m = a.order[a.at] /\ a.half THEN Halfway(to) ELSE w.place[m]]
           s == IF a.back < a.moved \/ w.moves = "stranded" THEN "stranded" ELSE "undone"
           v == [w EXCEPT !.place = f, !.moves = s]
<1>1. o.ok = FALSE /\ o.state = v
  BY <1>0 DEF Raised, Unmoved, Worker
<1>2. \A m \in Modules : Device(w, m) \in {"gpu", "cpu"} /\ w.place[m] \in Places
  BY <1>0 DEF Device, Worker
<1>3. f \in [Modules -> Places] /\ s \in {"undone", "stranded"}
  BY <1>2 DEF Places, Halfway
<1>4. a.order[a.at] \in names /\ a.back \in Nat /\ a.moved \in Nat /\ a.back <= a.moved
  <2>1. Cardinality(names) \in Nat
    BY WorkerAssumption, FS_Subset, FS_CardinalityType
  <2>2. /\ a.order \in InOrder(names) /\ a.at \in 1..Cardinality(names)
        /\ a.moved \in 0..Cardinality(names) /\ a.back \in 0..Cardinality(names)
        /\ a.back <= a.moved
    BY DEF Attempts
  <2>3. a.order \in [1..Cardinality(names) -> names]
    BY <2>2 DEF InOrder
  <2> QED
    BY <2>1, <2>2, <2>3
<1>5. s = "undone" => w.moves # "stranded" /\ a.back = a.moved
  BY <1>4
<1>6. s = "undone" => \A m \in Modules :
         \/ f[m] \in {"gpu", "cpu"} \/ f[m] = w.place[m]
         \/ f[m] = Halfway(to) /\ m \in names
  BY <1>2, <1>4, <1>5
<1> HIDE DEF f, s
<1>7. /\ v \in Worker /\ v.place = f /\ v.moves = s /\ v.sleeping = w.sleeping
      /\ v.restore = w.restore /\ v.weights = w.weights /\ v.dirs = w.dirs
      /\ v.path = w.path /\ v.source = w.source /\ v.given = w.given
      /\ v.suspect = w.suspect
  BY <1>0, <1>3 DEF Worker
<1> HIDE DEF v
<1>8. PlacesOK(v)
  <2>1. CASE s = "stranded"
    BY <2>1, <1>7 DEF PlacesOK
  <2>2. CASE s = "undone" /\ to = "cpu"
    <3>1. \A m \in Modules : w.place[m] # "headGpu"
      BY <2>2, <1>0, <1>5 DEF PlacesOK
    <3>2. \A m \in Modules : f[m] # "headGpu"
      BY <3>1, <2>2, <1>6 DEF Halfway
    <3> QED
      BY <3>2, <2>2, <1>7 DEF PlacesOK
  <2>3. CASE s = "undone" /\ to = "gpu"
    <3>1. \A m \in Modules : f[m] = "headGpu" => m \in w.restore
      BY <2>3, <1>0, <1>5, <1>6 DEF PlacesOK
    <3> QED
      BY <3>1, <2>3, <1>7 DEF PlacesOK
  <2> QED
    BY <2>1, <2>2, <2>3, <1>3
<1> QED
  BY <1>1, <1>7, <1>8, PlacesChange

\* Every outcome of release_memory_occupation.
LEMMA ReleaseKeeps ==
  ASSUME NEW w, Sound(w), NEW op, op.kind = "sleep", NEW o \in Release(w)
  PROVE  Keeps(o, op)
<1> DEFINE active == {m \in Modules : Device(w, m) = "gpu"}
           f == Moved(w, active, "cpu")
           v == [w EXCEPT !.place = f, !.restore = active, !.sleeping = TRUE]
           u == [w EXCEPT !.place = f]
<1>0. w \in Worker /\ PlacesOK(w)
  BY DEF Sound
<1>1. CASE w.sleeping
  <2>1. o = Done(w)
    BY <1>1 DEF Release
  <2> QED
    BY <1>1, <2>1 DEF Done, Keeps, Took
<1>2. CASE ~w.sleeping
  <2>1. \A m \in Modules : w.place[m] \in Places
    BY <1>0 DEF Worker
  <2>2. /\ f \in [Modules -> Places] /\ active \in SUBSET Modules
        /\ \A m \in Modules : f[m] \in {"cpu", "headCpu"}
        /\ w.moves = "whole" => \A m \in Modules : f[m] = "cpu"
    BY <2>1, <1>0, <1>2 DEF Moved, Device, Places, PlacesOK
  <2> HIDE DEF f, active
  <2>3. CASE o = Done(v)
    <3>1. /\ v \in Worker /\ v.place = f /\ v.sleeping = TRUE /\ v.moves = w.moves
          /\ v.weights = w.weights /\ v.dirs = w.dirs /\ v.source = w.source
          /\ v.path = w.path /\ v.given = w.given /\ v.suspect = w.suspect
      BY <1>0, <2>2 DEF Worker
    <3> HIDE DEF v
    <3>2. PlacesOK(v)
      BY <2>2, <3>1 DEF PlacesOK
    <3>3. Sound(v)
      BY <3>1, <3>2, PlacesChange
    <3> QED
      BY <2>3, <3>1, <3>3 DEF Done, Keeps, Took
  <2>4. CASE o = Raised(u)
    <3>1. /\ u \in Worker /\ u.place = f /\ u.sleeping = w.sleeping /\ u.moves = w.moves
          /\ u.weights = w.weights /\ u.dirs = w.dirs /\ u.source = w.source
          /\ u.path = w.path /\ u.given = w.given /\ u.suspect = w.suspect
      BY <1>0, <2>2 DEF Worker
    <3> HIDE DEF u
    <3>2. PlacesOK(u)
      BY <1>2, <2>2, <3>1 DEF PlacesOK
    <3>3. Sound(u)
      BY <3>1, <3>2, PlacesChange
    <3> QED
      BY <2>4, <3>3 DEF Raised, Keeps
  <2>5. CASE o \in MoveFails(w, active, "cpu")
    BY <2>5, <1>2, <2>2, MoveFailsKeeps DEF Keeps
  <2> QED
    BY <1>2, <2>3, <2>4, <2>5 DEF Release, f, active
<1> QED
  BY <1>0, <1>1, <1>2 DEF Worker

\* Every outcome of resume_memory_occupation.
LEMMA ResumeKeeps ==
  ASSUME NEW w, Sound(w), NEW op, op.kind = "wake", NEW o \in Resume(w)
  PROVE  Keeps(o, op)
<1> DEFINE f == Moved(w, w.restore, "gpu")
           v == [w EXCEPT !.place = f, !.restore = {}, !.sleeping = FALSE]
<1>0. w \in Worker /\ PlacesOK(w)
  BY DEF Sound
<1>1. CASE ~w.sleeping
  <2>1. o = Done(w)
    BY <1>1 DEF Resume
  <2> QED
    BY <1>1, <2>1 DEF Done, Keeps, Took
<1>2. CASE w.sleeping
  <2>1. w.restore \in SUBSET Modules /\ \A m \in Modules : w.place[m] \in Places
    BY <1>0 DEF Worker
  <2>2. /\ f \in [Modules -> Places]
        /\ w.moves = "whole" => \A m \in Modules : f[m] \in {"gpu", "cpu"}
        /\ w.moves # "stranded" => \A m \in Modules : f[m] # "headGpu"
    BY <2>1, <1>0, <1>2 DEF Moved, Places, PlacesOK
  <2> HIDE DEF f
  <2>3. CASE o = Done(v)
    <3>1. /\ v \in Worker /\ v.place = f /\ v.sleeping = FALSE /\ v.moves = w.moves
          /\ v.weights = w.weights /\ v.dirs = w.dirs /\ v.source = w.source
          /\ v.path = w.path /\ v.given = w.given /\ v.suspect = w.suspect
      BY <1>0, <2>2 DEF Worker
    <3> HIDE DEF v
    <3>2. PlacesOK(v)
      BY <2>2, <3>1 DEF PlacesOK
    <3>3. Sound(v)
      BY <3>1, <3>2, PlacesChange
    <3> QED
      BY <2>3, <3>1, <3>3 DEF Done, Keeps, Took
  <2>4. CASE o \in MoveFails(w, w.restore, "gpu")
    BY <2>4, <1>2, <2>1, MoveFailsKeeps DEF Keeps
  <2> QED
    BY <1>2, <2>3, <2>4 DEF Resume, f
<1> QED
  BY <1>0, <1>1, <1>2 DEF Worker

\* A generation keeps a worker sound, and undoes no control operation.
LEMMA UsedKeeps ==
  ASSUME NEW w, Sound(w)
  PROVE  Sound(Used(w)) /\ \A op : Took(w, op) => Took(Used(w), op)
<1> DEFINE f == [m \in Modules |-> IF Device(w, m) = "cpu" THEN "gpu" ELSE w.place[m]]
           v == Used(w)
<1>0. w \in Worker /\ PlacesOK(w)
  BY DEF Sound
<1>1. CASE w.sleeping
  BY <1>1 DEF Used
<1>2. CASE ~w.sleeping
  <2>1. v = [w EXCEPT !.place = f]
    BY <1>2 DEF Used
  <2>2. \A m \in Modules : w.place[m] \in Places
    BY <1>0 DEF Worker
  <2>3. /\ f \in [Modules -> Places]
        /\ \A m \in Modules : f[m] = "gpu" \/ f[m] = w.place[m]
    BY <2>2 DEF Places
  <2> HIDE DEF f, v
  <2>4. /\ v \in Worker /\ v.place = f /\ v.sleeping = w.sleeping /\ v.moves = w.moves
        /\ v.weights = w.weights /\ v.dirs = w.dirs /\ v.source = w.source
        /\ v.path = w.path /\ v.given = w.given /\ v.suspect = w.suspect
    BY <1>0, <2>1, <2>3 DEF Worker
  <2>5. PlacesOK(v)
    BY <1>0, <1>2, <2>3, <2>4 DEF PlacesOK
  <2>6. Sound(v)
    BY <2>4, <2>5, PlacesChange
  <2>7. ASSUME NEW op, Took(w, op) PROVE Took(v, op)
    BY <2>4, <2>7 DEF Took
  <2> QED
    BY <2>6, <2>7 DEF v
<1> QED
  BY <1>1, <1>2

\* Every outcome of every control operation.
LEMMA OutcomesKeep ==
  ASSUME NEW w, Sound(w), NEW op \in Operations, NEW o \in Outcomes(w, op)
  PROVE  Keeps(o, op)
<1>1. CASE op.kind = "sleep"
  BY <1>1, ReleaseKeeps DEF Outcomes
<1>2. CASE op.kind = "wake"
  BY <1>2, ResumeKeeps DEF Outcomes
<1>3. CASE op.kind = "tensor" /\ op.names \in Seq(Modules)
  BY <1>3, TensorKeeps DEF Outcomes
<1>4. CASE op.kind = "disk" /\ op.names \in Seq(Modules) /\ op.path \in Paths
  BY <1>4, DiskKeeps DEF Outcomes
<1> QED
  BY <1>1, <1>2, <1>3, <1>4, ClientAssumption

-----------------------------------------------------------------------------
\* The inductive invariant.  A call that runs alone is the only one that is under
\* way, so that what it has been told by one replica still holds when it is
\* answered by the next; what rank 0 does not tell is in unheard.
CallSet == [op : Operations \cup {[kind |-> "none"]}, at : 0..N,
            state : {"unused", "sent", "done"}, ok : BOOLEAN,
            unheard : SUBSET (Replicas \X (Ranks \ {0})), alone : BOOLEAN]
WorkersSound == /\ worker \in [Replicas -> [Ranks -> Worker]]
                /\ \A r \in Replicas, k \in Ranks : Sound(worker[r][k])
CallsTyped ==
    /\ call \in [Calls -> CallSet]
    /\ \A c \in Calls : call[c].state # "unused" =>
                            call[c].op \in Operations /\ call[c].at \in Replicas
    /\ \A l \in late : l.op \in Operations /\ l.at \in Replicas
AloneIsOnly ==
    \A c \in Calls : call[c].state # "unused" /\ call[c].alone => Busy \subseteq {c}
HasIt(w, op, r, unheard) == \A k \in Ranks : <<r, k>> \in unheard \/ Took(w[k], op)
AnswersHold ==
    \A c \in Calls : call[c].state # "unused" /\ call[c].alone /\ call[c].ok =>
        \A r \in Replicas :
            call[c].state = "done" \/ r < call[c].at =>
                HasIt(worker[r], call[c].op, r, call[c].unheard)
IInv == WorkersSound /\ CallsTyped /\ AloneIsOnly /\ AnswersHold

\* The server as it starts.
LEMMA InitInv == Init => IInv
<1> SUFFICES ASSUME Init PROVE IInv
  OBVIOUS
<1>1. /\ worker = [r \in Replicas |-> [k \in Ranks |-> Fresh]] /\ late = {}
      /\ call = [c \in Calls |-> Unused]
  BY DEF Init, ClientInit
<1>2. Sound(Fresh) /\ Fresh \in Worker
  BY FreshSound DEF Sound
<1>3. WorkersSound
  BY <1>1, <1>2 DEF WorkersSound
<1>4. Unused \in CallSet /\ Unused.state = "unused"
  BY ClientAssumption DEF Unused, CallSet
<1>5. CallsTyped /\ AloneIsOnly /\ AnswersHold
  BY <1>1, <1>4 DEF CallsTyped, AloneIsOnly, AnswersHold
<1> QED
  BY <1>3, <1>5 DEF IInv

\* A new control call keeps the invariant.
LEMMA ForwardKeeps ==
  ASSUME IInv, NEW c \in Calls, NEW op \in Operations, Forward(c, op)
  PROVE  IInv'
<1> DEFINE k == [op |-> op, at |-> 1, state |-> "sent", ok |-> TRUE,
                unheard |-> {}, alone |-> Busy = {}]
<1>1. /\ call' = [Crossed EXCEPT ![c] = k] /\ worker' = worker /\ late' = late
      /\ c \notin Busy
  BY DEF Forward
<1>2. k \in CallSet /\ 1 \in Replicas
  BY ClientAssumption DEF CallSet, Replicas
<1>3. k.state = "sent" /\ k.op = op /\ k.at = 1 /\ k.alone = (Busy = {})
  OBVIOUS
<1> HIDE DEF k
<1>4. Unused \in CallSet /\ Unused.state = "unused"
  BY ClientAssumption DEF Unused, CallSet
<1>5. \A d \in Busy : /\ [call[d] EXCEPT !.alone = FALSE] \in CallSet
                      /\ [call[d] EXCEPT !.alone = FALSE].state = "sent"
                      /\ [call[d] EXCEPT !.alone = FALSE].alone = FALSE
                      /\ [call[d] EXCEPT !.alone = FALSE].op = call[d].op
                      /\ [call[d] EXCEPT !.alone = FALSE].at = call[d].at
  BY DEF IInv, CallsTyped, CallSet, Busy
<1>6. \A d \in Calls : call'[d] = IF d = c THEN k
                        ELSE IF d \in Busy THEN [call[d] EXCEPT !.alone = FALSE] ELSE Unused
  BY <1>1 DEF Crossed
<1>7. call' \in [Calls -> CallSet]
  BY <1>1, <1>2, <1>4, <1>5 DEF Crossed
<1>8. WorkersSound'
  BY <1>1 DEF IInv, WorkersSound
<1>9. CallsTyped'
  <2>1. ASSUME NEW d \in Calls, call'[d].state # "unused"
        PROVE  call'[d].op \in Operations /\ call'[d].at \in Replicas
    BY <2>1, <1>2, <1>3, <1>4, <1>5, <1>6 DEF IInv, CallsTyped, Busy
  <2> QED
    BY <1>1, <1>7, <2>1 DEF IInv, CallsTyped
<1>10. Busy' = Busy \cup {c}
  BY <1>3, <1>4, <1>5, <1>6 DEF Busy
<1>11. \A d \in Calls : call'[d].state # "unused" /\ call'[d].alone => d = c /\ Busy = {}
  BY <1>3, <1>4, <1>5, <1>6
<1>12. AloneIsOnly'
  BY <1>10, <1>11 DEF AloneIsOnly
<1>13. AnswersHold'
  <2>1. \A r \in Replicas : ~(r < 1)
    BY DEF Replicas
  <2> QED
    BY <1>3, <1>6, <1>11, <2>1 DEF AnswersHold
<1> QED
  BY <1>8, <1>9, <1>12, <1>13 DEF IInv

\* The workers of one replica change, and leave the others alone.
Become(r, f) ==
    \A q \in Replicas, k \in Ranks : worker'[q][k] = IF q = r THEN f[k] ELSE worker[q][k]

\* A step of the workers of one replica that leaves them sound.
LEMMA RunsSound ==
  ASSUME WorkersSound, NEW r, NEW f, worker' = [worker EXCEPT ![r] = [k \in Ranks |-> f[k]]],
         r \in Replicas => \A k \in Ranks : Sound(f[k])
  PROVE  WorkersSound' /\ Become(r, f)
<1> DEFINE g == [k \in Ranks |-> f[k]]
<1>1. r \in Replicas => g \in [Ranks -> Worker] /\ \A k \in Ranks : g[k] = f[k] /\ Sound(g[k])
  BY DEF Sound
<1>2. worker' = [worker EXCEPT ![r] = g] /\ \A k \in Ranks : g[k] = f[k]
  OBVIOUS
<1> HIDE DEF g
<1>3. /\ worker' \in [Replicas -> [Ranks -> Worker]]
      /\ \A q \in Replicas : worker'[q] = IF q = r THEN g ELSE worker[q]
  BY <1>1, <1>2 DEF WorkersSound
<1>4. \A q \in Replicas, k \in Ranks : worker'[q][k] = IF q = r THEN f[k] ELSE worker[q][k]
  BY <1>2, <1>3
<1> QED
  BY <1>1, <1>2, <1>3, <1>4 DEF WorkersSound, Become

\* What the ranks of a replica do when it runs an operation.
LEMMA ResultsKeep ==
  ASSUME WorkersSound, NEW r \in Replicas, NEW op \in Operations, NEW o \in Results(r, op)
  PROVE  \A k \in Ranks : Keeps(o[k], op)
<1> DEFINE can == [k \in Ranks |-> {x \in Outcomes(worker[r][k], op) : x.fault => faults > 0}]
<1>1. \A k \in Ranks : o[k] \in can[k]
  BY Zenon DEF Results
<1>2. \A k \in Ranks : o[k] \in Outcomes(worker[r][k], op)
  BY <1>1
<1> QED
  BY <1>2, OutcomesKeep DEF WorkersSound

\* A replica's answer keeps the invariant: if the call runs alone, no other call
\* depends on the worker that changes.
LEMMA ReplyKeeps ==
  ASSUME IInv, NEW c \in Calls, Reply(c)
  PROVE  IInv'
<1> DEFINE k == call[c]
<1>0. /\ k \in CallSet /\ k.state = "sent" /\ k.op \in Operations /\ k.at \in Replicas
      /\ c \in Busy
  BY DEF Reply, IInv, CallsTyped, Busy
<1> DEFINE missed(o) == {k.at} \X {i \in Ranks \ {0} : ~o[i].ok}
           next(o) == [k EXCEPT !.ok = Merged(k.ok, k.at, o[0].ok),
                                !.unheard = k.unheard \cup missed(o),
                                !.at = IF k.at < N THEN k.at + 1 ELSE k.at,
                                !.state = IF k.at < N THEN "sent" ELSE "done"]
<1>1. PICK o \in Results(k.at, k.op) : Runs(k.at, o) /\ call' = [call EXCEPT ![c] = next(o)]
  BY <1>0 DEF Reply, CallSet
<1>2. \A i \in Ranks : Keeps(o[i], k.op)
  BY <1>0, ResultsKeep DEF IInv
<1>3. /\ WorkersSound'
      /\ \A q \in Replicas, i \in Ranks :
            worker'[q][i] = IF q = k.at THEN o[i].state ELSE worker[q][i]
  <2> DEFINE f == [i \in Ranks |-> o[i].state]
  <2>1. \A i \in Ranks : f[i] = o[i].state /\ Sound(f[i])
    BY <1>2 DEF Keeps
  <2>2. worker' = [worker EXCEPT ![k.at] = [i \in Ranks |-> f[i]]]
    BY <1>1 DEF Runs
  <2> HIDE DEF f
  <2>3. WorkersSound' /\ Become(k.at, f)
    BY <2>1, <2>2, RunsSound DEF IInv
  <2> QED
    BY <2>1, <2>3 DEF Become
<1> DEFINE n == [k EXCEPT !.ok = k.ok /\ o[0].ok,
                          !.unheard = k.unheard \cup missed(o),
                          !.at = IF k.at < N THEN k.at + 1 ELSE k.at,
                          !.state = IF k.at < N THEN "sent" ELSE "done"]
<1>4. call \in [Calls -> CallSet] /\ call' = [call EXCEPT ![c] = n] /\ late' = late
  <2>1. call \in [Calls -> CallSet]
    BY DEF IInv, CallsTyped
  <2> QED
    BY <1>1, <2>1 DEF Merged, Reply
<1>5. /\ n \in CallSet /\ n.op = k.op /\ n.alone = k.alone /\ n.ok = (k.ok /\ o[0].ok)
      /\ n.unheard = k.unheard \cup missed(o)
      /\ n.at \in Replicas /\ n.state \in {"sent", "done"}
      /\ IF k.at < N THEN n.at = k.at + 1 /\ n.state = "sent" ELSE n.state = "done" /\ k.at = N /\ n.at = N
  <2>1. /\ k.at \in 1..N /\ N \in Nat
        /\ k.op \in Operations /\ k.ok \in BOOLEAN /\ k.alone \in BOOLEAN
        /\ k.unheard \in SUBSET (Replicas \X (Ranks \ {0}))
    BY <1>0, ClientAssumption DEF CallSet, Replicas
  <2>2. (k.ok /\ o[0].ok) \in BOOLEAN
    OBVIOUS
  <2>3. missed(o) \in SUBSET (Replicas \X (Ranks \ {0}))
    BY <1>0
  <2>4. k.unheard \cup missed(o) \in SUBSET (Replicas \X (Ranks \ {0}))
    BY <2>1, <2>3
  <2> HIDE DEF missed
  <2>5. /\ n.op = k.op /\ n.alone = k.alone /\ n.unheard = k.unheard \cup missed(o)
        /\ n.at = (IF k.at < N THEN k.at + 1 ELSE k.at)
        /\ n.state = (IF k.at < N THEN "sent" ELSE "done")
    BY <1>0 DEF CallSet
  <2>6. n.ok = (k.ok /\ o[0].ok)
    BY <1>0, Zenon DEF CallSet
  <2>7. n.at \in 1..N /\ n.at \in 0..N /\ n.state \in {"sent", "done"}
    BY <2>1, <2>5
  <2>8. n \in CallSet
    BY <1>0, <2>1, <2>2, <2>4, <2>5, <2>7 DEF CallSet
  <2> QED
    BY <2>1, <2>5, <2>6, <2>7, <2>8 DEF Replicas
<1> HIDE DEF n
<1>6. call' \in [Calls -> CallSet] /\ call'[c] = n /\ \A d \in Calls \ {c} : call'[d] = call[d]
  BY <1>4, <1>5
<1>7. CallsTyped'
  BY <1>0, <1>4, <1>5, <1>6 DEF IInv, CallsTyped
<1>8. Busy' \subseteq Busy
  BY <1>0, <1>6 DEF Busy
<1>9. AloneIsOnly'
  BY <1>0, <1>5, <1>6, <1>8 DEF IInv, AloneIsOnly
<1>10. AnswersHold'
  <2> SUFFICES ASSUME NEW d \in Calls, NEW r \in Replicas,
                      call'[d].state # "unused", call'[d].alone, call'[d].ok,
                      call'[d].state = "done" \/ r < call'[d].at
               PROVE  HasIt(worker'[r], call'[d].op, r, call'[d].unheard)
    BY DEF AnswersHold
  <2>1. d = c
    BY <1>0, <1>6 DEF IInv, AloneIsOnly
  <2>2. k.alone /\ k.ok /\ o[0].ok
    BY <2>1, <1>5, <1>6
  <2>3. call'[d].op = k.op /\ call'[d].unheard = k.unheard \cup missed(o)
    BY <2>1, <1>5, <1>6
  <2>4. ASSUME NEW i \in Ranks, r = k.at PROVE <<r, i>> \in k.unheard \cup missed(o) \/ Took(worker'[r][i], k.op)
    <3>1. o[i].ok => Took(worker'[r][i], k.op)
      BY <2>4, <1>2, <1>3 DEF Keeps
    <3>2. ~o[i].ok => i # 0
      BY <2>2
    <3> QED
      BY <2>4, <3>1, <3>2
  <2>5. ASSUME NEW i \in Ranks, r # k.at PROVE <<r, i>> \in k.unheard \cup missed(o) \/ Took(worker'[r][i], k.op)
    <3>1. r < k.at
      BY <2>1, <2>5, <1>0, <1>5, <1>6, ClientAssumption DEF Replicas
    <3>2. HasIt(worker[r], k.op, r, k.unheard)
      BY <3>1, <2>2, <1>0 DEF IInv, AnswersHold
    <3>3. worker'[r][i] = worker[r][i]
      BY <2>5, <1>3
    <3> QED
      BY <3>2, <3>3 DEF HasIt
  <2> HIDE DEF missed
  <2> QED
    BY <2>3, <2>4, <2>5 DEF HasIt
<1> QED
  BY <1>3, <1>7, <1>9, <1>10 DEF IInv

\* A call that times out keeps the invariant.
LEMMA TimeoutKeeps ==
  ASSUME IInv, NEW c \in Calls, Timeout(c)
  PROVE  IInv'
<1>1. /\ call' = [call EXCEPT ![c] = Unused] /\ worker' = worker
      /\ late' \in {late, late \cup {[op |-> call[c].op, at |-> call[c].at]}}
      /\ call[c].state = "sent"
  BY DEF Timeout
<1>2. call \in [Calls -> CallSet] /\ Unused \in CallSet /\ Unused.state = "unused"
  BY ClientAssumption DEF IInv, CallsTyped, Unused, CallSet
<1>3. call' \in [Calls -> CallSet] /\ call'[c].state = "unused"
      /\ \A d \in Calls \ {c} : call'[d] = call[d]
  BY <1>1, <1>2
<1>4. \A l \in late' : l.op \in Operations /\ l.at \in Replicas
  BY <1>1 DEF IInv, CallsTyped
<1>5. CallsTyped'
  BY <1>3, <1>4 DEF IInv, CallsTyped
<1>6. Busy' \subseteq Busy
  BY <1>1, <1>3 DEF Busy
<1>7. AloneIsOnly'
  BY <1>3, <1>6 DEF IInv, AloneIsOnly
<1>8. WorkersSound' /\ AnswersHold'
  BY <1>1, <1>3 DEF IInv, WorkersSound, AnswersHold
<1> QED
  BY <1>5, <1>7, <1>8 DEF IInv

\* A request that its caller has given up and a replica runs later.
LEMMA RunsLateKeeps ==
  ASSUME IInv, RunsLate
  PROVE  IInv'
<1>1. PICK l \in late : \E o \in Results(l.at, l.op) : Runs(l.at, o) /\ late' = late \ {l}
  BY DEF RunsLate
<1>2. PICK o \in Results(l.at, l.op) : Runs(l.at, o) /\ late' = late \ {l}
  BY <1>1
<1>3. \A k \in Ranks : Keeps(o[k], l.op)
  BY <1>1, <1>2, ResultsKeep DEF IInv, CallsTyped
<1>4. WorkersSound'
  <2> DEFINE f == [k \in Ranks |-> o[k].state]
  <2>1. worker' = [worker EXCEPT ![l.at] = [k \in Ranks |-> f[k]]]
    BY <1>2 DEF Runs
  <2>2. \A k \in Ranks : Sound(f[k])
    BY <1>3 DEF Keeps
  <2> HIDE DEF f
  <2> QED
    BY <2>1, <2>2, RunsSound DEF IInv
<1>5. call' = Crossed
  BY DEF RunsLate
<1>6. Unused \in CallSet /\ Unused.state = "unused"
  BY ClientAssumption DEF Unused, CallSet
<1>7. \A d \in Busy : /\ [call[d] EXCEPT !.alone = FALSE] \in CallSet
                      /\ [call[d] EXCEPT !.alone = FALSE].alone = FALSE
                      /\ [call[d] EXCEPT !.alone = FALSE].op = call[d].op
                      /\ [call[d] EXCEPT !.alone = FALSE].at = call[d].at
  BY DEF IInv, CallsTyped, CallSet, Busy
<1>8. /\ call' \in [Calls -> CallSet]
      /\ \A d \in Calls : call'[d] = IF d \in Busy THEN [call[d] EXCEPT !.alone = FALSE] ELSE Unused
  BY <1>5, <1>6, <1>7 DEF Crossed
<1>9. \A d \in Calls : call'[d].state # "unused" =>
         ~call'[d].alone /\ call'[d].op \in Operations /\ call'[d].at \in Replicas
  BY <1>6, <1>7, <1>8 DEF IInv, CallsTyped, Busy
<1>10. CallsTyped'
  BY <1>2, <1>8, <1>9 DEF IInv, CallsTyped
<1>11. AloneIsOnly' /\ AnswersHold'
  BY <1>9 DEF AloneIsOnly, AnswersHold
<1> QED
  BY <1>4, <1>10, <1>11 DEF IInv

\* A replica generates, for a task that waits for it or no longer does.
LEMMA GenerationKeeps ==
  ASSUME IInv, NEW r, NEW o, Generation(r, o), UNCHANGED <<call, late>>
  PROVE  IInv'
<1> DEFINE f == [k \in Ranks |-> Used(worker[r][k])]
<1>1. \A k \in Ranks : f[k] = Used(worker[r][k])
  OBVIOUS
<1>2. r \in Replicas => \A k \in Ranks : /\ Sound(f[k])
                                         /\ \A op : Took(worker[r][k], op) => Took(f[k], op)
  BY <1>1, UsedKeeps DEF IInv, WorkersSound
<1>3. worker' = [worker EXCEPT ![r] = [k \in Ranks |-> f[k]]]
  BY DEF Generation
<1> HIDE DEF f
<1>4. WorkersSound' /\ Become(r, f)
  BY <1>2, <1>3, RunsSound DEF IInv
<1>5. \A q \in Replicas, k \in Ranks : \A op : Took(worker[q][k], op) => Took(worker'[q][k], op)
  BY <1>2, <1>4 DEF Become
<1>6. CallsTyped' /\ AloneIsOnly'
  BY DEF IInv, CallsTyped, AloneIsOnly, Busy
<1>7. AnswersHold'
  BY <1>5 DEF IInv, AnswersHold, HasIt
<1> QED
  BY <1>4, <1>6, <1>7 DEF IInv

\* Steps of the HTTP server that involve no replica.
LEMMA OtherKeeps ==
  ASSUME IInv, UNCHANGED <<worker, call, late>>
  PROVE  IInv'
  BY DEF IInv, WorkersSound, CallsTyped, AloneIsOnly, AnswersHold, Busy

-----------------------------------------------------------------------------
\* The workers of all replicas stay sound, and the answers that a control call
\* has collected hold as long as nothing crosses it, whatever fails or times out.
THEOREM Inductive == Spec => []IInv
<1>1. Init => IInv
  BY InitInv
<1>2. IInv /\ [Next]_vars => IInv'
  <2> SUFFICES ASSUME IInv, [Next]_vars PROVE IInv'
    OBVIOUS
  <2>1. CASE ClientNext
    <3>1. CASE Busy # Calls /\ \E op \in Operations : Forward(Idle, op)
      <4>1. Busy \subseteq Calls
        BY DEF Busy
      <4>2. Idle \in Calls
        BY <3>1, <4>1 DEF Idle
      <4> QED
        BY <3>1, <4>2, ForwardKeeps
    <3>2. CASE \E c \in Calls : Reply(c) \/ Timeout(c)
      BY <3>2, ReplyKeeps, TimeoutKeeps
    <3>3. CASE RunsLate
      BY <3>3, RunsLateKeeps
    <3> QED
      BY <2>1, <3>1, <3>2, <3>3 DEF ClientNext
  <2>2. ASSUME NEW j \in Jobs, Generated(j) PROVE IInv'
    <3>1. \E o : Generation(job[j].at, o) /\ UNCHANGED <<call, late>>
      BY <2>2 DEF Generated, aside, client
    <3> QED
      BY <3>1, GenerationKeeps
  <2>3. ASSUME NEW j \in Jobs, GeneratedLate(j) PROVE IInv'
    <3>1. \E o : Generation(job[j].at, o) /\ UNCHANGED <<call, late>>
      BY <2>3 DEF GeneratedLate, aside, client
    <3> QED
      BY <3>1, GenerationKeeps
  <2>4. ASSUME NEW j \in Jobs,
               \/ Create(j) \/ Saved(j) \/ SaveFails(j) \/ Enhanced(j) \/ Prepared(j)
               \/ Dispatch(j) \/ Validated(j) \/ Uploaded(j) \/ Cleaned(j)
               \/ GenerationTimeout(j) \/ Delete(j)
        PROVE  IInv'
    BY <2>4, OtherKeeps DEF Create, Saved, SaveFails, Enhanced, Prepared, Dispatch, Validated,
       Uploaded, Cleaned, GenerationTimeout, Delete, aside, client
  <2>5. CASE Shutdown
    BY <2>5, OtherKeeps DEF Shutdown, aside, client
  <2>6. CASE UNCHANGED vars
    BY <2>6, OtherKeeps DEF vars, client
  <2> QED
    BY <2>1, <2>2, <2>3, <2>4, <2>5, <2>6 DEF Next, Serves
<1> QED
  BY <1>1, <1>2, PTL DEF Spec

\* For any number of replicas and ranks: a control call that reports success, with
\* nothing crossing it, has taken effect on rank 0 of every replica, and on every
\* other rank that had no error of its own (_merge_fanout_results).
THEOREM SuccessIsEverywhere == Spec => []SucceededEverywhere
<1>1. IInv => SucceededEverywhere
  <2> SUFFICES ASSUME IInv, NEW c \in Calls, NEW r \in Replicas, NEW k \in Ranks,
                      call[c].state = "done", call[c].ok, call[c].alone,
                      k = 0 \/ <<r, k>> \notin call[c].unheard
               PROVE  Took(worker[r][k], call[c].op)
    BY DEF SucceededEverywhere
  <2>1. HasIt(worker[r], call[c].op, r, call[c].unheard)
    BY DEF IInv, AnswersHold
  <2>2. call[c].unheard \in SUBSET (Replicas \X (Ranks \ {0}))
    BY DEF IInv, CallsTyped, CallSet
  <2>3. <<r, k>> \notin call[c].unheard
    BY <2>2
  <2> QED
    BY <2>1, <2>3 DEF HasIt
<1> QED
  BY <1>1, Inductive, PTL

\* For any components, checkpoints and ranks: updates that fail at any point leave
\* a module with the weights it was last given, and AdaLN outputs derived from
\* them, if these came from its own directory or are those of the start, except
\* after an error that is reported and leaves the update where it is.
THEOREM WeightsStayKnown == Spec => []WeightsKnown
<1>1. IInv => WeightsKnown
  BY DEF IInv, WorkersSound, Sound, WeightsOK, WeightsKnown
<1> QED
  BY <1>1, Inductive, PTL

\* For any components: sleep and wake that fail at any point leave no module in a
\* state that its next use would not repair, as long as their rollbacks succeed.
THEOREM ModulesStayWhole == Spec => []ModulesWhole
<1>1. IInv => ModulesWhole
  BY DEF IInv, WorkersSound, Sound, PlacesOK, ModulesWhole
<1> QED
  BY <1>1, Inductive, PTL

-----------------------------------------------------------------------------
\* What the place of a job tells about its record and its files: JobsAccounted,
\* made inductive.
JobSet == [pc : {"none"} \cup Creating \cup Running \cup Over,
           store : {"absent", "queued", "completed", "failed"}, deleted : BOOLEAN,
           temp : SUBSET {"input", "output"}, stuck : SUBSET {"input", "output"}, file : BOOLEAN, url : BOOLEAN, keep : BOOLEAN,
           at : Int, late : {"no", "sent", "ran"}]
Accounted(r, u) ==
    /\ r.pc \in {"none", "refused", "left"} \cup Creating => r.store = "absent" /\ ~r.deleted
    /\ r.pc \in {"none", "queued", "generating", "refused"} \cup Creating => r.late = "no"
    /\ r.pc \in {"none", "queued", "generating"} \cup Creating => ~r.file
    /\ r.pc \in {"queued", "generating", "validating", "uploading"}
         => r.store \in {"absent", "queued"}
    /\ r.pc \in {"validating", "uploading"} => r.file
    /\ r.pc \in {"refused", "ended"} /\ r.late # "ran" => r.temp = r.stuck
    /\ r.deleted => r.store = "absent"
    /\ r.pc \in Running \cup {"ended", "cut"} /\ r.store = "absent" => r.deleted
    /\ r.pc \in {"cleaning", "ended"} /\ u => r.deleted \/ r.store \in {"completed", "failed"}
    /\ r.store = "completed" /\ r.keep => r.url \/ r.file
    /\ r.file /\ ~r.keep => "output" \in r.temp
JobsInv == /\ job \in [Jobs -> JobSet] /\ counter \in Int /\ up \in BOOLEAN
           /\ \A j \in Jobs : Accounted(job[j], up)

\* A step that changes one job keeps the account if its new record keeps it.
LEMMA OneJob ==
  ASSUME JobsInv, NEW j \in Jobs, NEW r \in JobSet, Accounted(r, up), Set(j, r),
         up' = up, counter' \in Int
  PROVE  JobsInv'
  BY DEF JobsInv, Set

\* Temporary directories are removed, or stay with what they hold.
LEMMA CleanIs ==
  ASSUME NEW r \in JobSet, NEW n \in Clean(r)
  PROVE  /\ n \in JobSet /\ n.temp = n.stuck /\ n.store = r.store /\ n.late = r.late
         /\ n.deleted = r.deleted /\ n.url = r.url /\ n.keep = r.keep /\ n.pc = r.pc
         /\ (n.file /\ ~n.keep => "output" \in n.temp)
         /\ (r.file /\ r.keep => n.file)
<1>1. PICK stuck \in SUBSET r.temp :
         n = [r EXCEPT !.temp = stuck, !.stuck = stuck,
                       !.file = r.file /\ (r.keep \/ "output" \in stuck)]
  BY DEF Clean, JobSet
<1> DEFINE file == r.file /\ (r.keep \/ "output" \in stuck)
<1>2. file \in BOOLEAN /\ stuck \in SUBSET {"input", "output"}
  BY DEF JobSet
<1>3. n = [r EXCEPT !.temp = stuck, !.stuck = stuck, !.file = file]
  BY <1>1
<1>4. file => r.keep \/ "output" \in stuck
  OBVIOUS
<1>5. r.file /\ r.keep => file
  OBVIOUS
<1> HIDE DEF file
<1>6. /\ n \in JobSet /\ n.temp = stuck /\ n.stuck = stuck /\ n.store = r.store /\ n.late = r.late
      /\ n.deleted = r.deleted /\ n.url = r.url /\ n.keep = r.keep /\ n.pc = r.pc
      /\ n.file = file
  BY <1>2, <1>3 DEF JobSet
<1> QED
  BY <1>4, <1>5, <1>6

\* create_video.
LEMMA CreatingKeeps ==
  ASSUME JobsInv, NEW j \in Jobs,
         Create(j) \/ Saved(j) \/ SaveFails(j) \/ Enhanced(j) \/ Prepared(j)
  PROVE  JobsInv'
<1>1. job[j] \in JobSet /\ Accounted(job[j], up) /\ up' = up /\ counter' \in Int
  BY DEF JobsInv, Create, Saved, SaveFails, Enhanced, Prepared
<1>2. ASSUME Create(j) PROVE JobsInv'
  <2>1. PICK k \in BOOLEAN :
          Set(j, [job[j] EXCEPT !.pc = "saving", !.temp = {"input"}, !.keep = k])
    BY <1>2 DEF Create
  <2> DEFINE n == [job[j] EXCEPT !.pc = "saving", !.temp = {"input"}, !.keep = k]
  <2>2. n \in JobSet
    BY <1>1 DEF JobSet, Creating
  <2>3. Accounted(n, up)
    BY <1>1, <1>2 DEF JobSet, Accounted, Create, Creating, Running
  <2> QED
    BY <1>1, <2>1, <2>2, <2>3, OneJob
<1>3. ASSUME Saved(j) PROVE JobsInv'
  <2> DEFINE n == [job[j] EXCEPT !.pc = "enhancing",
                                 !.temp = IF job[j].keep THEN @ ELSE @ \cup {"output"}]
  <2>1. n \in JobSet
    BY <1>1 DEF JobSet, Creating
  <2>2. Accounted(n, up)
    BY <1>1, <1>3 DEF JobSet, Accounted, Saved, Creating, Running
  <2> QED
    BY <1>1, <1>3, <2>1, <2>2, OneJob DEF Saved
<1>4. ASSUME NEW p \in {"left", "preparing"}, job[j].pc \in Creating,
             Set(j, [job[j] EXCEPT !.pc = p])
      PROVE  JobsInv'
  <2> DEFINE n == [job[j] EXCEPT !.pc = p]
  <2>1. n \in JobSet
    BY <1>1 DEF JobSet, Creating, Over
  <2>2. Accounted(n, up)
    BY <1>1, <1>4 DEF JobSet, Accounted, Creating, Running
  <2> QED
    BY <1>1, <1>4, <2>1, <2>2, OneJob
<1>5. ASSUME job[j].pc \in Creating, NEW r \in Clean(job[j]), Set(j, [r EXCEPT !.pc = "refused"])
      PROVE  JobsInv'
  <2> DEFINE n == [r EXCEPT !.pc = "refused"]
  <2>0. /\ r \in JobSet /\ r.temp = r.stuck /\ r.store = job[j].store /\ r.late = job[j].late
        /\ r.deleted = job[j].deleted /\ (r.file /\ ~r.keep => "output" \in r.temp)
    BY <1>1, <1>5, CleanIs
  <2>1. n \in JobSet
    BY <2>0 DEF JobSet, Over
  <2>2. /\ n.pc = "refused" /\ n.temp = n.stuck /\ n.store = job[j].store
        /\ n.late = job[j].late /\ n.deleted = job[j].deleted
        /\ (n.file /\ ~n.keep => "output" \in n.temp)
    BY <2>0 DEF JobSet
  <2>3. job[j].store = "absent" /\ job[j].late = "no" /\ ~job[j].deleted
    BY <1>1, <1>5 DEF Accounted, Creating
  <2>4. Accounted(n, up)
    <3> HIDE DEF n
    <3> QED
      BY <2>2, <2>3 DEF Accounted, Creating, Running
  <2> QED
    BY <1>1, <1>5, <2>1, <2>4, OneJob
<1>6. ASSUME job[j].pc = "preparing",
             Set(j, [job[j] EXCEPT !.pc = "queued", !.store = "queued"])
      PROVE  JobsInv'
  <2> DEFINE n == [job[j] EXCEPT !.pc = "queued", !.store = "queued"]
  <2>1. n \in JobSet
    BY <1>1 DEF JobSet, Running
  <2>2. Accounted(n, up)
    BY <1>1, <1>6 DEF JobSet, Accounted, Creating, Running
  <2> QED
    BY <1>1, <1>6, <2>1, <2>2, OneJob
<1> QED
  BY <1>2, <1>3, <1>4, <1>5, <1>6 DEF SaveFails, Enhanced, Prepared, Creating

\* The task of a job.
LEMMA TaskKeeps ==
  ASSUME JobsInv, NEW j \in Jobs,
         \/ Dispatch(j) \/ Generated(j) \/ Validated(j) \/ Uploaded(j) \/ Cleaned(j)
         \/ GenerationTimeout(j) \/ GeneratedLate(j)
  PROVE  JobsInv'
<1>1. job[j] \in JobSet /\ Accounted(job[j], up) /\ up' = up
  BY DEF JobsInv, Dispatch, Generated, Validated, Uploaded, Cleaned, GenerationTimeout,
     GeneratedLate
<1>2. CASE Dispatch(j)
  <2> DEFINE n == [job[j] EXCEPT !.pc = "generating", !.at = counter + 1]
  <2>1. counter + 1 \in Int /\ counter' \in Int
    BY <1>2, ClientAssumption DEF JobsInv, Dispatch
  <2>2. n \in JobSet
    BY <1>1, <2>1 DEF JobSet, Running
  <2>3. Accounted(n, up)
    BY <1>1, <1>2 DEF JobSet, Accounted, Dispatch, Creating, Running
  <2> QED
    BY <1>1, <1>2, <2>1, <2>2, <2>3, OneJob DEF Dispatch
<1>3. ASSUME ~Dispatch(j) PROVE counter' \in Int
  BY <1>3 DEF JobsInv, Generated, Validated, Uploaded, Cleaned, GenerationTimeout,
     GeneratedLate
\* The record says "failed", or is gone.
<1>4. ASSUME NEW n \in JobSet, Set(j, n), ~Dispatch(j), n.pc = "cleaning",
             job[j].pc \in Running, job[j].store \in {"absent", "queued"},
             n.store = IF job[j].store = "absent" THEN "absent" ELSE "failed",
             n.deleted = job[j].deleted, n.file /\ ~n.keep => "output" \in n.temp
      PROVE  JobsInv'
  <2>1. Accounted(n, up)
    BY <1>1, <1>4 DEF Accounted, Creating, Running
  <2> QED
    BY <1>1, <1>3, <1>4, <2>1, OneJob
\* What a generation may have written.
<1>w. ASSUME NEW r \in {job[j], Written(job[j])}
      PROVE  /\ r \in JobSet /\ r.pc = job[j].pc /\ r.store = job[j].store
             /\ r.deleted = job[j].deleted /\ r.keep = job[j].keep /\ r.late = job[j].late
             /\ r.file /\ ~r.keep => "output" \in r.temp
  <2>1. CASE r = job[j]
    BY <1>1, <2>1 DEF Accounted
  <2>2. CASE r = Written(job[j])
    BY <1>1, <2>2 DEF Written, JobSet
  <2> QED
    BY <2>1, <2>2
<1>5. CASE Generated(j)
  <2>1. PICK o : /\ job[j].pc = "generating"
                 /\ IF ~o.answers THEN UNCHANGED job
                    ELSE \E r \in Wrote(job[j], o) :
                           IF o.ok THEN Set(j, [r EXCEPT !.pc = "validating"])
                           ELSE Set(j, [Recorded(r, "failed") EXCEPT !.pc = "cleaning"])
    BY <1>5 DEF Generated
  <2>2. ~Dispatch(j)
    BY <2>1 DEF Dispatch
  <2>3. CASE UNCHANGED job
    BY <1>1, <1>3, <2>2, <2>3 DEF JobsInv
  <2>4. CASE Set(j, [Written(job[j]) EXCEPT !.pc = "validating"])
    <3> DEFINE n == [Written(job[j]) EXCEPT !.pc = "validating"]
    <3>1. n \in JobSet
      BY <1>1 DEF JobSet, Running, Written
    <3>2. /\ n.pc = "validating" /\ n.file = TRUE /\ n.store = job[j].store
          /\ n.deleted = job[j].deleted /\ (~n.keep => "output" \in n.temp)
      BY <1>1 DEF JobSet, Written
    <3>3. Accounted(n, up)
      BY <1>1, <2>1, <3>2 DEF Accounted, Creating, Running
    <3> QED
      BY <1>1, <1>3, <2>2, <2>4, <3>1, <3>3, OneJob
  <2>5. ASSUME NEW r \in {job[j], Written(job[j])},
               Set(j, [Recorded(r, "failed") EXCEPT !.pc = "cleaning"])
        PROVE  JobsInv'
    <3> DEFINE n == [Recorded(r, "failed") EXCEPT !.pc = "cleaning"]
    <3>0. /\ r \in JobSet /\ r.pc = job[j].pc /\ r.store = job[j].store
          /\ r.deleted = job[j].deleted /\ r.keep = job[j].keep /\ r.late = job[j].late
          /\ r.file /\ ~r.keep => "output" \in r.temp
      BY <1>w
    <3>1. n \in JobSet
      BY <3>0 DEF JobSet, Running, Recorded
    <3>2. /\ n.pc = "cleaning" /\ n.deleted = job[j].deleted
          /\ n.store = IF job[j].store = "absent" THEN "absent" ELSE "failed"
          /\ n.file /\ ~n.keep => "output" \in n.temp
      BY <3>0 DEF JobSet, Recorded
    <3>3. job[j].store \in {"absent", "queued"} /\ job[j].pc \in Running
      BY <1>1, <2>1 DEF Accounted, Running
    <3> QED
      BY <1>4, <2>2, <2>5, <3>1, <3>2, <3>3
  <2> QED
    <3>1. CASE ~o.answers
      BY <2>1, <2>3, <3>1
    <3>2. CASE o.answers /\ o.ok
      BY <2>1, <2>4, <3>2 DEF Wrote
    <3>3. CASE o.answers /\ ~o.ok
      BY <2>1, <2>5, <3>3 DEF Wrote
    <3> QED
      BY <3>1, <3>2, <3>3
<1>6. CASE GenerationTimeout(j)
  <2>1. PICK l \in {"no", "sent"} :
          Set(j, [Recorded(job[j], "failed") EXCEPT !.pc = "cleaning", !.late = l])
    BY <1>6 DEF GenerationTimeout
  <2>2. job[j].pc = "generating" /\ ~Dispatch(j)
    BY <1>6 DEF GenerationTimeout, Dispatch
  <2> DEFINE n == [Recorded(job[j], "failed") EXCEPT !.pc = "cleaning", !.late = l]
  <2>3. n \in JobSet
    BY <1>1 DEF JobSet, Running, Recorded
  <2>4. /\ n.pc = "cleaning" /\ n.file = job[j].file /\ n.deleted = job[j].deleted
        /\ n.store = IF job[j].store = "absent" THEN "absent" ELSE "failed"
    BY <1>1 DEF JobSet, Recorded
  <2>5. job[j].store \in {"absent", "queued"} /\ ~job[j].file /\ job[j].pc \in Running
    BY <1>1, <2>2 DEF Accounted, Running
  <2>6. n.file /\ ~n.keep => "output" \in n.temp
    BY <2>4, <2>5
  <2> QED
    BY <1>4, <2>1, <2>2, <2>3, <2>4, <2>5, <2>6
<1>7. CASE GeneratedLate(j)
  <2>1. PICK r \in {job[j], Written(job[j])} :
          /\ job[j].late = "sent"
          /\ Set(j, [r EXCEPT !.late = IF r = job[j] THEN "no" ELSE "ran"])
    BY <1>7 DEF GeneratedLate, Wrote
  <2>2. ~Dispatch(j)
    BY <1>1, <2>1 DEF Dispatch, Accounted
  <2>3. CASE r # job[j]
    <3> DEFINE n == [Written(job[j]) EXCEPT !.late = "ran"]
    <3>0. Set(j, n)
      BY <2>1, <2>3
    <3>1. n \in JobSet
      BY <1>1 DEF JobSet, Written
    <3>2. /\ n.pc = job[j].pc /\ n.file = TRUE /\ n.store = job[j].store /\ n.late = "ran"
          /\ n.deleted = job[j].deleted /\ (~n.keep => "output" \in n.temp)
      BY <1>1 DEF JobSet, Written
    <3>3. Accounted(n, up)
      <4> HIDE DEF n
      <4> QED
        BY <1>1, <2>1, <3>2 DEF Accounted
    <3> QED
      BY <1>1, <1>3, <2>2, <3>0, <3>1, <3>3, OneJob
  <2>4. CASE r = job[j]
    <3> DEFINE n == [job[j] EXCEPT !.late = "no"]
    <3>0. Set(j, n)
      BY <2>1, <2>4
    <3>1. n \in JobSet
      BY <1>1 DEF JobSet
    <3>2. Accounted(n, up)
      BY <1>1, <2>1 DEF JobSet, Accounted
    <3> QED
      BY <1>1, <1>3, <2>2, <3>0, <3>1, <3>2, OneJob
  <2> QED
    BY <2>3, <2>4
<1>8. CASE Validated(j)
  <2>1. job[j].pc = "validating" /\ ~Dispatch(j)
    BY <1>8 DEF Validated, Dispatch
  <2>2. CASE Set(j, [job[j] EXCEPT !.pc = "uploading"])
    <3> DEFINE n == [job[j] EXCEPT !.pc = "uploading"]
    <3>1. n \in JobSet
      BY <1>1 DEF JobSet, Running
    <3>2. Accounted(n, up)
      BY <1>1, <2>1 DEF JobSet, Accounted, Creating, Running
    <3> QED
      BY <1>1, <1>3, <2>1, <2>2, <3>1, <3>2, OneJob
  <2>3. ASSUME NEW stays \in BOOLEAN,
               Set(j, [Recorded(job[j], "failed") EXCEPT !.pc = "cleaning", !.file = stays])
        PROVE  JobsInv'
    <3> DEFINE n == [Recorded(job[j], "failed") EXCEPT !.pc = "cleaning", !.file = stays]
    <3>1. n \in JobSet
      BY <1>1 DEF JobSet, Running, Recorded
    <3>2. /\ n.pc = "cleaning" /\ n.deleted = job[j].deleted
          /\ n.store = IF job[j].store = "absent" THEN "absent" ELSE "failed"
          /\ n.keep = job[j].keep /\ n.temp = job[j].temp
      BY <1>1 DEF JobSet, Recorded
    <3>3. /\ job[j].store \in {"absent", "queued"} /\ job[j].pc \in Running
          /\ ~job[j].keep => "output" \in job[j].temp
      BY <1>1, <2>1 DEF Accounted, Running
    <3>4. n.file /\ ~n.keep => "output" \in n.temp
      BY <3>2, <3>3
    <3> QED
      BY <1>4, <2>1, <2>3, <3>1, <3>2, <3>3, <3>4
  <2> QED
    BY <1>8, <2>2, <2>3 DEF Validated
<1>9. CASE Uploaded(j)
  <2>1. PICK url \in {FALSE, Cloud} :
          Set(j, [Recorded(job[j], "completed") EXCEPT !.pc = "cleaning", !.url = url,
                                                      !.file = @ /\ ~url])
    BY <1>9 DEF Uploaded
  <2>2. job[j].pc = "uploading" /\ ~Dispatch(j) /\ url \in BOOLEAN
    BY <1>9, JobsAssumption DEF Uploaded, Dispatch
  <2> DEFINE n == [Recorded(job[j], "completed") EXCEPT !.pc = "cleaning", !.url = url,
                                                       !.file = @ /\ ~url]
  <2>3. n \in JobSet
    BY <1>1, <2>2 DEF JobSet, Running, Recorded
  <2>4. /\ n.pc = "cleaning" /\ n.deleted = job[j].deleted
        /\ n.store = IF job[j].store = "absent" THEN "absent" ELSE "completed"
    BY <1>1 DEF JobSet, Recorded
  <2>5. job[j].file
    BY <1>1, <2>2 DEF Accounted
  <2>6. /\ n.url \/ n.file
        /\ n.file /\ ~n.keep => "output" \in n.temp
    BY <1>1, <2>2, <2>5 DEF JobSet, Recorded, Accounted
  <2>7. Accounted(n, up)
    <3> HIDE DEF n
    <3> QED
      BY <1>1, <2>2, <2>4, <2>6 DEF Accounted, Creating, Running
  <2> QED
    BY <1>1, <1>3, <2>1, <2>2, <2>3, <2>7, OneJob
<1>10. CASE Cleaned(j)
  <2>1. PICK r \in Clean(job[j]) :
          job[j].pc = "cleaning" /\ ~Dispatch(j) /\ Set(j, [r EXCEPT !.pc = "ended"])
    BY <1>10 DEF Cleaned, Dispatch
  <2> DEFINE n == [r EXCEPT !.pc = "ended"]
  <2>2. /\ r \in JobSet /\ r.temp = r.stuck /\ r.store = job[j].store /\ r.late = job[j].late
        /\ r.deleted = job[j].deleted /\ r.url = job[j].url /\ r.keep = job[j].keep
        /\ (r.file /\ ~r.keep => "output" \in r.temp)
        /\ (job[j].file /\ job[j].keep => r.file)
    BY <1>1, CleanIs
  <2>3. /\ n.pc = "ended" /\ n.temp = n.stuck /\ n.deleted = job[j].deleted
        /\ n.store = job[j].store /\ n.url = job[j].url /\ n.keep = job[j].keep
        /\ n.late = job[j].late /\ (n.file /\ ~n.keep => "output" \in n.temp)
        /\ (job[j].file /\ job[j].keep => n.file)
    BY <2>2 DEF JobSet
  <2>4. n \in JobSet
    BY <2>2 DEF JobSet, Over
  <2>5. Accounted(n, up)
    <3> HIDE DEF n
    <3> QED
      BY <1>1, <2>1, <2>3 DEF Accounted, Creating, Running
  <2> QED
    BY <1>1, <1>3, <2>1, <2>4, <2>5, OneJob
<1> QED
  BY <1>2, <1>5, <1>6, <1>7, <1>8, <1>9, <1>10

\* shutdown_video_jobs: what becomes of a job whose task is cancelled.
LEMMA CancelledKeeps ==
  ASSUME NEW r \in JobSet, NEW u \in BOOLEAN, Accounted(r, u), r.pc \notin Creating,
         NEW n \in Cancelled(r)
  PROVE  n \in JobSet /\ Accounted(n, FALSE)
<1>1. CASE r.pc \in {"queued", "cleaning"}
  <2>1. n = [r EXCEPT !.pc = "cut"]
    BY <1>1 DEF Cancelled
  <2> QED
    BY <1>1, <2>1 DEF JobSet, Accounted, Creating, Running, Over
<1>2. CASE r.pc = "generating"
  <2>1. PICK l \in {"no", "sent"} : n = [r EXCEPT !.pc = "cleaning", !.late = l]
    BY <1>2 DEF Cancelled
  <2> QED
    BY <1>2, <2>1 DEF JobSet, Accounted, Creating, Running, Over
<1>3. CASE r.pc \in {"validating", "uploading"}
  <2>1. n = [r EXCEPT !.pc = "cleaning"]
    BY <1>3 DEF Cancelled
  <2> QED
    BY <1>3, <2>1 DEF JobSet, Accounted, Creating, Running, Over
<1>4. CASE r.pc \notin {"queued", "cleaning", "generating", "validating", "uploading"}
  <2>1. n = r
    BY <1>4 DEF Cancelled
  <2> QED
    BY <2>1 DEF Accounted
<1> QED
  BY <1>1, <1>2, <1>3, <1>4

\* For any number of jobs, with or without cloud storage: the account of a job
\* holds through deletion, timeouts and shutdown (create_video,
\* _dispatch_job_async, delete_video, shutdown_video_jobs).
THEOREM JobsStayAccounted == Spec => []JobsAccounted
<1>1. Init => JobsInv
  <2> SUFFICES ASSUME Init PROVE JobsInv
    OBVIOUS
  <2>1. job = [j \in Jobs |-> NoJob] /\ counter = 0 /\ up = TRUE
    BY DEF Init
  <2>2. NoJob \in JobSet
    BY DEF NoJob, JobSet
  <2>3. Accounted(NoJob, TRUE)
    BY DEF NoJob, Accounted, Running
  <2>4. \A j \in Jobs : job[j] = NoJob
    BY <2>1
  <2>5. \A j \in Jobs : Accounted(job[j], up)
    BY <2>1, <2>3, <2>4, Zenon
  <2>6. job \in [Jobs -> JobSet] /\ counter \in Int /\ up \in BOOLEAN
    BY <2>1, <2>2
  <2> QED
    BY <2>5, <2>6 DEF JobsInv
<1>2. JobsInv /\ [Next]_vars => JobsInv'
  <2> SUFFICES ASSUME JobsInv, [Next]_vars PROVE JobsInv'
    OBVIOUS
  <2>1. ASSUME NEW j \in Jobs,
               Create(j) \/ Saved(j) \/ SaveFails(j) \/ Enhanced(j) \/ Prepared(j)
        PROVE  JobsInv'
    BY <2>1, CreatingKeeps
  <2>2. ASSUME NEW j \in Jobs, Serves(j) \/ GeneratedLate(j)
        PROVE  JobsInv'
    BY <2>2, TaskKeeps DEF Serves
  <2>3. ASSUME NEW j \in Jobs, Delete(j) PROVE JobsInv'
    <3> DEFINE n == [job[j] EXCEPT !.store = "absent", !.deleted = TRUE]
    <3>1. job[j] \in JobSet /\ Accounted(job[j], up) /\ up' = up /\ counter' \in Int
      BY <2>3 DEF JobsInv, Delete
    <3>2. n \in JobSet
      BY <3>1 DEF JobSet
    <3>3. Accounted(n, up)
      BY <3>1, <2>3 DEF JobSet, Accounted, Delete
    <3> QED
      BY <2>3, <3>1, <3>2, <3>3, OneJob DEF Delete
  <2>4. CASE Shutdown
    <3>1. /\ DOMAIN job' = Jobs /\ job' = [j \in Jobs |-> job'[j]] /\ up' = FALSE
          /\ counter' = counter
          /\ \A j \in Jobs : job[j].pc \notin Creating /\ job'[j] \in Cancelled(job[j])
      BY <2>4 DEF Shutdown
    <3>2. \A j \in Jobs : job'[j] \in JobSet /\ Accounted(job'[j], FALSE)
      BY <3>1, CancelledKeeps DEF JobsInv
    <3> QED
      BY <3>1, <3>2 DEF JobsInv
  <2>5. CASE UNCHANGED <<job, counter, up>>
    BY <2>5 DEF JobsInv
  <2> QED
    BY <2>1, <2>2, <2>3, <2>4, <2>5 DEF Next, vars
<1>3. JobsInv => JobsAccounted
  BY DEF JobsInv, Accounted, JobsAccounted
<1> QED
  BY <1>1, <1>2, <1>3, PTL DEF Spec
=============================================================================
