-------------------------- MODULE SchedulerProofs --------------------------
(***************************************************************************)
(* Proofs about Scheduler for every set of requests and ranks and every    *)
(* batching configuration.                                                 *)
(*                                                                         *)
(* First, what the operators on queues compute, for every queue: the scan  *)
(* that builds a batch, what it leaves behind, and the slices of the       *)
(* merged output.  They are folds; CommonFacts has the induction.          *)
(*                                                                         *)
(* Then, that the ranks of a replica choose alike.  Each rank takes the    *)
(* next batch off a queue of its own without asking the others; the        *)
(* collectives of a forward pass hang for ever unless all of them took the *)
(* same.  The proof compares what each rank will have at the end of its    *)
(* turn.                                                                   *)
(***************************************************************************)
EXTENDS Scheduler, CommonFacts

\* Each fold of the scheduler as steps along the positions of the queue.
TotalStep(f, q) == [p \in (1..Len(q)) \X Nat |-> p[2] + f[q[p[1]].r]]

\* Total as the table of its partial sums.
LEMMA TotalPrefixes ==
    ASSUME NEW f \in [Requests -> Nat], NEW q \in Seq(Items)
    PROVE  /\ TotalStep(f, q) \in Steps(Len(q), Nat)
           /\ \E it : /\ Total(f, q) = it[1..Len(q)]
                      /\ Partials(it, Len(q), Nat, 0, TotalStep(f, q))
<1> DEFINE P(g) == g = [s \in SUBSET DOMAIN q |->
                          IF s = {} THEN 0 ELSE g[s \ {Max(s)}] + f[q[Max(s)].r]]
<1> DEFINE it == CHOOSE g : P(g)
<1>1. Total(f, q) = it[DOMAIN q]
  BY Zenon DEF Total, FoldLeft, MapThenFoldSet
<1>2. PICK n \in Nat : n = Len(q) /\ DOMAIN q = 1..n
  OBVIOUS
<1>3. \A i \in 1..n : f[q[i].r] \in Nat
  <2>1. \A i \in 1..n : q[i] \in Items
    BY <1>2
  <2> QED
    BY <2>1, Zenon DEF Items
<1>4. TotalStep(f, q) \in Steps(n, Nat) /\ 0 \in Nat
  BY <1>2, <1>3 DEF Steps, TotalStep
<1>5. \A s \in SUBSET (1..n) : s # {} => Max(s) \in 1..n
  BY MaxIn, Zenon
<1>6. PICK g : FoldSolution(g, n, Nat, 0, TotalStep(f, q))
  BY <1>4, FoldExists, Zenon
<1>7. P(g)
  BY <1>2, <1>5, <1>6, Zenon DEF FoldSolution, TotalStep
<1>8. P(it)
  <2> HIDE DEF P
  <2> QED
    BY <1>7, Zenon
<1>9. it = [s \in SUBSET (1..n) |->
              IF s = {} THEN 0 ELSE it[s \ {Max(s)}] + f[q[Max(s)].r]]
  BY <1>2, <1>8, Zenon
<1> HIDE DEF it
<1>10. /\ it[{}] = 0
       /\ \A s \in SUBSET (1..n) : s # {} /\ it[s \ {Max(s)}] \in Nat =>
              it[s] = TotalStep(f, q)[<<Max(s), it[s \ {Max(s)}]>>]
  BY <1>2, <1>5, <1>9, Zenon DEF TotalStep
<1>11. Partials(it, n, Nat, 0, TotalStep(f, q))
  BY <1>4, <1>10, FoldTable, Zenon
<1> QED
  BY <1>1, <1>2, <1>4, <1>11, Zenon

\* What Total is over nothing, and its type.
LEMMA TotalType ==
    ASSUME NEW f \in [Requests -> Nat], NEW q \in Seq(Items)
    PROVE  Total(f, <<>>) = 0 /\ Total(f, q) \in Nat
<1>1. <<>> \in Seq(Items) /\ Len(<<>>) = 0 /\ Len(q) \in Nat
  OBVIOUS
<1>2. PICK it : Total(f, <<>>) = it[1..0] /\ Partials(it, 0, Nat, 0, TotalStep(f, <<>>))
  BY <1>1, TotalPrefixes, Zenon
<1>3. PICK jt : Total(f, q) = jt[1..Len(q)] /\ Partials(jt, Len(q), Nat, 0, TotalStep(f, q))
  BY TotalPrefixes, Zenon
<1>4. Total(f, <<>>) = 0
  BY <1>2, Zenon DEF Partials
<1>5. Total(f, q) \in Nat
  BY <1>1, <1>3 DEF Partials
<1> QED
  BY <1>4, <1>5, Zenon

\* What one more item adds.
LEMMA TotalAppend ==
    ASSUME NEW f \in [Requests -> Nat], NEW q \in Seq(Items), NEW x \in Items
    PROVE  Total(f, Append(q, x)) = Total(f, q) + f[x.r]
<1> DEFINE r == Append(q, x)
<1>1. PICK n \in Nat, m \in Nat : n = Len(q) /\ m = Len(r) /\ m = n + 1
  OBVIOUS
<1>2. r \in Seq(Items) /\ r[m] = x /\ \A i \in 1..n : r[i] = q[i]
  BY <1>1
<1> HIDE DEF r
<1>3. PICK it : Total(f, q) = it[1..n] /\ Partials(it, n, Nat, 0, TotalStep(f, q))
  BY <1>1, TotalPrefixes, Zenon
<1>4. PICK jt : Total(f, r) = jt[1..m] /\ Partials(jt, m, Nat, 0, TotalStep(f, r))
  BY <1>1, <1>2, TotalPrefixes, Zenon
<1>5. TotalStep(f, q) \in Steps(n, Nat) /\ TotalStep(f, r) \in Steps(m, Nat) /\ 0 \in Nat
  BY <1>1, <1>2, TotalPrefixes, Zenon
<1>6. SameSteps(TotalStep(f, r), TotalStep(f, q), n, Nat)
  BY <1>1, <1>2 DEF TotalStep, SameSteps
<1>7. OneMore(jt, m, it, n, TotalStep(f, r))
  BY ONLY <1>1, <1>3, <1>4, <1>5, <1>6, FoldOneMore, m \in Nat, n \in Nat, Zenon
<1>8. it[1..n] \in Nat
  BY <1>3 DEF Partials
<1>9. TotalStep(f, r)[<<m, it[1..n]>>] = it[1..n] + f[r[m].r]
  BY <1>1, <1>8 DEF TotalStep
<1> QED
  BY <1>2, <1>3, <1>4, <1>7, <1>8, <1>9, Zenon DEF r, OneMore

\* A step of Merged, which puts the outputs of one more request behind.
MergedStep(q) == [p \in (1..Len(q)) \X Seq(Requests \X Nat) |-> p[2] \o OutputsOf(q[p[1]].r)]

\* Sequences of items with a head.
Batches == Seq(Items) \ {<<>>}
\* x is the next to join the batch b.
Joins(b, x) == ~Full(b) /\ CanBatch(Head(b), x) /\ Admitted(Append(b, x))
\* A step of the scan, which passes over what may not join.
ScanStep(t) == [p \in (1..Len(t)) \X Batches |->
                  IF Joins(p[2], t[p[1]]) THEN Append(p[2], t[p[1]]) ELSE p[2]]

\* The outputs of a request are as many as it asks for.
LEMMA OutputsAre ==
    ASSUME NEW r \in Requests
    PROVE  OutputsOf(r) \in Seq(Requests \X Nat) /\ Len(OutputsOf(r)) = Outs[r] /\ Outs[r] \in Nat
BY SchedulerAssumption DEF OutputsOf

\* Merged as the table of the outputs of each prefix.
LEMMA MergedPrefixes ==
    ASSUME NEW q \in Seq(Items)
    PROVE  /\ MergedStep(q) \in Steps(Len(q), Seq(Requests \X Nat))
           /\ \E it : /\ Merged(q) = it[1..Len(q)]
                      /\ Partials(it, Len(q), Seq(Requests \X Nat), <<>>, MergedStep(q))
<1> DEFINE P(g) == g = [s \in SUBSET DOMAIN q |->
                          IF s = {} THEN <<>>
                          ELSE g[s \ {Max(s)}] \o OutputsOf(q[Max(s)].r)]
<1> DEFINE it == CHOOSE g : P(g)
<1>1. Merged(q) = it[DOMAIN q]
  BY Zenon DEF Merged, FoldLeft, MapThenFoldSet
<1>2. PICK n \in Nat : n = Len(q) /\ DOMAIN q = 1..n
  OBVIOUS
<1>3. \A i \in 1..n : OutputsOf(q[i].r) \in Seq(Requests \X Nat)
  <2>1. \A i \in 1..n : q[i].r \in Requests
    <3>1. \A i \in 1..n : q[i] \in Items
      BY <1>2
    <3> QED
      BY <3>1, Zenon DEF Items
  <2> QED
    BY <2>1, OutputsAre, Zenon
<1>4. MergedStep(q) \in Steps(n, Seq(Requests \X Nat)) /\ <<>> \in Seq(Requests \X Nat)
  BY <1>2, <1>3 DEF Steps, MergedStep
<1>5. \A s \in SUBSET (1..n) : s # {} => Max(s) \in 1..n
  BY MaxIn, Zenon
<1>6. PICK g : FoldSolution(g, n, Seq(Requests \X Nat), <<>>, MergedStep(q))
  BY <1>4, FoldExists, Zenon
<1>7. P(g)
  BY <1>2, <1>5, <1>6, Zenon DEF FoldSolution, MergedStep
<1>8. P(it)
  <2> HIDE DEF P
  <2> QED
    BY <1>7, Zenon
<1>9. it = [s \in SUBSET (1..n) |->
              IF s = {} THEN <<>>
              ELSE it[s \ {Max(s)}] \o OutputsOf(q[Max(s)].r)]
  BY <1>2, <1>8, Zenon
<1> HIDE DEF it
<1>10. /\ it[{}] = <<>>
       /\ \A s \in SUBSET (1..n) : s # {} /\ it[s \ {Max(s)}] \in Seq(Requests \X Nat) =>
              it[s] = MergedStep(q)[<<Max(s), it[s \ {Max(s)}]>>]
  BY <1>2, <1>5, <1>9, Zenon DEF MergedStep
<1>11. Partials(it, n, Seq(Requests \X Nat), <<>>, MergedStep(q))
  BY <1>4, <1>10, FoldTable, Zenon
<1> QED
  BY <1>1, <1>2, <1>4, <1>11, Zenon

\* Compatible as the table of the batches that the scan has built.
LEMMA CompatiblePrefixes ==
    ASSUME NEW q \in Batches
    PROVE  /\ ScanStep(Tail(q)) \in Steps(Len(Tail(q)), Batches)
           /\ \E it : /\ Compatible(q) = it[1..Len(Tail(q))]
                      /\ Partials(it, Len(Tail(q)), Batches, <<Head(q)>>, ScanStep(Tail(q)))
<1> DEFINE P(g) == g = [s \in SUBSET DOMAIN Tail(q) |->
                          IF s = {} THEN <<Head(q)>>
                          ELSE IF /\ ~Full(g[s \ {Max(s)}])
                                  /\ CanBatch(Head(g[s \ {Max(s)}]), Tail(q)[Max(s)])
                                  /\ Admitted(Append(g[s \ {Max(s)}], Tail(q)[Max(s)]))
                               THEN Append(g[s \ {Max(s)}], Tail(q)[Max(s)])
                               ELSE g[s \ {Max(s)}]]
<1> DEFINE it == CHOOSE g : P(g)
<1>1. Compatible(q) = it[DOMAIN Tail(q)]
  BY Zenon DEF Compatible, FoldLeft, MapThenFoldSet
<1>2. PICK n \in Nat : n = Len(Tail(q)) /\ DOMAIN Tail(q) = 1..n
  BY Tail(q) \in Seq(Items) DEF Batches
<1>3. /\ \A i \in 1..n : Tail(q)[i] \in Items
      /\ <<Head(q)>> \in Batches
  BY <1>2 DEF Batches
<1>4. ScanStep(Tail(q)) \in Steps(n, Batches) /\ <<Head(q)>> \in Batches
  BY <1>2, <1>3 DEF Steps, ScanStep, Joins, Batches
<1>5. \A s \in SUBSET (1..n) : s # {} => Max(s) \in 1..n
  BY MaxIn, Zenon
<1>6. PICK g : FoldSolution(g, n, Batches, <<Head(q)>>, ScanStep(Tail(q)))
  BY <1>4, FoldExists, Zenon
<1>7. P(g)
  BY <1>2, <1>5, <1>6, Zenon DEF FoldSolution, ScanStep, Joins, Batches
<1>8. P(it)
  <2> HIDE DEF P
  <2> QED
    BY <1>7, Zenon
<1>9. it = [s \in SUBSET (1..n) |->
              IF s = {} THEN <<Head(q)>>
              ELSE IF /\ ~Full(it[s \ {Max(s)}])
                                  /\ CanBatch(Head(it[s \ {Max(s)}]), Tail(q)[Max(s)])
                                  /\ Admitted(Append(it[s \ {Max(s)}], Tail(q)[Max(s)]))
                               THEN Append(it[s \ {Max(s)}], Tail(q)[Max(s)])
                               ELSE it[s \ {Max(s)}]]
  BY <1>2, <1>8, ZenonT(30)
<1> HIDE DEF it
<1>10. /\ it[{}] = <<Head(q)>>
       /\ \A s \in SUBSET (1..n) : s # {} /\ it[s \ {Max(s)}] \in Batches =>
              it[s] = ScanStep(Tail(q))[<<Max(s), it[s \ {Max(s)}]>>]
  BY <1>2, <1>5, <1>9, Zenon DEF ScanStep, Joins, Batches
<1>11. Partials(it, n, Batches, <<Head(q)>>, ScanStep(Tail(q)))
  BY <1>4, <1>10, FoldTable, Zenon
<1> QED
  BY <1>1, <1>2, <1>4, <1>11, Zenon

\* What Drop is over nothing, and its type.
LEMMA DropType ==
    ASSUME NEW taken, NEW q \in Seq(Items)
    PROVE  Drop(<<>>, taken) = <<>> /\ Drop(q, taken) \in Seq(Items)
BY MinusType, Zenon DEF Drop

\* What is dropped from a queue with one more item.
LEMMA DropAppend ==
    ASSUME NEW taken, NEW q \in Seq(Items), NEW x \in Items
    PROVE  Drop(Append(q, x), taken) = IF x \in Range(taken) THEN Drop(q, taken) ELSE Append(Drop(q, taken), x)
BY MinusAppend DEF Drop

\* What Merged is over nothing, and its type.
LEMMA MergedType ==
    ASSUME NEW q \in Seq(Items)
    PROVE  Merged(<<>>) = <<>> /\ Merged(q) \in Seq(Requests \X Nat)
<1>1. <<>> \in Seq(Items) /\ Len(<<>>) = 0 /\ Len(q) \in Nat
  OBVIOUS
<1>2. PICK it : Merged(<<>>) = it[1..0] /\ Partials(it, 0, Seq(Requests \X Nat), <<>>, MergedStep(<<>>))
  BY <1>1, MergedPrefixes, Zenon
<1>3. PICK jt : Merged(q) = jt[1..Len(q)] /\ Partials(jt, Len(q), Seq(Requests \X Nat), <<>>, MergedStep(q))
  BY MergedPrefixes, Zenon
<1>4. Merged(<<>>) = <<>>
  BY <1>2, Zenon DEF Partials
<1>5. Merged(q) \in Seq(Requests \X Nat)
  BY <1>1, <1>3 DEF Partials
<1> QED
  BY <1>4, <1>5, Zenon

\* The outputs of a batch with one more item.
LEMMA MergedAppend ==
    ASSUME NEW q \in Seq(Items), NEW x \in Items
    PROVE  Merged(Append(q, x)) = Merged(q) \o OutputsOf(x.r)
<1> DEFINE r == Append(q, x)
<1>1. PICK n \in Nat, m \in Nat : n = Len(q) /\ m = Len(r) /\ m = n + 1
  OBVIOUS
<1>2. r \in Seq(Items) /\ r[m] = x /\ \A i \in 1..n : r[i] = q[i]
  BY <1>1
<1> HIDE DEF r
<1>3. PICK it : Merged(q) = it[1..n] /\ Partials(it, n, Seq(Requests \X Nat), <<>>, MergedStep(q))
  BY <1>1, MergedPrefixes, Zenon
<1>4. PICK jt : Merged(r) = jt[1..m] /\ Partials(jt, m, Seq(Requests \X Nat), <<>>, MergedStep(r))
  BY <1>1, <1>2, MergedPrefixes, Zenon
<1>5. MergedStep(q) \in Steps(n, Seq(Requests \X Nat)) /\ MergedStep(r) \in Steps(m, Seq(Requests \X Nat)) /\ <<>> \in Seq(Requests \X Nat)
  <2>1. <<>> \in Seq(Requests \X Nat)
    OBVIOUS
  <2> QED
    BY <1>1, <1>2, <2>1, MergedPrefixes, Zenon
<1>6. SameSteps(MergedStep(r), MergedStep(q), n, Seq(Requests \X Nat))
  <2> SUFFICES ASSUME NEW p \in (1..n) \X Seq(Requests \X Nat)
               PROVE  MergedStep(r)[p] = MergedStep(q)[p]
    BY Zenon DEF SameSteps
  <2>1. p[1] \in 1..n /\ p \in (1..m) \X Seq(Requests \X Nat) /\ r[p[1]] = q[p[1]]
    BY <1>1, <1>2
  <2> QED
    BY <1>1, <2>1, Zenon DEF MergedStep
<1>7. OneMore(jt, m, it, n, MergedStep(r))
  BY <1>1, <1>3, <1>4, <1>5, <1>6, FoldOneMore, Zenon
<1>8. it[1..n] \in Seq(Requests \X Nat)
  BY <1>3 DEF Partials
<1>9. MergedStep(r)[<<m, it[1..n]>>] = it[1..n] \o OutputsOf(r[m].r)
  <2> DEFINE p == <<m, it[1..n]>>
  <2>1. p[1] = m /\ p[2] = it[1..n] /\ p \in (1..m) \X Seq(Requests \X Nat)
    BY <1>1, <1>8
  <2> HIDE DEF p
  <2>2. MergedStep(r)[p] = p[2] \o OutputsOf(r[p[1]].r)
    BY <1>1, <2>1, Zenon DEF MergedStep
  <2> QED
    BY <2>1, <2>2, Zenon DEF p
<1> QED
  BY <1>2, <1>3, <1>4, <1>7, <1>8, <1>9, Zenon DEF r, OneMore

\* The batch of a queue with one more item: that item joins it or does not.
LEMMA CompatibleAppend ==
    ASSUME NEW q \in Batches, NEW x \in Items
    PROVE  /\ Compatible(<<x>>) = <<x>>
           /\ Compatible(q) \in Batches
           /\ Compatible(Append(q, x)) = IF Joins(Compatible(q), x) THEN Append(Compatible(q), x)
                                         ELSE Compatible(q)
<1>1. <<x>> \in Batches /\ Head(<<x>>) = x /\ Len(Tail(<<x>>)) = 0
  BY DEF Batches
<1>2. Compatible(<<x>>) = <<x>>
  <2>1. PICK it : /\ Compatible(<<x>>) = it[1..0]
                  /\ Partials(it, 0, Batches, <<x>>, ScanStep(Tail(<<x>>)))
    BY <1>1, CompatiblePrefixes, Zenon
  <2> QED
    BY <2>1, Zenon DEF Partials
<1> DEFINE r == Append(q, x)
<1> DEFINE t == Tail(q)
<1> DEFINE u == Tail(r)
<1>3. PICK n \in Nat, m \in Nat : n = Len(t) /\ m = Len(u) /\ m = n + 1
  BY DEF Batches
<1>4. /\ r \in Batches /\ Head(r) = Head(q) /\ u[m] = x
      /\ \A i \in 1..n : u[i] = t[i]
  BY <1>3 DEF Batches
<1> DEFINE h == <<Head(q)>>
<1>5. h \in Batches
  BY DEF Batches
<1>6. PICK it : Compatible(q) = it[1..n] /\ Partials(it, n, Batches, h, ScanStep(t))
  BY <1>3, CompatiblePrefixes, Zenon
<1>7. PICK jt : Compatible(r) = jt[1..m] /\ Partials(jt, m, Batches, h, ScanStep(u))
  <2> HIDE DEF r
  <2> QED
    BY <1>3, <1>4, CompatiblePrefixes, Zenon
<1>8. ScanStep(t) \in Steps(n, Batches) /\ ScanStep(u) \in Steps(m, Batches)
  <2> HIDE DEF r
  <2> QED
    BY <1>3, <1>4, CompatiblePrefixes, Zenon
<1> HIDE DEF r, t, u, h
<1>9. SameSteps(ScanStep(u), ScanStep(t), n, Batches)
  BY <1>3, <1>4 DEF ScanStep, SameSteps
<1>10. OneMore(jt, m, it, n, ScanStep(u))
  BY <1>3, <1>5, <1>6, <1>7, <1>8, <1>9, FoldOneMore, Zenon
<1>11. it[1..n] \in Batches
  BY <1>6 DEF Partials
<1>12. ScanStep(u)[<<m, it[1..n]>>] = IF Joins(it[1..n], u[m]) THEN Append(it[1..n], u[m])
                                      ELSE it[1..n]
  BY <1>3, <1>11 DEF ScanStep
<1>13. Compatible(r) = IF Joins(Compatible(q), x) THEN Append(Compatible(q), x) ELSE Compatible(q)
  BY <1>4, <1>6, <1>7, <1>10, <1>12, Zenon DEF OneMore
<1> QED
  BY <1>2, <1>6, <1>11, <1>13, Zenon DEF r

\* Induction over batches.
LEMMA BatchInduction ==
    ASSUME NEW P, \A x \in Items : <<x>> \in P,
           \A q \in Batches, x \in Items : q \in P => Append(q, x) \in P
    PROVE  \A q \in Batches : q \in P
<1> DEFINE Q == {q \in Seq(Items) : q # <<>> => q \in P}
<1>1. <<>> \in Q
  OBVIOUS
<1>2. ASSUME NEW q \in Seq(Items), NEW x \in Items, q \in Q PROVE Append(q, x) \in Q
  <2>1. CASE q = <<>>
    <3>1. Append(q, x) = <<x>>
      BY <2>1
    <3>2. <<x>> \in Seq(Items)
      OBVIOUS
    <3> QED
      BY <3>1, <3>2, Zenon
  <2>2. CASE q # <<>>
    <3>1. q \in Batches /\ q \in P
      BY <1>2, <2>2, Zenon DEF Batches
    <3> QED
      BY <3>1
  <2> QED
    BY <2>1, <2>2, Zenon
<1> HIDE DEF Q
<1>3. \A q \in Seq(Items) : q \in Q
  BY <1>1, <1>2, SeqInduction, Zenon
<1> QED
  BY <1>3, Zenon DEF Q, Batches

\* A batch without its first item adds up to less.
LEMMA TotalTail ==
    ASSUME NEW f \in [Requests -> Nat], NEW q \in Batches
    PROVE  Tail(q) \in Seq(Items) /\ Total(f, Tail(q)) <= Total(f, q)
<1> DEFINE P == {b \in Batches : Total(f, Tail(b)) <= Total(f, b)}
<1>1. ASSUME NEW x \in Items PROVE <<x>> \in P
  <2>1. <<x>> \in Batches /\ Tail(<<x>>) = <<>> /\ <<x>> \in Seq(Items)
    BY DEF Batches
  <2>2. Total(f, <<>>) = 0 /\ Total(f, <<x>>) \in Nat
    BY <2>1, TotalType, Zenon
  <2> QED
    BY <2>1, <2>2
<1>2. ASSUME NEW b \in Batches, NEW x \in Items, b \in P PROVE Append(b, x) \in P
  <2>1. b \in Seq(Items) /\ Tail(b) \in Seq(Items) /\ Append(b, x) \in Batches
    BY DEF Batches
  <2>2. Tail(Append(b, x)) = Append(Tail(b), x)
    BY DEF Batches
  <2>3. /\ Total(f, Append(b, x)) = Total(f, b) + f[x.r] /\ Total(f, b) \in Nat
        /\ Total(f, Append(Tail(b), x)) = Total(f, Tail(b)) + f[x.r] /\ Total(f, Tail(b)) \in Nat
    BY <2>1, TotalType, TotalAppend, Zenon
  <2>4. f[x.r] \in Nat
    BY Zenon DEF Items
  <2>5. Total(f, Tail(b)) <= Total(f, b)
    BY <1>2, Zenon
  <2>6. Total(f, Append(Tail(b), x)) <= Total(f, Append(b, x))
    BY <2>3, <2>4, <2>5
  <2>7. Total(f, Tail(Append(b, x))) <= Total(f, Append(b, x))
    BY <2>2, <2>6, Zenon
  <2> QED
    BY <2>1, <2>7, Zenon
<1> HIDE DEF P
<1>3. \A b \in Batches : b \in P
  BY <1>1, <1>2, BatchInduction, Zenon
<1> QED
  BY <1>3 DEF P, Batches

\* An item that may not join a batch may not join it once it has grown.
LEMMA StaysRefused ==
    ASSUME NEW b \in Batches, NEW x \in Items, NEW y \in Items, ~Joins(b, x)
    PROVE  ~Joins(Append(b, y), x)
<1>1. Outs \in [Requests -> Nat] /\ Cost \in [Requests -> Nat] /\ {MaxSize, Limit, MaxCost} \subseteq Nat
  BY SchedulerAssumption, Zenon
<1>2. /\ b \in Seq(Items) /\ Append(b, y) \in Seq(Items) /\ Append(b, x) \in Seq(Items)
      /\ Head(Append(b, y)) = Head(b) /\ Head(b) \in Items
      /\ Len(Append(b, y)) = Len(b) + 1 /\ Len(b) \in Nat
  BY DEF Batches
<1>3. x.r \in Requests /\ y.r \in Requests /\ Head(b).r \in Requests
  BY <1>2, Zenon DEF Items
<1>4. ASSUME NEW f \in [Requests -> Nat]
      PROVE  /\ Total(f, b) \in Nat /\ f[x.r] \in Nat /\ f[y.r] \in Nat /\ f[Head(b).r] \in Nat
             /\ Total(f, Append(b, x)) = Total(f, b) + f[x.r]
             /\ Total(f, Append(b, y)) = Total(f, b) + f[y.r]
             /\ Total(f, Append(b, Head(b))) = Total(f, b) + f[Head(b).r]
             /\ Total(f, Append(Append(b, y), x)) = Total(f, b) + f[y.r] + f[x.r]
             /\ Total(f, Append(Append(b, y), Head(b))) = Total(f, b) + f[y.r] + f[Head(b).r]
  BY <1>2, <1>3, TotalType, TotalAppend, ZenonT(30)
<1>5. Full(b) => Full(Append(b, y))
  <2>1. Len(b) >= MaxSize => Len(Append(b, y)) >= MaxSize
    BY <1>1, <1>2
  <2>2. Total(Outs, b) >= Limit => Total(Outs, Append(b, y)) >= Limit
    BY <1>1, <1>4
  <2>3. Total(Cost, Append(b, Head(b))) > MaxCost =>
          Total(Cost, Append(Append(b, y), Head(b))) > MaxCost
    BY <1>1, <1>4
  <2> QED
    BY <1>2, <2>1, <2>2, <2>3, Zenon DEF Full
<1>6. Admitted(Append(Append(b, y), x)) => Admitted(Append(b, x))
  BY <1>1, <1>4 DEF Admitted
<1> QED
  BY <1>2, <1>5, <1>6, Zenon DEF Joins

\* The requests of a queue, warmups aside, are in the order pos gives them.
InOrder(pos, q) ==
    \A i, j \in 1..Len(q) :
        i < j /\ ~q[i].warm /\ ~q[j].warm => pos[q[i].r] < pos[q[j].r]

\* What the admission control promises of a batch.
WellFormed(b) ==
    Len(b) > 1 => /\ \A i \in 1..Len(b) : CanBatch(b[1], b[i])
                  /\ Len(b) <= MaxSize
                  /\ Total(Outs, b) <= Limit
                  /\ Total(Cost, b) <= MaxCost

\* A queue in order and one more item: in order if all come before it.
LEMMA InOrderAppend ==
    ASSUME NEW pos \in [Requests -> Nat], NEW q \in Seq(Items), NEW x \in Items
    PROVE  InOrder(pos, Append(q, x)) <=>
             /\ InOrder(pos, q)
             /\ ~x.warm => \A y \in Range(q) : ~y.warm => pos[y.r] < pos[x.r]
<1> DEFINE r == Append(q, x)
<1>1. PICK n \in Nat : n = Len(q) /\ Len(r) = n + 1 /\ DOMAIN q = 1..n
  OBVIOUS
<1>2. r[n + 1] = x /\ \A i \in 1..n : r[i] = q[i]
  BY <1>1
<1>3. \A i \in 1..(n + 1) : i \in 1..n \/ i = n + 1
  OBVIOUS
<1>4. \A y : y \in Range(q) <=> \E i \in 1..n : y = q[i]
  BY <1>1, Zenon DEF Range
<1> HIDE DEF r
<1>5. ASSUME InOrder(pos, r)
      PROVE  /\ InOrder(pos, q)
             /\ ~x.warm => \A y \in Range(q) : ~y.warm => pos[y.r] < pos[x.r]
  <2>1. InOrder(pos, q)
    BY <1>1, <1>2, <1>5 DEF InOrder
  <2>2. ASSUME ~x.warm, NEW y \in Range(q), ~y.warm PROVE pos[y.r] < pos[x.r]
    <3>1. PICK i \in 1..n : y = q[i]
      BY <1>4, Zenon
    <3>2. i \in 1..(n + 1) /\ n + 1 \in 1..(n + 1) /\ i < n + 1
      OBVIOUS
    <3> QED
      BY <1>1, <1>2, <1>5, <2>2, <3>1, <3>2, Zenon DEF InOrder
  <2> QED
    BY <2>1, <2>2, Zenon
<1>6. ASSUME InOrder(pos, q),
             ~x.warm => \A y \in Range(q) : ~y.warm => pos[y.r] < pos[x.r]
      PROVE  InOrder(pos, r)
  <2> SUFFICES ASSUME NEW i \in 1..(n + 1), NEW j \in 1..(n + 1), i < j, ~r[i].warm, ~r[j].warm
               PROVE  pos[r[i].r] < pos[r[j].r]
    BY <1>1, Zenon DEF InOrder
  <2>1. i \in 1..n /\ r[i] = q[i]
    BY <1>2
  <2>2. CASE j \in 1..n
    BY <1>1, <1>2, <1>6, <2>1, <2>2, Zenon DEF InOrder
  <2>3. CASE j = n + 1
    BY <1>2, <1>4, <1>6, <2>1, <2>3, Zenon
  <2> QED
    BY <1>3, <2>2, <2>3, Zenon
<1> QED
  BY <1>5, <1>6, Zenon DEF r

\* Compatible requests of the same size; a batch b of the queue q takes none
\* of them before one that came earlier.
Similar(x, y) == CanBatch(x, y) /\ Outs[x.r] = Outs[y.r] /\ Cost[x.r] = Cost[y.r]
\* No item of q that was left had come before a similar one that was taken.
TakesFirst(pos, q, b) ==
    \A x, y \in Range(q) :
        Similar(x, y) /\ pos[x.r] < pos[y.r] /\ y \in Range(b) => x \in Range(b)

\* What Compatible makes of a queue.
CompatibleSpec(pos, q, b) ==
    /\ b \in Batches /\ Head(b) = Head(q) /\ Range(b) \subseteq Range(q)
    /\ WellFormed(b)
    /\ InOrder(pos, q) => InOrder(pos, b) /\ TakesFirst(pos, q, b)
    /\ \A x \in Range(q) \ Range(b) : ~Joins(b, x)

\* A queue of one item.
LEMMA CompatibleOne ==
    ASSUME NEW pos \in [Requests -> Nat], NEW x \in Items
    PROVE  CompatibleSpec(pos, <<x>>, Compatible(<<x>>))
<1>1. Compatible(<<x>>) = <<x>> /\ <<x>> \in Batches /\ Len(<<x>>) = 1
  <2>1. <<x>> \in Batches
    BY DEF Batches
  <2> QED
    BY <2>1, CompatibleAppend, Zenon
<1>2. InOrder(pos, <<x>>) /\ WellFormed(<<x>>)
  BY <1>1 DEF InOrder, WellFormed
<1> QED
  BY <1>1, <1>2, Zenon DEF CompatibleSpec, TakesFirst

\* A batch that grows by an item that may join it is still well formed.
LEMMA JoinWellFormed ==
    ASSUME NEW b \in Batches, NEW x \in Items, WellFormed(b), Joins(b, x)
    PROVE  WellFormed(Append(b, x))
<1> DEFINE c == Append(b, x)
<1>1. PICK n \in Nat : n = Len(b) /\ n >= 1 /\ Len(c) = n + 1
  BY DEF Batches
<1>2. /\ c[n + 1] = x /\ c[1] = b[1] /\ Head(b) = b[1]
      /\ \A i \in 1..n : c[i] = b[i]
  BY <1>1 DEF Batches
<1>3. ~Full(b) /\ CanBatch(b[1], x) /\ Admitted(c)
  BY <1>2, Zenon DEF Joins
<1> HIDE DEF c
<1>4. n < MaxSize /\ MaxSize \in Nat
  BY <1>1, <1>3, SchedulerAssumption DEF Full
<1>5. \A i \in 1..(n + 1) : CanBatch(c[1], c[i])
  <2> SUFFICES ASSUME NEW i \in 1..(n + 1) PROVE CanBatch(c[1], c[i])
    BY Zenon
  <2>1. CASE i = n + 1
    BY <1>2, <1>3, <2>1, Zenon
  <2>2. CASE i \in 1..n /\ n > 1
    BY <1>1, <1>2, <2>2, Zenon DEF WellFormed
  <2>3. CASE i = 1
    BY <1>2, <1>3, <2>3, Zenon DEF CanBatch
  <2> QED
    BY <1>1, <2>1, <2>2, <2>3
<1> QED
  BY <1>1, <1>3, <1>4, <1>5 DEF WellFormed, Admitted, c

\* What joins a batch is joined by what is similar to it.
LEMMA SimilarJoins ==
    ASSUME NEW b \in Batches, NEW x \in Items, NEW y \in Items, Joins(b, y), Similar(x, y)
    PROVE  Joins(b, x)
<1>1. Outs \in [Requests -> Nat] /\ Cost \in [Requests -> Nat] /\ b \in Seq(Items)
  BY SchedulerAssumption, Zenon DEF Batches
<1>2. /\ Total(Outs, Append(b, x)) = Total(Outs, b) + Outs[x.r]
      /\ Total(Outs, Append(b, y)) = Total(Outs, b) + Outs[y.r]
      /\ Total(Cost, Append(b, x)) = Total(Cost, b) + Cost[x.r]
      /\ Total(Cost, Append(b, y)) = Total(Cost, b) + Cost[y.r]
  BY <1>1, TotalAppend, Zenon
<1>3. Admitted(Append(b, y)) => Admitted(Append(b, x))
  BY <1>2, Zenon DEF Admitted, Similar
<1> QED
  BY <1>3, Zenon DEF Joins, Similar, CanBatch

\* What comes last in a queue in order comes before nothing similar in it.
LEMMA ComesLast ==
    ASSUME NEW pos \in [Requests -> Nat], NEW q \in Seq(Items), NEW x \in Items,
           ~x.warm => \A y \in Range(q) : ~y.warm => pos[y.r] < pos[x.r],
           NEW v \in Range(q), Similar(x, v), pos[x.r] < pos[v.r]
    PROVE  FALSE
<1>1. ~x.warm /\ ~v.warm
  BY Zenon DEF Similar, CanBatch
<1>2. v \in Items
  BY DEF Range
<1>3. pos[x.r] \in Nat /\ pos[v.r] \in Nat
  BY <1>2, Zenon DEF Items
<1> QED
  BY <1>1, <1>3

\* One more item at the end of the queue.
LEMMA CompatibleMore ==
    ASSUME NEW pos \in [Requests -> Nat], NEW q \in Batches, NEW x \in Items,
           CompatibleSpec(pos, q, Compatible(q))
    PROVE  CompatibleSpec(pos, Append(q, x), Compatible(Append(q, x)))
<1> DEFINE r == Append(q, x)
<1>1. PICK b \in Batches : b = Compatible(q)
  BY CompatibleAppend, Zenon
<1>2. Compatible(r) = IF Joins(b, x) THEN Append(b, x) ELSE b
  BY <1>1, CompatibleAppend, Zenon
<1>3. q \in Seq(Items) /\ b \in Seq(Items) /\ r \in Batches /\ Head(r) = Head(q)
  BY DEF Batches
<1>4. Range(r) = Range(q) \cup {x}
  BY <1>3, RangeAppend, Zenon
<1>5. ASSUME InOrder(pos, r)
      PROVE  InOrder(pos, q) /\ (~x.warm => \A y \in Range(q) : ~y.warm => pos[y.r] < pos[x.r])
  BY <1>3, <1>5, InOrderAppend, Zenon
<1> HIDE DEF r
<1> SUFFICES CompatibleSpec(pos, r, Compatible(r))
  BY Zenon DEF r
<1>6. CASE ~Joins(b, x)
  <2>1. ASSUME InOrder(pos, r) PROVE TakesFirst(pos, r, b)
    <3> SUFFICES ASSUME NEW u \in Range(r), NEW v \in Range(r), Similar(u, v),
                        pos[u.r] < pos[v.r], v \in Range(b)
                 PROVE  u \in Range(b)
      BY Zenon DEF TakesFirst
    <3>1. v \in Range(q) /\ TakesFirst(pos, q, b)
      BY <1>1, <1>5, <2>1, Zenon DEF CompatibleSpec
    <3>2. u # x
      BY <1>3, <1>5, <2>1, <3>1, ComesLast, Zenon
    <3> QED
      BY <1>4, <3>1, <3>2, Zenon DEF TakesFirst
  <2> QED
    BY <2>1, <1>1, <1>2, <1>3, <1>4, <1>5, <1>6, Zenon DEF CompatibleSpec
<1>7. CASE Joins(b, x)
  <2> DEFINE c == Append(b, x)
  <2>1. c \in Batches /\ Head(c) = Head(b)
    BY DEF Batches
  <2>2. Range(c) = Range(b) \cup {x}
    BY <1>3, RangeAppend, Zenon
  <2>3. WellFormed(c)
    BY <1>1, <1>7, JoinWellFormed, Zenon DEF CompatibleSpec
  <2>4. ASSUME InOrder(pos, r) PROVE InOrder(pos, c)
    <3>1. InOrder(pos, b) /\ (~x.warm => \A y \in Range(b) : ~y.warm => pos[y.r] < pos[x.r])
      BY <1>1, <1>5, <2>4, Zenon DEF CompatibleSpec
    <3> QED
      BY <1>3, <3>1, InOrderAppend, Zenon
  <2>5. ASSUME InOrder(pos, r) PROVE TakesFirst(pos, r, c)
    <3> SUFFICES ASSUME NEW u \in Range(r), NEW v \in Range(r), Similar(u, v),
                        pos[u.r] < pos[v.r], v \in Range(c), u # x
                 PROVE  u \in Range(b)
      BY <2>2, Zenon DEF TakesFirst
    <3>1. u \in Range(q) /\ u \in Items
      <4>1. u \in Range(q)
        BY <1>4, Zenon
      <4> QED
        BY <1>3, <4>1 DEF Range
    <3>2. CASE v \in Range(b)
      <4>1. v \in Range(q) /\ TakesFirst(pos, q, b)
        BY <1>1, <1>5, <2>5, <3>2, Zenon DEF CompatibleSpec
      <4> QED
        BY <3>1, <3>2, <4>1, Zenon DEF TakesFirst
    <3>3. CASE v = x
      <4>1. Joins(b, u)
        BY <1>7, <3>1, <3>3, SimilarJoins, Zenon
      <4> QED
        BY <1>1, <3>1, <4>1, Zenon DEF CompatibleSpec
    <3> QED
      BY <2>2, <3>2, <3>3, Zenon
  <2>6. ASSUME NEW y \in Range(r) \ Range(c) PROVE ~Joins(c, y)
    <3>1. y \in Range(q) \ Range(b)
      BY <1>4, <2>2, Zenon
    <3>2. ~Joins(b, y)
      BY <1>1, <3>1, Zenon DEF CompatibleSpec
    <3>3. y \in Items
      BY <1>3, <3>1 DEF Range
    <3> QED
      BY <3>2, <3>3, StaysRefused, Zenon
  <2>7. Compatible(r) = c
    BY <1>2, <1>7, Zenon
  <2> HIDE DEF c
  <2> QED
    BY <1>1, <1>3, <1>4, <2>1, <2>2, <2>3, <2>4, <2>6, <2>7, <2>5, Zenon DEF CompatibleSpec
<1> QED
  BY <1>6, <1>7, Zenon

\* The batch that the scan builds, for every queue.
LEMMA CompatibleIs ==
    ASSUME NEW pos \in [Requests -> Nat], NEW q \in Batches
    PROVE  CompatibleSpec(pos, q, Compatible(q))
<1> DEFINE P == {b \in Batches : CompatibleSpec(pos, b, Compatible(b))}
<1>1. ASSUME NEW x \in Items PROVE <<x>> \in P
  <2>1. <<x>> \in Batches
    BY DEF Batches
  <2> QED
    BY <2>1, CompatibleOne, Zenon
<1>2. ASSUME NEW b \in Batches, NEW x \in Items, b \in P PROVE Append(b, x) \in P
  <2>1. Append(b, x) \in Batches
    BY DEF Batches
  <2> QED
    BY <1>2, <2>1, CompatibleMore, Zenon
<1> HIDE DEF P
<1>3. \A b \in Batches : b \in P
  BY <1>1, <1>2, BatchInduction, Zenon
<1> QED
  BY <1>3, Zenon DEF P

\* What Drop leaves of a queue.
DropSpec(pos, q, taken, rest) ==
    /\ rest \in Seq(Items)
    /\ Range(rest) = Range(q) \ Range(taken)
    /\ InOrder(pos, q) => InOrder(pos, rest)

\* What is left of a queue, for every queue.
LEMMA DropIs ==
    ASSUME NEW pos \in [Requests -> Nat], NEW q \in Seq(Items), NEW taken
    PROVE  DropSpec(pos, q, taken, Drop(q, taken))
<1> DEFINE P == {s \in Seq(Items) : DropSpec(pos, s, taken, Drop(s, taken))}
<1>1. <<>> \in P
  <2>1. Drop(<<>>, taken) = <<>> /\ <<>> \in Seq(Items) /\ Len(<<>>) = 0
    BY DropType
  <2>2. DropSpec(pos, <<>>, taken, <<>>)
    BY <2>1 DEF DropSpec, InOrder, Range
  <2> QED
    BY <2>1, <2>2, Zenon
<1>2. ASSUME NEW s \in Seq(Items), NEW x \in Items, s \in P PROVE Append(s, x) \in P
  <2>1. PICK d \in Seq(Items) : d = Drop(s, taken)
    BY DropType, Zenon
  <2>2. DropSpec(pos, s, taken, d)
    BY <1>2, <2>1, Zenon
  <2>3. Drop(Append(s, x), taken) = IF x \in Range(taken) THEN d ELSE Append(d, x)
    BY <2>1, DropAppend, Zenon
  <2>4. Range(Append(s, x)) = Range(s) \cup {x} /\ Range(Append(d, x)) = Range(d) \cup {x}
    BY RangeAppend, Zenon
  <2>5. InOrder(pos, Append(s, x)) <=>
             /\ InOrder(pos, s)
             /\ ~x.warm => \A y \in Range(s) : ~y.warm => pos[y.r] < pos[x.r]
    BY InOrderAppend, Zenon
  <2>6. InOrder(pos, Append(d, x)) <=>
             /\ InOrder(pos, d)
             /\ ~x.warm => \A y \in Range(d) : ~y.warm => pos[y.r] < pos[x.r]
    BY InOrderAppend, Zenon
  <2>7. Append(s, x) \in Seq(Items) /\ Append(d, x) \in Seq(Items)
    OBVIOUS
  <2>8. CASE x \in Range(taken)
    BY <2>1, <2>2, <2>3, <2>4, <2>5, <2>7, <2>8, Zenon DEF DropSpec
  <2>9. CASE x \notin Range(taken)
    <3>1. DropSpec(pos, Append(s, x), taken, Append(d, x))
      BY <2>2, <2>4, <2>5, <2>6, <2>7, <2>9, Zenon DEF DropSpec
    <3> QED
      BY <2>3, <2>7, <2>9, <3>1, Zenon
  <2> QED
    BY <2>8, <2>9, Zenon
<1> HIDE DEF P
<1>3. \A s \in Seq(Items) : s \in P
  BY <1>1, <1>2, SeqInduction, Zenon
<1> QED
  BY <1>3, Zenon DEF P

\* The slice of request i lies within the merged output and is its own.
SliceRight(q, out, i) ==
    LET start == Total(Outs, SubSeq(q, 1, i - 1))
    IN /\ start \in Nat /\ start + Outs[q[i].r] <= Len(out)
       /\ SubSeq(out, start + 1, start + Outs[q[i].r]) = OutputsOf(q[i].r)

\* The slice of each request starts after the outputs of those before it.
MergedSpec(q, out) ==
    /\ out \in Seq(Requests \X Nat) /\ Len(out) = Total(Outs, q)
    /\ \A i \in 1..Len(q) : SliceRight(q, out, i)

\* One more request: its outputs come last and the slices of the others stay.
LEMMA MergedMore ==
    ASSUME NEW q \in Seq(Items), NEW x \in Items, MergedSpec(q, Merged(q))
    PROVE  MergedSpec(Append(q, x), Merged(Append(q, x)))
<1>1. PICK m \in Seq(Requests \X Nat) : m = Merged(q)
  BY MergedType, Zenon
<1>2. PICK o \in Seq(Requests \X Nat) : o = OutputsOf(x.r) /\ Len(o) = Outs[x.r] /\ Outs[x.r] \in Nat
  BY OutputsAre, Zenon DEF Items
<1>3. Merged(Append(q, x)) = m \o o
  BY <1>1, <1>2, MergedAppend, Zenon
<1>4. PICK n \in Nat : n = Len(q) /\ Len(m) = Total(Outs, q) /\ Len(m) \in Nat
  BY <1>1 DEF MergedSpec
<1> DEFINE r == Append(q, x)
<1> DEFINE out == m \o o
<1>5. r \in Seq(Items) /\ Len(r) = n + 1 /\ r[n + 1] = x /\ \A i \in 1..n : r[i] = q[i]
  BY <1>4
<1>6. out \in Seq(Requests \X Nat) /\ Len(out) = Len(m) + Outs[x.r]
  BY <1>2
<1>7. Total(Outs, r) = Total(Outs, q) + Outs[x.r]
  BY TotalAppend, SchedulerAssumption, Zenon
<1>8. ASSUME NEW i \in 1..n PROVE SliceRight(r, out, i)
  <2> DEFINE start == Total(Outs, SubSeq(q, 1, i - 1))
  <2>1. SubSeq(r, 1, i - 1) = SubSeq(q, 1, i - 1)
    <3>1. i - 1 \in 0..Len(q)
      BY <1>4
    <3> QED
      BY <3>1, SubSeqAppend, ZenonT(30)
  <2>2. /\ start \in Nat /\ start + Outs[q[i].r] <= Len(m)
        /\ SubSeq(m, start + 1, start + Outs[q[i].r]) = OutputsOf(q[i].r)
    BY <1>1, <1>4, Zenon DEF MergedSpec, SliceRight
  <2>3. Outs[q[i].r] \in Nat
    <3>1. q[i] \in Items
      BY <1>4
    <3> QED
      BY <3>1, OutputsAre, Zenon DEF Items
  <2> HIDE DEF start
  <2>4. start + Outs[q[i].r] \in Nat
    <3>1. \A a, b \in Nat : a + b \in Nat
      OBVIOUS
    <3> QED
      BY <2>2, <2>3, <3>1, Zenon
  <2>5. SubSeq(out, start + 1, start + Outs[q[i].r]) = SubSeq(m, start + 1, start + Outs[q[i].r])
    BY <2>2, <2>4, SubSeqLeft
  <2>6. start + Outs[q[i].r] <= Len(out)
    BY <1>2, <1>4, <1>6, <2>2, <2>4
  <2>7. r[i] = q[i] /\ Total(Outs, SubSeq(r, 1, i - 1)) = start
    BY <1>5, <2>1, Zenon DEF start
  <2> HIDE DEF r, out
  <2> QED
    BY <2>2, <2>5, <2>6, <2>7, Zenon DEF SliceRight
<1>9. SliceRight(r, out, n + 1)
  <2>1. SubSeq(r, 1, (n + 1) - 1) = q
    <3>1. n \in 0..Len(q) /\ (n + 1) - 1 = n
      BY <1>4
    <3>2. SubSeq(r, 1, n) = SubSeq(q, 1, n) /\ SubSeq(q, 1, Len(q)) = q
      BY <3>1, SubSeqAppend, Zenon
    <3> QED
      BY <1>4, <3>1, <3>2, Zenon
  <2>2. SubSeq(out, Len(m) + 1, Len(m) + Outs[x.r]) = o
    BY <1>2, SubSeqRight, Zenon
  <2>3. Total(Outs, SubSeq(r, 1, (n + 1) - 1)) = Len(m)
    BY <1>4, <2>1, Zenon
  <2> HIDE DEF r, out
  <2>4. Len(m) + Outs[x.r] <= Len(out)
    BY <1>2, <1>4, <1>6
  <2>5. r[n + 1] = x /\ OutputsOf(x.r) = o
    BY <1>2, <1>5, Zenon
  <2> QED
    BY <1>4, <2>2, <2>3, <2>4, <2>5, Zenon DEF SliceRight
<1> HIDE DEF r, out
<1>10. MergedSpec(r, out)
  <2>1. \A i \in 1..Len(r) : i \in 1..n \/ i = n + 1
    BY <1>5
  <2> QED
    BY <1>4, <1>5, <1>6, <1>7, <1>8, <1>9, <2>1, Zenon DEF MergedSpec
<1> QED
  BY <1>3, <1>10, Zenon DEF r, out

\* _split_batched_output gives every request of a batch its own outputs.
LEMMA SplitIs ==
    ASSUME NEW q \in Seq(Items)
    PROVE  \A i \in 1..Len(q) : Split(q)[i] = OutputsOf(q[i].r)
<1> DEFINE P == {s \in Seq(Items) : MergedSpec(s, Merged(s))}
<1>1. <<>> \in P
  <2>1. Merged(<<>>) = <<>> /\ Total(Outs, <<>>) = 0 /\ <<>> \in Seq(Items)
    <3>1. <<>> \in Seq(Items) /\ Outs \in [Requests -> Nat]
      BY SchedulerAssumption
    <3> QED
      BY <3>1, MergedType, TotalType, Zenon
  <2>2. MergedSpec(<<>>, <<>>)
    BY <2>1 DEF MergedSpec
  <2> QED
    BY <2>1, <2>2, Zenon
<1>2. ASSUME NEW s \in Seq(Items), NEW x \in Items, s \in P PROVE Append(s, x) \in P
  BY <1>2, MergedMore
<1> HIDE DEF P
<1>3. \A s \in Seq(Items) : s \in P
  BY <1>1, <1>2, SeqInduction, Zenon
<1>4. MergedSpec(q, Merged(q))
  BY <1>3, Zenon DEF P
<1> SUFFICES ASSUME NEW i \in 1..Len(q) PROVE Split(q)[i] = OutputsOf(q[i].r)
  BY Zenon
<1>5. SliceRight(q, Merged(q), i)
  BY <1>4, Zenon DEF MergedSpec
<1>6. SplitAt(q, Merged(q), i) = OutputsOf(q[i].r)
  BY <1>5, Zenon DEF SliceRight, SplitAt
<1> QED
  BY <1>6, Zenon DEF Split

-----------------------------------------------------------------------------
\* The place of a request in the order of arrival.
PosOf(a) == [r \in Requests |-> IF \E i \in 1..Len(a) : a[i] = r
                                THEN CHOOSE i \in 1..Len(a) : a[i] = r ELSE 0]

\* No request has been overtaken by a similar one that came after it.
NoneOvertaken(a, q) ==
    \A r, s \in Range(a) :
        /\ Similar(Item(r), Item(s)) /\ PosOf(a)[r] < PosOf(a)[s]
        /\ Item(r) \in Range(q)
        => Item(s) \in Range(q)

\* What holds of the queue q and the batch b of a rank, given the arrivals a.
RankOK(a, q, b) ==
    /\ q \in Seq(Items) /\ b \in Seq(Items)
    /\ InOrder(PosOf(a), q) /\ InOrder(PosOf(a), b)
    /\ Range(q) \cap Range(b) = {}
    /\ \A x \in Range(q) \cup Range(b) : x.r \in Range(a)
    /\ WellFormed(b)
    /\ NoneOvertaken(a, q)

\* Nothing is twice in a sequence.
Once(s) == \A i, j \in 1..Len(s) : s[i] = s[j] => i = j

\* The places of requests that came once each.
LEMMA PosIs ==
    ASSUME NEW a \in Seq(Requests), \A i, j \in 1..Len(a) : a[i] = a[j] => i = j
    PROVE  /\ PosOf(a) \in [Requests -> Nat]
           /\ \A i \in 1..Len(a) : PosOf(a)[a[i]] = i
           /\ \A r \in Range(a) : PosOf(a)[r] \in 1..Len(a) /\ a[PosOf(a)[r]] = r
<1>1. ASSUME NEW r \in Requests, NEW i \in 1..Len(a), a[i] = r
      PROVE  (CHOOSE j \in 1..Len(a) : a[j] = r) = i
  <2>1. \A j \in 1..Len(a) : a[j] = r => j = i
    BY <1>1, Zenon
  <2> QED
    BY <1>1, <2>1, Zenon
<1>2. \A i \in 1..Len(a) : PosOf(a)[a[i]] = i
  BY <1>1 DEF PosOf
<1>3. ASSUME NEW r \in Requests PROVE PosOf(a)[r] \in Nat
  <2>1. CASE \E i \in 1..Len(a) : a[i] = r
    BY <1>2, <2>1
  <2>2. CASE ~\E i \in 1..Len(a) : a[i] = r
    BY <2>2, Zenon DEF PosOf
  <2> QED
    BY <2>1, <2>2, Zenon
<1>4. PosOf(a) \in [Requests -> Nat]
  BY <1>3, Zenon DEF PosOf
<1>5. \A r \in Range(a) : \E i \in 1..Len(a) : a[i] = r
  BY DEF Range
<1> QED
  BY <1>2, <1>4, <1>5

\* What the next batch of a queue is.
NextSpec(pos, q, b) ==
    /\ b \in Batches /\ Range(b) \subseteq Range(q) /\ WellFormed(b)
    /\ InOrder(pos, q) => InOrder(pos, b) /\ TakesFirst(pos, q, b)

\* The batch that is taken: what the scan builds, or the head alone.
LEMMA NextBatchIs ==
    ASSUME NEW pos \in [Requests -> Nat], NEW q \in Batches
    PROVE  NextSpec(pos, q, NextBatch(q))
<1>1. CASE Batchable(q)
  <2>1. CompatibleSpec(pos, q, Compatible(q))
    BY CompatibleIs, Zenon
  <2> QED
    BY <1>1, <2>1, Zenon DEF NextBatch, NextSpec, CompatibleSpec
<1>2. CASE ~Batchable(q)
  <2> DEFINE b == <<Head(q)>>
  <2>1. NextBatch(q) = b
    BY <1>2, Zenon DEF NextBatch
  <2>2. b \in Batches /\ Len(b) = 1 /\ b[1] = q[1] /\ 1 \in 1..Len(q) /\ DOMAIN q = 1..Len(q)
    BY DEF Batches
  <2>3. Range(b) = {q[1]}
    BY <2>2 DEF Range
  <2>4. q[1] \in Range(q)
    BY <2>2, Zenon DEF Range
  <2>5. InOrder(pos, b) /\ WellFormed(b)
    BY <2>2 DEF InOrder, WellFormed
  <2>6. ASSUME InOrder(pos, q) PROVE TakesFirst(pos, q, b)
    <3> SUFFICES ASSUME NEW x \in Range(q), Similar(x, q[1]), pos[x.r] < pos[q[1].r]
                 PROVE  FALSE
      BY <2>3, Zenon DEF TakesFirst
    <3>1. PICK i \in 1..Len(q) : x = q[i]
      BY <2>2, Zenon DEF Range
    <3>2. ~x.warm /\ ~q[1].warm
      BY Zenon DEF Similar, CanBatch
    <3>3. q[1] \in Items /\ x \in Items
      BY <2>2, <3>1 DEF Batches
    <3>4. pos[x.r] \in Nat /\ pos[q[1].r] \in Nat
      BY <3>3, Zenon DEF Items
    <3>5. i # 1
      BY <3>1, <3>4
    <3>6. pos[q[1].r] < pos[x.r]
      BY <2>2, <2>6, <3>1, <3>2, <3>5 DEF InOrder, Batches
    <3> QED
      BY <3>4, <3>6
  <2> HIDE DEF b
  <2> QED
    BY <2>1, <2>2, <2>3, <2>4, <2>5, <2>6, Zenon DEF NextSpec
<1> QED
  BY <1>1, <1>2, Zenon

\* A rank that takes its next batch.
LEMMA RankSelects ==
    ASSUME NEW a \in Seq(Requests), \A i, j \in 1..Len(a) : a[i] = a[j] => i = j,
           NEW q \in Batches, RankOK(a, q, <<>>)
    PROVE  /\ RankOK(a, Drop(q, NextBatch(q)), NextBatch(q))
           /\ NextBatch(q) # <<>>
           /\ Range(Drop(q, NextBatch(q))) \cup Range(NextBatch(q)) = Range(q)
<1> DEFINE pos == PosOf(a)
<1> DEFINE b == NextBatch(q)
<1> DEFINE d == Drop(q, b)
<1>1. pos \in [Requests -> Nat]
  BY PosIs, Zenon
<1> HIDE DEF pos
<1>2. NextSpec(pos, q, b)
  BY <1>1, NextBatchIs, Zenon
<1>3. DropSpec(pos, q, b, d)
  BY <1>1, DropIs, Zenon DEF Batches
<1> HIDE DEF b, d
<1>4. /\ b \in Seq(Items) /\ b # <<>> /\ Range(b) \subseteq Range(q) /\ WellFormed(b)
      /\ InOrder(pos, b) /\ TakesFirst(pos, q, b)
  BY <1>2, Zenon DEF NextSpec, RankOK, Batches, pos
<1>5. d \in Seq(Items) /\ Range(d) = Range(q) \ Range(b) /\ InOrder(pos, d)
  BY <1>3, Zenon DEF DropSpec, RankOK, pos
<1>6. NoneOvertaken(a, d)
  <2> SUFFICES ASSUME NEW r \in Range(a), NEW s \in Range(a), Similar(Item(r), Item(s)),
                      pos[r] < pos[s], Item(r) \in Range(d)
               PROVE  Item(s) \in Range(d)
    BY Zenon DEF NoneOvertaken, pos
  <2>1. Item(s) \in Range(q) /\ Item(r) \in Range(q) /\ Item(r) \notin Range(b)
    BY <1>5, Zenon DEF RankOK, NoneOvertaken, pos
  <2>2. Item(r).r = r /\ Item(s).r = s
    BY Zenon DEF Item
  <2> QED
    BY <1>4, <1>5, <2>1, <2>2, Zenon DEF TakesFirst
<1>7. \A x \in Range(q) : x.r \in Range(a)
  BY Zenon DEF RankOK
<1>8. RankOK(a, d, b)
  BY <1>4, <1>5, <1>6, <1>7, Zenon DEF RankOK, pos
<1> QED
  BY <1>4, <1>5, <1>8, Zenon DEF b, d

\* The items that are broadcast for the requests c: theirs in their order,
\* after a warmup or not.
NewSpec(c, new) ==
    /\ new \in Seq(Items)
    /\ \E w \in {0, 1} :
         /\ Len(new) = w + Len(c)
         /\ \A i \in 1..Len(new) :
              IF i <= w THEN new[i].warm /\ new[i].r \in Range(c)
              ELSE new[i] = Item(c[i - w])

\* The requests that are broadcast are those that came.
LEMMA NewHolds ==
    ASSUME NEW c \in Seq(Requests), NEW new, NewSpec(c, new)
    PROVE  /\ \A x \in Range(new) : x.r \in Range(c)
           /\ \A r \in Requests : Item(r) \in Range(new) <=> r \in Range(c)
<1>1. PICK w \in {0, 1} :
         /\ Len(new) = w + Len(c)
         /\ \A i \in 1..Len(new) :
              IF i <= w THEN new[i].warm /\ new[i].r \in Range(c)
              ELSE new[i] = Item(c[i - w])
  BY Zenon DEF NewSpec
<1>2. PICK n \in Nat, m \in Nat : n = Len(c) /\ m = w + n /\ Len(new) = m
  BY <1>1 DEF NewSpec
<1>3. DOMAIN new = 1..m /\ DOMAIN c = 1..n
  BY <1>2 DEF NewSpec
<1>4. ASSUME NEW i \in 1..m PROVE new[i].r \in Range(c)
  <2>1. CASE i <= w
    BY <1>1, <1>2, <2>1, Zenon
  <2>2. CASE ~(i <= w)
    <3>1. i - w \in 1..n /\ new[i] = Item(c[i - w])
      BY <1>1, <1>2, <2>2
    <3> QED
      BY <1>3, <3>1 DEF Range, Item
  <2> QED
    BY <2>1, <2>2, Zenon
<1>5. \A x \in Range(new) : x.r \in Range(c)
  BY <1>3, <1>4, Zenon DEF Range
<1>6. ASSUME NEW r \in Requests, r \in Range(c) PROVE Item(r) \in Range(new)
  <2>1. PICK i \in 1..n : r = c[i]
    BY <1>3, <1>6, Zenon DEF Range
  <2>2. w + i \in 1..m /\ ~(w + i <= w) /\ (w + i) - w = i
    BY <1>2
  <2>3. new[w + i] = Item(r)
    BY <1>1, <1>2, <2>1, <2>2, Zenon
  <2> QED
    BY <1>3, <2>2, <2>3, Zenon DEF Range
<1> QED
  BY <1>5, <1>6, Zenon DEF Item

\* The place of a request does not change when others arrive.
LEMMA PosKept ==
    ASSUME NEW a \in Seq(Requests), NEW c \in Seq(Requests),
           Once(a \o c)
    PROVE  /\ Once(a)
           /\ \A i \in 1..Len(a) : PosOf(a \o c)[a[i]] = i /\ PosOf(a)[a[i]] = i
           /\ \A i \in 1..Len(c) : PosOf(a \o c)[c[i]] = Len(a) + i
           /\ Range(a) \cap Range(c) = {}
<1> DEFINE e == a \o c
<1>1. PICK n \in Nat, m \in Nat : n = Len(a) /\ m = Len(c) /\ Len(e) = n + m
  OBVIOUS
<1>2. /\ e \in Seq(Requests) /\ DOMAIN a = 1..n /\ DOMAIN c = 1..m
      /\ \A i \in 1..n : e[i] = a[i] /\ i \in 1..(n + m)
      /\ \A i \in 1..m : e[n + i] = c[i] /\ n + i \in 1..(n + m)
  BY <1>1
<1>3. \A i, j \in 1..(n + m) : e[i] = e[j] => i = j
  BY <1>1, Zenon DEF Once
<1> HIDE DEF e
<1>4. \A i, j \in 1..n : a[i] = a[j] => i = j
  BY <1>2, <1>3, Zenon
<1>5. \A i \in 1..(n + m) : PosOf(e)[e[i]] = i
  <2>1. \A i, j \in 1..Len(e) : e[i] = e[j] => i = j
    BY <1>1, <1>3, Zenon
  <2>2. \A i \in 1..Len(e) : PosOf(e)[e[i]] = i
    BY <1>2, <2>1, PosIs, Zenon
  <2> QED
    BY <1>1, <2>2, Zenon
<1>6. \A i \in 1..n : PosOf(a)[a[i]] = i
  BY <1>1, <1>4, PosIs, Zenon
<1>7. Range(a) \cap Range(c) = {}
  <2> SUFFICES ASSUME NEW i \in 1..n, NEW j \in 1..m, a[i] = c[j] PROVE FALSE
    BY <1>2 DEF Range
  <2>1. i = n + j
    BY <1>2, <1>3, Zenon
  <2> QED
    BY <2>1
<1> QED
  BY <1>1, <1>2, <1>4, <1>5, <1>6, <1>7 DEF e, Once

\* Items that arrive go behind those that wait: the queue stays in order.
LEMMA ReceivedInOrder ==
    ASSUME NEW a \in Seq(Requests), NEW c \in Seq(Requests),
           Once(a \o c),
           NEW q \in Seq(Items), NEW new, NewSpec(c, new),
           InOrder(PosOf(a), q), \A x \in Range(q) : x.r \in Range(a)
    PROVE  InOrder(PosOf(a \o c), q \o new)
<1> DEFINE P == PosOf(a \o c)
           u == q \o new
<1>1. PICK w \in {0, 1} :
         /\ Len(new) = w + Len(c)
         /\ \A i \in 1..Len(new) :
              IF i <= w THEN new[i].warm /\ new[i].r \in Range(c)
              ELSE new[i] = Item(c[i - w])
  BY Zenon DEF NewSpec
<1>2. PICK n \in Nat, m \in Nat, l \in Nat : n = Len(a) /\ m = Len(c) /\ l = Len(q)
  OBVIOUS
<1>3. /\ new \in Seq(Items) /\ Len(new) = w + m /\ Len(u) = l + (w + m)
      /\ \A i \in 1..l : u[i] = q[i]
      /\ \A i \in 1..(w + m) : u[l + i] = new[i]
  <2>1. new \in Seq(Items)
    BY Zenon DEF NewSpec
  <2>2. Len(new) = w + m /\ w \in Nat
    BY <1>1, <1>2
  <2>3. /\ Len(u) = l + Len(new)
        /\ \A i \in 1..l : u[i] = q[i]
        /\ \A i \in 1..Len(new) : u[l + i] = new[i]
    BY <1>2, <2>1
  <2> HIDE DEF u
  <2> QED
    BY <2>1, <2>2, <2>3, Zenon
<1>4. /\ \A i \in 1..n : P[a[i]] = i /\ PosOf(a)[a[i]] = i
      /\ \A i \in 1..m : P[c[i]] = n + i
  BY <1>2, PosKept
<1> HIDE DEF P, u
<1>5. ASSUME NEW i \in 1..l PROVE \E h \in 1..n : q[i].r = a[h]
  <2>1. q[i] \in Range(q)
    BY <1>2 DEF Range
  <2>2. q[i].r \in Range(a)
    BY <2>1, Zenon
  <2> QED
    BY <1>2, <2>2 DEF Range
<1>6. \A i \in 1..(w + m) : ~new[i].warm =>
         \E h \in 1..m : h = i - w /\ new[i].r = c[h]
  <2> SUFFICES ASSUME NEW i \in 1..(w + m), ~new[i].warm
               PROVE  i - w \in 1..m /\ new[i].r = c[i - w]
    BY Zenon
  <2>1. ~(i <= w)
    BY <1>1, <1>3, Zenon
  <2>2. new[i] = Item(c[i - w])
    BY <1>1, <1>3, <2>1, Zenon
  <2> QED
    BY <2>1, <2>2 DEF Item
<1> SUFFICES ASSUME NEW i \in 1..(l + (w + m)), NEW j \in 1..(l + (w + m)),
                    i < j, ~u[i].warm, ~u[j].warm
             PROVE  P[u[i].r] < P[u[j].r]
  BY <1>3, Zenon DEF InOrder, P, u
<1>7. CASE j \in 1..l
  <2>1. i \in 1..l /\ u[i] = q[i] /\ u[j] = q[j]
    BY <1>3, <1>7
  <2>2. PosOf(a)[q[i].r] < PosOf(a)[q[j].r]
    BY <1>2, <1>7, <2>1, Zenon DEF InOrder
  <2>3. P[q[i].r] = PosOf(a)[q[i].r] /\ P[q[j].r] = PosOf(a)[q[j].r]
    BY <1>4, <1>5, <1>7, <2>1
  <2> QED
    BY <2>1, <2>2, <2>3, Zenon
<1>8. CASE j \notin 1..l
  <2>1. PICK f \in 1..(w + m) : j = l + f
    <3>1. j - l \in 1..(w + m) /\ j = l + (j - l)
      BY <1>8
    <3> QED
      BY <3>1, Zenon
  <2>2. u[j] = new[f]
    BY <1>3, <2>1, Zenon
  <2>3. PICK h \in 1..m : h = f - w /\ u[j].r = c[h]
    BY <1>6, <2>2, Zenon
  <2>4. P[u[j].r] = n + h
    BY <1>4, <2>3, Zenon
  <2>5. CASE i \in 1..l
    <3>1. PICK g \in 1..n : u[i].r = a[g]
      BY <1>3, <1>5, <2>5, Zenon
    <3>2. P[u[i].r] = g
      BY <1>4, <3>1, Zenon
    <3> QED
      BY <2>4, <3>2
  <2>6. CASE i \notin 1..l
    <3>1. PICK e \in 1..(w + m) : i = l + e
      <4>1. i - l \in 1..(w + m) /\ i = l + (i - l)
        BY <2>6
      <4> QED
        BY <4>1, Zenon
    <3>2. u[i] = new[e]
      BY <1>3, <3>1, Zenon
    <3>3. PICK g \in 1..m : g = e - w /\ u[i].r = c[g]
      BY <1>6, <3>2, Zenon
    <3>4. P[u[i].r] = n + g
      BY <1>4, <3>3, Zenon
    <3>5. g < h
      BY <2>1, <2>3, <3>1, <3>3
    <3> QED
      BY <2>4, <3>4, <3>5
  <2> QED
    BY <2>5, <2>6, Zenon
<1> QED
  BY <1>7, <1>8, Zenon

\* Items that arrive overtake none.
LEMMA RankReceives ==
    ASSUME NEW a \in Seq(Requests), NEW c \in Seq(Requests),
           Once(a \o c),
           NEW q, NEW new, NewSpec(c, new), RankOK(a, q, <<>>)
    PROVE  RankOK(a \o c, q \o new, <<>>)
<1>1. /\ q \in Seq(Items) /\ InOrder(PosOf(a), q) /\ NoneOvertaken(a, q)
      /\ \A x \in Range(q) : x.r \in Range(a)
  BY Zenon DEF RankOK
<1>2. new \in Seq(Items) /\ q \o new \in Seq(Items) /\ <<>> \in Seq(Items) /\ a \o c \in Seq(Requests)
  BY <1>1 DEF NewSpec
<1>3. InOrder(PosOf(a \o c), q \o new)
  BY <1>1, ReceivedInOrder, Zenon
<1>4. Range(q \o new) = Range(q) \cup Range(new) /\ Range(a \o c) = Range(a) \cup Range(c)
  BY <1>1, <1>2, RangeConcat, Zenon
<1>5. /\ \A x \in Range(new) : x.r \in Range(c)
      /\ \A r \in Requests : Item(r) \in Range(new) <=> r \in Range(c)
  BY NewHolds, Zenon
<1>6. Range(a) \subseteq Requests /\ Range(c) \subseteq Requests
  BY DEF Range
<1>7. PICK n \in Nat, m \in Nat : n = Len(a) /\ m = Len(c)
  OBVIOUS
<1>8. /\ \A i \in 1..n : PosOf(a \o c)[a[i]] = i /\ PosOf(a)[a[i]] = i
      /\ \A i \in 1..m : PosOf(a \o c)[c[i]] = n + i
  BY <1>7, PosKept
<1> DEFINE P == PosOf(a \o c)
<1>9. \A r \in Range(a) : P[r] \in 1..n /\ PosOf(a)[r] = P[r]
  BY <1>7, <1>8 DEF Range
<1>10. \A r \in Range(c) : P[r] \in Nat /\ P[r] > n
  BY <1>7, <1>8 DEF Range
<1> HIDE DEF P
<1>11. ASSUME NEW r \in Range(a \o c), NEW s \in Range(a \o c), Similar(Item(r), Item(s)),
              P[r] < P[s], Item(r) \in Range(q \o new)
       PROVE  Item(s) \in Range(q \o new)
  <2>1. CASE s \in Range(c)
    BY <1>4, <1>5, <1>6, <2>1, Zenon
  <2>2. CASE s \notin Range(c)
    <3>1. s \in Range(a)
      BY <1>4, <2>2, Zenon
    <3>2. r \notin Range(c)
      BY <1>9, <1>10, <1>11, <3>1
    <3>3. r \in Range(a) /\ Item(r) \in Range(q)
      BY <1>4, <1>5, <1>6, <1>11, <3>2, Zenon
    <3>4. PosOf(a)[r] < PosOf(a)[s]
      BY <1>9, <1>11, <3>1, <3>3, Zenon
    <3> QED
      BY <1>1, <1>4, <1>11, <3>1, <3>3, <3>4, Zenon DEF NoneOvertaken
  <2> QED
    BY <2>1, <2>2, Zenon
<1>12. NoneOvertaken(a \o c, q \o new)
  BY <1>11, Zenon DEF NoneOvertaken, P
<1>13. Range(<<>>) = {} /\ InOrder(PosOf(a \o c), <<>>) /\ WellFormed(<<>>)
  BY DEF Range, InOrder, WellFormed
<1>14. \A x \in Range(q \o new) : x.r \in Range(a \o c)
  BY <1>1, <1>4, <1>5, Zenon
<1> QED
  BY <1>2, <1>3, <1>12, <1>13, <1>14, Zenon DEF RankOK

\* A batch that is finished.
LEMMA RankNone ==
    ASSUME NEW a, NEW q, NEW b, RankOK(a, q, b)
    PROVE  RankOK(a, q, <<>>)
<1>1. Range(<<>>) = {} /\ InOrder(PosOf(a), <<>>) /\ WellFormed(<<>>) /\ <<>> \in Seq(Items)
  BY DEF Range, InOrder, WellFormed
<1> QED
  BY <1>1, Zenon DEF RankOK

\* A batch of which the first request is finished.
LEMMA RankTail ==
    ASSUME NEW a, NEW q, NEW b, RankOK(a, q, b), b # <<>>
    PROVE  /\ RankOK(a, q, Tail(b))
           /\ Range(b) = {b[1]} \cup Range(Tail(b))
<1>1. b \in Seq(Items) /\ b \in Batches
  BY Zenon DEF RankOK, Batches
<1>2. PICK n \in Nat : Len(b) = n + 1 /\ Len(Tail(b)) = n
  BY <1>1
<1>3. \A i \in 1..n : Tail(b)[i] = b[i + 1]
  BY <1>1, <1>2
<1> DEFINE t == Tail(b)
<1>4. t \in Seq(Items) /\ Len(t) = n /\ (\A i \in 1..n : t[i] = b[i + 1]) /\ DOMAIN t = 1..n
  BY <1>1, <1>2, <1>3
<1>5. \A i \in 1..n : i + 1 \in 1..(n + 1)
  OBVIOUS
<1>6. DOMAIN b = 1..(n + 1)
  BY <1>1, <1>2
<1>7. WellFormed(t)
  <2> SUFFICES ASSUME n > 1
               PROVE  /\ \A i \in 1..n : CanBatch(t[1], t[i])
                      /\ n <= MaxSize /\ Total(Outs, t) <= Limit /\ Total(Cost, t) <= MaxCost
    BY <1>4, Zenon DEF WellFormed
  <2>1. /\ \A i \in 1..(n + 1) : CanBatch(b[1], b[i])
        /\ n + 1 <= MaxSize /\ Total(Outs, b) <= Limit /\ Total(Cost, b) <= MaxCost
    BY <1>2 DEF RankOK, WellFormed
  <2>2. \A i \in 1..n : CanBatch(b[1], t[i])
    BY <1>4, <1>5, <2>1, Zenon
  <2>3. 1 \in 1..n
    OBVIOUS
  <2>4. \A i \in 1..n : CanBatch(t[1], t[i])
    BY <2>2, <2>3, Zenon DEF CanBatch
  <2>5. Outs \in [Requests -> Nat] /\ Cost \in [Requests -> Nat] /\ {MaxSize, Limit, MaxCost} \subseteq Nat
    BY SchedulerAssumption, Zenon
  <2>6. /\ Total(Outs, t) <= Total(Outs, b) /\ Total(Cost, t) <= Total(Cost, b)
    BY <1>1, <2>5, TotalTail, Zenon
  <2>7. /\ Total(Outs, t) \in Nat /\ Total(Outs, b) \in Nat
        /\ Total(Cost, t) \in Nat /\ Total(Cost, b) \in Nat
    BY <1>1, <1>4, <2>5, TotalType, Zenon
  <2> HIDE DEF t
  <2> QED
    BY <2>1, <2>4, <2>5, <2>6, <2>7
<1> HIDE DEF t
<1>8. Range(b) = {b[1]} \cup Range(t)
  <2>1. \A i \in 1..(n + 1) : i = 1 \/ \E j \in 1..n : i = j + 1
    <3> SUFFICES ASSUME NEW i \in 1..(n + 1), i # 1 PROVE i - 1 \in 1..n /\ i = (i - 1) + 1
      BY Zenon
    <3> QED
      OBVIOUS
  <2>2. ASSUME NEW x \in Range(b) PROVE x \in {b[1]} \cup Range(t)
    <3>1. PICK i \in 1..(n + 1) : x = b[i]
      BY <1>6, Zenon DEF Range
    <3>2. CASE i # 1
      <4>1. PICK j \in 1..n : i = j + 1
        BY <2>1, <3>2, Zenon
      <4>2. x = t[j]
        BY <1>4, <3>1, <4>1, Zenon
      <4> QED
        BY <1>4, <4>2, Zenon DEF Range
    <3> QED
      BY <3>1, <3>2, Zenon
  <2>3. 1 \in 1..(n + 1)
    OBVIOUS
  <2>4. ASSUME NEW x \in Range(t) PROVE x \in Range(b)
    <3>1. PICK j \in 1..n : x = t[j]
      BY <1>4, Zenon DEF Range
    <3> QED
      BY <1>4, <1>5, <1>6, <3>1, Zenon DEF Range
  <2> QED
    BY <1>6, <2>2, <2>3, <2>4, Zenon DEF Range
<1>9. InOrder(PosOf(a), t)
  <2>1. InOrder(PosOf(a), b)
    BY Zenon DEF RankOK
  <2> SUFFICES ASSUME NEW i \in 1..n, NEW j \in 1..n, i < j, ~t[i].warm, ~t[j].warm
               PROVE  PosOf(a)[t[i].r] < PosOf(a)[t[j].r]
    BY <1>4, Zenon DEF InOrder
  <2>2. i + 1 \in 1..(n + 1) /\ j + 1 \in 1..(n + 1) /\ i + 1 < j + 1
    OBVIOUS
  <2> QED
    BY <1>2, <1>4, <2>1, <2>2 DEF InOrder
<1>10. RankOK(a, q, t)
  BY <1>4, <1>7, <1>8, <1>9, Zenon DEF RankOK
<1> QED
  BY <1>8, <1>10, Zenon DEF t

-----------------------------------------------------------------------------
\* A rank with queue q and late requests l finds nothing that it may run now.
Stays(q, l) == \/ q = <<>>
               \/ Batchable(q) /\ Head(q).r \notin l /\ ~Full(Compatible(q))

\* A rank at p will choose; what it will have when its turn ends: its queue,
\* and the late requests in it.
Chooses(p, q, l) == p = "select" /\ ~Stays(q, l)

\* The queue,
RestAt(p, q, l) == IF Chooses(p, q, l) THEN Drop(q, NextBatch(q)) ELSE q

\* ... and the late requests in it.
LateAt(p, q, l) == IF Chooses(p, q, l) THEN l \cap RequestsIn(Drop(q, NextBatch(q))) ELSE l

\* The state of the ranks is given for every rank.
Shape ==
    /\ pc \in [Ranks -> {"recv", "select", "execute", "stopped", "dead"}]
    /\ DOMAIN queue = Ranks /\ DOMAIN late = Ranks /\ DOMAIN batch = Ranks

\* Two ranks end the turn alike; two that have yet to choose see the same, and
\* one that has chosen has taken what the other will take.
Alike(j, k) ==
    /\ RestAt(pc[j], queue[j], late[j]) = RestAt(pc[k], queue[k], late[k])
    /\ LateAt(pc[j], queue[j], late[j]) = LateAt(pc[k], queue[k], late[k])
    /\ pc[j] = "select" /\ pc[k] = "select" => queue[j] = queue[k] /\ late[j] = late[k]
    /\ pc[j] = "execute" /\ pc[k] = "execute" => batch[j] = batch[k]
    /\ pc[j] = "select" /\ pc[k] = "execute" =>
         ~Stays(queue[j], late[j]) /\ batch[k] = NextBatch(queue[j])

\* The inductive invariant.
Lockstep == Shape /\ \A j, k \in Ranks : Alike(j, k)

\* The clocks of the ranks do not matter, and a reply that cannot be sent does
\* not take rank 0 out of a batch that the others are still generating.
OneClock == ~Delay /\ ("send" \notin Faults \/ ~Sequential)

\* Ranks that see the same and are at the same place are alike.
LEMMA SameIsAlike ==
    ASSUME Shape',
           \A j, k \in Ranks : /\ pc'[j] = pc'[k] /\ queue'[j] = queue'[k]
                               /\ late'[j] = late'[k] /\ batch'[j] = batch'[k]
    PROVE  Lockstep'
<1> SUFFICES ASSUME NEW j \in Ranks, NEW k \in Ranks PROVE Alike(j, k)'
  BY Zenon DEF Lockstep
<1>1. /\ pc'[j] = pc'[k] /\ queue'[j] = queue'[k] /\ late'[j] = late'[k]
      /\ batch'[j] = batch'[k]
  BY Zenon
<1>2. ~(pc'[j] = "select" /\ pc'[k] = "execute")
  BY <1>1, Zenon
<1> QED
  BY <1>1, <1>2, Zenon DEF Alike

\* The first turn starts alike.
LEMMA InitLockstep == Init => Lockstep
<1> SUFFICES ASSUME Init PROVE Lockstep
  BY Zenon
<1>1. Shape
  BY Zenon DEF Init, Shape
<1> SUFFICES ASSUME NEW j \in Ranks, NEW k \in Ranks PROVE Alike(j, k)
  BY <1>1, Zenon DEF Lockstep
<1>2. /\ pc[j] = "recv" /\ queue[j] = <<>> /\ late[j] = {} /\ batch[j] = <<>>
      /\ pc[k] = "recv" /\ queue[k] = <<>> /\ late[k] = {} /\ batch[k] = <<>>
  BY Zenon DEF Init
<1> QED
  BY <1>2, Zenon DEF Alike, RestAt, LateAt, Chooses

\* Recv: what was alike gets the same broadcast.
LEMMA RecvKeeps == OneClock /\ Lockstep /\ Recv => Lockstep'
<1> SUFFICES ASSUME OneClock, Lockstep, Recv PROVE Lockstep'
  BY Zenon
<1>0. 0 \in Ranks
  BY SchedulerAssumption, Zenon
<1>1. \A k \in Ranks : /\ pc[k] = "recv" /\ pc[0] = "recv" /\ Alike(k, 0)
  BY <1>0, Zenon DEF Lockstep, Recv
<1>2. \A k \in Ranks : /\ queue[k] = queue[0] /\ late[k] = late[0]
  BY <1>1, Zenon DEF Alike, RestAt, LateAt, Chooses
<1>3. Shape'
  BY Zenon DEF Recv, Lockstep, Shape
<1>4. PICK items : items = NewItems
  BY Zenon
<1>5. PICK new : new = Range(Received)
  BY Zenon
<1>6. \A k \in Ranks : /\ pc'[k] = "select" /\ queue'[k] = queue[k] \o items
                       /\ late'[k] = late[k] \cup new
                       /\ batch'[k] = batch[k]
  BY <1>4, <1>5, Zenon DEF Recv, Broadcast, OneClock
<1> SUFFICES ASSUME NEW j \in Ranks, NEW k \in Ranks PROVE Alike(j, k)'
  BY <1>3, Zenon DEF Lockstep
<1>7. /\ pc'[j] = "select" /\ pc'[k] = "select" /\ queue'[j] = queue'[k]
      /\ late'[j] = late'[k]
  BY <1>2, <1>6, ZenonT(30)
<1> QED
  BY <1>7, Zenon DEF Alike, RestAt, LateAt

\* A rank that chooses, chooses what the others chose or will choose.
LEMMA SelectKeeps ==
    ASSUME Lockstep, NEW c \in Ranks, Select(c)
    PROVE  Lockstep'
<1>1. /\ pc[c] = "select"
      /\ Stays(queue[c], late[c]) =>
           /\ pc' = [pc EXCEPT ![c] = "recv"]
           /\ queue' = queue /\ batch' = batch /\ late' = late
      /\ ~Stays(queue[c], late[c]) =>
           /\ pc' = [pc EXCEPT ![c] = "execute"]
           /\ batch' = [batch EXCEPT ![c] = NextBatch(queue[c])]
           /\ queue' = [queue EXCEPT ![c] = Drop(queue[c], NextBatch(queue[c]))]
           /\ late' = [late EXCEPT ![c] = late[c] \cap RequestsIn(Drop(queue[c], NextBatch(queue[c])))]
  BY DEF Select, Waits, Stays, Lockstep, Shape
<1>2. Shape'
  BY <1>1, Zenon DEF Lockstep, Shape
<1>3. \A k \in Ranks \ {c} : /\ pc'[k] = pc[k] /\ queue'[k] = queue[k] /\ late'[k] = late[k]
                              /\ batch'[k] = batch[k]
  BY <1>1, Zenon DEF Lockstep, Shape
<1>4. /\ RestAt(pc'[c], queue'[c], late'[c]) = RestAt(pc[c], queue[c], late[c])
      /\ LateAt(pc'[c], queue'[c], late'[c]) = LateAt(pc[c], queue[c], late[c])
      /\ pc'[c] \in {"recv", "execute"}
      /\ pc'[c] = "execute" => ~Stays(queue[c], late[c]) /\ batch'[c] = NextBatch(queue[c])
  <2>1. CASE Stays(queue[c], late[c])
    <3>1. /\ pc'[c] = "recv" /\ queue'[c] = queue[c] /\ late'[c] = late[c]
          /\ batch'[c] = batch[c]
      BY <1>1, <2>1, Zenon DEF Lockstep, Shape
    <3> QED
      BY <1>1, <2>1, <3>1, Zenon DEF RestAt, LateAt, Chooses
  <2>2. CASE ~Stays(queue[c], late[c])
    <3>1. /\ pc'[c] = "execute" /\ queue'[c] = Drop(queue[c], NextBatch(queue[c]))
          /\ late'[c] = late[c] \cap RequestsIn(Drop(queue[c], NextBatch(queue[c])))
          /\ batch'[c] = NextBatch(queue[c])
      BY <1>1, <2>2, Zenon DEF Lockstep, Shape
    <3> QED
      BY <1>1, <2>2, <3>1, Zenon DEF RestAt, LateAt, Chooses
  <2> QED
    BY <2>1, <2>2, Zenon
<1> SUFFICES ASSUME NEW j \in Ranks, NEW k \in Ranks PROVE Alike(j, k)'
  BY <1>2, Zenon DEF Lockstep
<1>5. Alike(j, k) /\ Alike(k, j) /\ Alike(c, j) /\ Alike(c, k) /\ Alike(j, c)
  BY Zenon DEF Lockstep
<1>6. CASE j # c /\ k # c
  BY <1>3, <1>5, <1>6, Zenon DEF Alike
<1>7. CASE j = c
  BY <1>1, <1>3, <1>4, <1>5, <1>7, Zenon DEF Alike
<1>8. CASE j # c /\ k = c
  BY <1>1, <1>3, <1>4, <1>5, <1>8, ZenonT(60) DEF Alike
<1> QED
  BY <1>6, <1>7, <1>8, Zenon

\* A forward pass ends the turn of all ranks, or takes all of them to the next
\* request of the batch.
LEMMA GenerateKeeps == OneClock /\ Lockstep /\ (Generate \/ GenerateNext) => Lockstep'
<1> SUFFICES ASSUME OneClock, Lockstep, Generate \/ GenerateNext PROVE Lockstep'
  BY Zenon
<1>0. 0 \in Ranks
  BY SchedulerAssumption, Zenon
<1>1. \A k \in Ranks : pc[k] = "execute" /\ Alike(k, 0)
  BY <1>0, Zenon DEF Lockstep, Generate, GenerateNext, Together
<1>2. \A k \in Ranks : queue[k] = queue[0] /\ late[k] = late[0]
  BY <1>0, <1>1, Zenon DEF Alike, RestAt, LateAt, Chooses
<1>3. queue' = queue /\ late' = late
  BY Zenon DEF Generate, GenerateNext
<1>4. \/ pc' = [k \in Ranks |-> "recv"] /\ batch' = [k \in Ranks |-> <<>>]
      \/ pc' = pc /\ batch' = [k \in Ranks |-> Tail(batch[0])]
  BY Zenon DEF Generate, GenerateNext, Turned, OneClock
<1>5. Shape'
  BY <1>3, <1>4, Zenon DEF Lockstep, Shape
<1>6. \A j, k \in Ranks : pc'[j] = pc'[k] /\ batch'[j] = batch'[k]
  BY <1>1, <1>4, ZenonT(60)
<1>7. \A j, k \in Ranks : queue'[j] = queue'[k] /\ late'[j] = late'[k]
  BY <1>1, <1>2, <1>3, Zenon
<1> QED
  BY <1>5, <1>6, <1>7, SameIsAlike, Zenon

\* An operation on the worker, or a worker that sleeps, ends the turn of one
\* rank, whether or not it goes well there.
LEMMA AloneKeeps ==
    ASSUME Lockstep, NEW c \in Ranks, Refuse(c) \/ Operate(c) \/ OperateFails(c)
    PROVE  Lockstep'
<1>1. /\ pc[c] = "execute" /\ queue' = queue /\ late' = late
      /\ batch' = [batch EXCEPT ![c] = <<>>]
      /\ pc' \in {[pc EXCEPT ![c] = "stopped"], [pc EXCEPT ![c] = "recv"]}
  BY Zenon DEF Refuse, Operate, OperateFails, TurnedAlone, Lockstep, Shape
<1>2. Shape'
  BY <1>1, Zenon DEF Lockstep, Shape
<1>3. \A k \in Ranks \ {c} : /\ pc'[k] = pc[k] /\ queue'[k] = queue[k] /\ late'[k] = late[k]
                              /\ batch'[k] = batch[k]
  BY <1>1, Zenon DEF Lockstep, Shape
<1>4. /\ pc'[c] \in {"stopped", "recv"} /\ queue'[c] = queue[c] /\ late'[c] = late[c]
  BY <1>1, Zenon DEF Lockstep, Shape
<1>5. /\ RestAt(pc'[c], queue'[c], late'[c]) = RestAt(pc[c], queue[c], late[c])
      /\ LateAt(pc'[c], queue'[c], late'[c]) = LateAt(pc[c], queue[c], late[c])
  BY <1>1, <1>4, Zenon DEF RestAt, LateAt, Chooses
<1> SUFFICES ASSUME NEW j \in Ranks, NEW k \in Ranks PROVE Alike(j, k)'
  BY <1>2, Zenon DEF Lockstep
<1>6. Alike(j, k) /\ Alike(c, k) /\ Alike(j, c)
  BY Zenon DEF Lockstep
<1>7. CASE j # c /\ k # c
  BY <1>3, <1>6, <1>7, Zenon DEF Alike
<1>8. CASE j = c
  BY <1>3, <1>4, <1>5, <1>6, <1>8, Zenon DEF Alike
<1>9. CASE j # c /\ k = c
  BY <1>3, <1>4, <1>5, <1>6, <1>9, Zenon DEF Alike
<1> QED
  BY <1>7, <1>8, <1>9, Zenon

\* The steps that change no rank's queue, batch or worker; rank 0 may give up.
LEMMA OtherKeeps ==
    ASSUME Lockstep, queue' = queue, late' = late, batch' = batch,
           pc' = pc \/ (pc[0] = "recv" /\ pc' = [pc EXCEPT ![0] = "dead"])
    PROVE  Lockstep'
<1>1. Shape'
  BY Zenon DEF Lockstep, Shape
<1>2. \A k \in Ranks : pc'[k] = pc[k] \/ (pc[k] = "recv" /\ pc'[k] = "dead")
  <2>1. CASE pc' = pc
    BY <2>1, Zenon
  <2>2. CASE pc[0] = "recv" /\ pc' = [pc EXCEPT ![0] = "dead"]
    BY <2>2, SchedulerAssumption, Zenon DEF Lockstep, Shape
  <2> QED
    BY <2>1, <2>2, Zenon
<1> SUFFICES ASSUME NEW j \in Ranks, NEW k \in Ranks PROVE Alike(j, k)'
  BY <1>1, Zenon DEF Lockstep
<1>3. Alike(j, k)
  BY Zenon DEF Lockstep
<1> QED
  BY <1>2, <1>3, Zenon DEF Alike, RestAt, LateAt, Chooses

\* Every step keeps the ranks alike.
LEMMA LockstepNext == OneClock /\ Lockstep /\ [Next]_vars => Lockstep'
<1> SUFFICES ASSUME OneClock, Lockstep, [Next]_vars PROVE Lockstep'
  BY Zenon
<1>1. CASE (\E r \in Requests : Send(r)) \/ UNCHANGED vars \/ RecvFails
  BY <1>1, OtherKeeps, Zenon DEF Send, RecvFails, vars
<1>2. ASSUME NEW k \in Ranks, NEW r \in Requests PROVE ~Elapse(k, r)
  BY Zenon DEF Elapse, OneClock
<1> QED
  BY <1>1, <1>2, RecvKeeps, SelectKeeps, GenerateKeeps, AloneKeeps, Zenon DEF Next

\* Without a batching delay the ranks stay in step although each chooses for
\* itself: those about to execute have the same batch, and those at the same
\* point of the turn the same queue, even if an operation on the worker has
\* failed on some of them only.  (With a delay they need not, because each rank
\* asks its own clock.)
THEOREM RanksChooseAlike ==
    ASSUME OneClock
    PROVE  Spec => []RanksInStep
<1>1. Lockstep => RanksInStep
  <2> SUFFICES ASSUME Lockstep, NEW j \in Ranks, NEW k \in Ranks
               PROVE  /\ pc[j] = "execute" /\ pc[k] = "execute" => batch[j] = batch[k]
                      /\ pc[j] = pc[k] => queue[j] = queue[k]
    BY Zenon DEF RanksInStep
  <2>1. Alike(j, k)
    BY Zenon DEF Lockstep
  <2>2. pc[j] \in {"recv", "select", "execute", "stopped", "dead"}
    BY Zenon DEF Lockstep, Shape
  <2> QED
    BY <2>1, <2>2, Zenon DEF Alike, RestAt, LateAt, Chooses
<1>2. Lockstep /\ [Next]_vars => Lockstep'
  BY LockstepNext, Zenon
<1> QED
  BY <1>1, <1>2, InitLockstep, PTL DEF Spec

-----------------------------------------------------------------------------
\* What holds of the replies that the client of r has, given what rank 0 has.
ClientOK(a, q, b, r, rep) ==
    /\ rep \in {<<>>, <<Failed>>, <<OutputsOf(r)>>}
    /\ rep # <<>> => r \in Range(a) /\ Item(r) \notin Range(q) \cup Range(b)
    /\ "send" \notin Faults /\ r \in Range(a) /\ rep = <<>> =>
           Item(r) \in Range(q) \cup Range(b)

\* Requests are sent once: none is twice in the socket or among the arrivals.
SentOnce ==
    /\ Once(inbox) /\ Once(arrived)
    /\ Range(inbox) \cap Range(arrived) = {}
    /\ Range(inbox) \cup Range(arrived) \subseteq sent

\* The inductive invariant.
ServedInv ==
    /\ TypeOK
    /\ pc[0] # "dead" => errors < MaxErrors
    /\ SentOnce
    /\ \A k \in Ranks : RankOK(arrived, queue[k], batch[k])
    /\ \A r \in Requests : ClientOK(arrived, queue[0], batch[0], r, replies[r])

\* What is taken off the front of the socket is taken once, and what is left in
\* it has not been taken.
LEMMA TakeOnce ==
    ASSUME NEW S, NEW a \in Seq(S), NEW s \in Seq(S), NEW n \in 0..Len(s),
           Once(a), Once(s), Range(s) \cap Range(a) = {}
    PROVE  /\ SubSeq(s, 1, n) \in Seq(S) /\ SubSeq(s, n + 1, Len(s)) \in Seq(S)
           /\ Len(SubSeq(s, 1, n)) = n
           /\ Once(a \o SubSeq(s, 1, n)) /\ Once(SubSeq(s, n + 1, Len(s)))
           /\ Range(SubSeq(s, n + 1, Len(s))) \cap Range(a \o SubSeq(s, 1, n)) = {}
           /\ Range(SubSeq(s, 1, n)) \subseteq Range(s)
           /\ Range(SubSeq(s, n + 1, Len(s))) \subseteq Range(s)
<1>1. PICK l \in Nat, m \in Nat : l = Len(a) /\ m = Len(s) /\ n \in 0..m
  OBVIOUS
<1> DEFINE c == SubSeq(s, 1, n)
           d == SubSeq(s, n + 1, Len(s))
           e == a \o c
<1>2. c \in Seq(S) /\ Len(c) = n /\ DOMAIN c = 1..n /\ \A i \in 1..n : c[i] = s[i] /\ i \in 1..m
  BY <1>1
<1>3. d \in Seq(S) /\ Len(d) = m - n /\ DOMAIN d = 1..(m - n)
  BY <1>1
<1>4. \A i \in 1..(m - n) : d[i] = s[n + i] /\ n + i \in 1..m
  BY <1>1, <1>3
<1>5. DOMAIN s = 1..m /\ DOMAIN a = 1..l
  BY <1>1
<1> HIDE DEF c, d
<1>6. /\ Len(e) = l + n
      /\ \A i \in 1..l : e[i] = a[i]
      /\ \A i \in 1..n : e[l + i] = c[i]
  BY <1>1, <1>2
<1>7. Range(c) \subseteq Range(s)
  BY <1>2, <1>5, Zenon DEF Range
<1>8. Range(d) \subseteq Range(s)
  <2> SUFFICES ASSUME NEW x \in Range(d) PROVE x \in Range(s)
    BY Zenon
  <2>1. PICK i \in 1..(m - n) : x = d[i]
    BY <1>3, Zenon DEF Range
  <2> QED
    BY <1>4, <1>5, <2>1, Zenon DEF Range
<1>9. \A i, j \in 1..m : s[i] = s[j] => i = j
  BY <1>1, Zenon DEF Once
<1>10. Range(d) \cap Range(c) = {}
  <2> SUFFICES ASSUME NEW i \in 1..(m - n), NEW j \in 1..n, d[i] = c[j] PROVE FALSE
    BY <1>2, <1>3 DEF Range
  <2>1. n + i = j
    BY <1>2, <1>4, <1>9
  <2> QED
    BY <2>1
<1>11. Range(e) = Range(a) \cup Range(c)
  BY <1>2, RangeConcat, Zenon
<1> HIDE DEF e
<1>12. Once(d)
  <2> SUFFICES ASSUME NEW i \in 1..(m - n), NEW j \in 1..(m - n), d[i] = d[j] PROVE i = j
    BY <1>3, Zenon DEF Once
  <2>1. n + i = n + j
    BY <1>4, <1>9, Zenon
  <2> QED
    BY <2>1
<1>13. Once(e)
  <2> SUFFICES ASSUME NEW i \in 1..(l + n), NEW j \in 1..(l + n), e[i] = e[j] PROVE i = j
    BY <1>6, Zenon DEF Once
  <2>1. \A h \in 1..(l + n) : h \in 1..l \/ \E g \in 1..n : h = l + g
    <3> SUFFICES ASSUME NEW h \in 1..(l + n), h \notin 1..l PROVE h - l \in 1..n /\ h = l + (h - l)
      BY Zenon
    <3> QED
      OBVIOUS
  <2>2. \A h \in 1..l, g \in 1..n : a[h] # c[g]
    BY <1>2, <1>5, <1>7, Zenon DEF Range
  <2>3. CASE i \in 1..l /\ j \in 1..l
    BY <1>1, <1>6, <2>3, Zenon DEF Once
  <2>4. CASE i \notin 1..l /\ j \in 1..l
    <3>1. PICK g \in 1..n : i = l + g
      BY <2>1, <2>4, Zenon
    <3> QED
      BY <1>6, <2>2, <2>4, <3>1, Zenon
  <2>5. CASE i \in 1..l /\ j \notin 1..l
    <3>1. PICK g \in 1..n : j = l + g
      BY <2>1, <2>5, Zenon
    <3> QED
      BY <1>6, <2>2, <2>5, <3>1, ZenonT(30)
  <2>6. CASE i \notin 1..l /\ j \notin 1..l
    <3>1. PICK g \in 1..n, h \in 1..n : i = l + g /\ j = l + h
      BY <2>1, <2>6, Zenon
    <3>2. c[g] = c[h]
      BY <1>6, <3>1, Zenon
    <3>3. g = h
      BY <1>2, <1>9, <3>2, Zenon
    <3> QED
      BY <3>1, <3>3, Zenon
  <2> QED
    BY <2>3, <2>4, <2>5, <2>6, Zenon
<1>14. Range(d) \cap Range(e) = {}
  BY <1>8, <1>10, <1>11, Zenon
<1> QED
  BY <1>2, <1>3, <1>7, <1>8, <1>12, <1>13, <1>14, Zenon DEF c, d, e

\* What is received, and what is broadcast for it.
LEMMA ReceivedIs ==
    ASSUME inbox \in Seq(Requests)
    PROVE  \E n \in 0..Len(inbox) : Received = SubSeq(inbox, 1, n)
<1>1. MaxRecv \in Nat /\ Len(inbox) \in Nat
  BY SchedulerAssumption
<1>2. CASE Len(inbox) < MaxRecv
  <2>1. Len(inbox) \in 0..Len(inbox) /\ Received = SubSeq(inbox, 1, Len(inbox))
    BY <1>1, <1>2 DEF Received
  <2> QED
    BY <2>1, Zenon
<1>3. CASE ~(Len(inbox) < MaxRecv)
  <2>1. MaxRecv \in 0..Len(inbox) /\ Received = SubSeq(inbox, 1, MaxRecv)
    BY <1>1, <1>3 DEF Received
  <2> QED
    BY <2>1, Zenon
<1> QED
  BY <1>2, <1>3, Zenon

\* What is broadcast: the requests that came, after the warmup that
\* process_received_reqs_with_req_based_warmup puts before them or without it.
LEMMA NewItemsAre ==
    ASSUME Received \in Seq(Requests)
    PROVE  NewSpec(Received, NewItems)
<1> DEFINE c == Received
           g == [i \in 1..Len(c) |-> Item(c[i])]
<1>1. PICK n \in Nat : n = Len(c) /\ DOMAIN c = 1..n
  OBVIOUS
<1>2. \A i \in 1..n : c[i] \in Requests
  BY <1>1
<1>3. g \in Seq(Items) /\ Len(g) = n /\ \A i \in 1..n : g[i] = Item(c[i])
  <2>1. \A i \in 1..n : Item(c[i]) \in Items
    BY <1>2, Zenon DEF Item, Items
  <2> QED
    BY <1>1, <2>1
<1>4. CASE NeedsWarmup
  <2> DEFINE h == WarmupItem(Head(c))
  <2>1. c # <<>>
    BY <1>4, Zenon DEF NeedsWarmup
  <2>2. 1 \in 1..n /\ Head(c) = c[1]
    BY <1>1, <2>1
  <2>3. h \in Items /\ h.warm /\ h.r = c[1] /\ c[1] \in Range(c)
    BY <1>1, <1>2, <2>2, Zenon DEF WarmupItem, Items, Range
  <2>4. NewItems = <<h>> \o g
    BY <1>4, Zenon DEF NewItems
  <2> HIDE DEF h, g
  <2>5. <<h>> \in Seq(Items) /\ Len(<<h>>) = 1
    BY <2>3
  <2> DEFINE u == <<h>> \o g
  <2>6. /\ u \in Seq(Items) /\ Len(u) = 1 + n /\ u[1] = h
        /\ \A i \in 1..n : u[1 + i] = g[i]
    BY <1>3, <2>5
  <2> HIDE DEF u
  <2>7. ASSUME NEW i \in 1..Len(u)
        PROVE  IF i <= 1 THEN u[i].warm /\ u[i].r \in Range(c) ELSE u[i] = Item(c[i - 1])
    <3>1. CASE i <= 1
      <4>1. i = 1
        BY <2>6, <3>1
      <4> QED
        BY <2>3, <2>6, <4>1
    <3>2. CASE ~(i <= 1)
      <4>1. i - 1 \in 1..n /\ i = 1 + (i - 1)
        BY <2>6, <3>2
      <4>2. u[i] = g[i - 1]
        BY <2>6, <4>1, Zenon
      <4> QED
        BY <1>3, <3>2, <4>1, <4>2, Zenon
    <3> QED
      BY <3>1, <3>2, Zenon
  <2>8. NewSpec(c, u)
    <3>1. 1 \in {0, 1} /\ Len(u) = 1 + Len(c)
      BY <1>1, <2>6, Zenon
    <3> QED
      BY <2>6, <2>7, <3>1, Zenon DEF NewSpec
  <2> QED
    BY <2>4, <2>8, Zenon DEF u
<1>5. CASE ~NeedsWarmup
  <2>1. NewItems = <<>> \o g
    BY <1>5, Zenon DEF NewItems
  <2> HIDE DEF g
  <2>2. NewItems = g
    BY <1>3, <2>1
  <2>3. ASSUME NEW i \in 1..Len(g)
        PROVE  IF i <= 0 THEN g[i].warm /\ g[i].r \in Range(c) ELSE g[i] = Item(c[i - 0])
    <3>1. ~(i <= 0) /\ i - 0 = i /\ i \in 1..n
      BY <1>3
    <3> QED
      BY <1>3, <3>1, Zenon
  <2>4. 0 \in {0, 1} /\ Len(g) = 0 + Len(c)
    BY <1>1, <1>3
  <2>5. NewSpec(c, g)
    BY <1>3, <2>3, <2>4, Zenon DEF NewSpec
  <2> QED
    BY <2>2, <2>5, Zenon
<1> QED
  BY <1>4, <1>5, Zenon

\* What a client gets when the first n items of b are answered, or are not.
Gets(b, n, r, rep, new) ==
    IF \E i \in 1..n : b[i] = Item(r)
    THEN \E v \in {Failed, OutputsOf(r)} : new = Append(rep, v)
    ELSE new = rep

\* Results that are each an error or the outputs of the item they are for.
Results(b, res) == \A i \in 1..Len(b) : res[i] \in {Failed, OutputsOf(b[i].r)}

\* What the worker computes, what it has failed to, and any mixture of both.
LEMMA ResultsAre ==
    ASSUME NEW b \in Seq(Items), NEW bad
    PROVE  Results(b, Split(b)) /\ Results(b, Errors(b)) /\ Results(b, Partly(b, bad))
<1>1. \A i \in 1..Len(b) : Split(b)[i] = OutputsOf(b[i].r)
  BY SplitIs, Zenon
<1>2. Results(b, Partly(b, bad))
  BY <1>1, Zenon DEF Results, Partly
<1>3. Results(b, Errors(b))
  BY Zenon DEF Results, Errors
<1> QED
  BY <1>1, <1>2, <1>3, Zenon DEF Results

\* What the clients get of results.
LEMMA RepliedIs ==
    ASSUME NEW b \in Seq(Items), NEW n \in 0..Len(b), NEW res,
           Results(b, res), Replied(b, n, res)
    PROVE  \A r \in Requests : Gets(b, n, r, replies[r], replies'[r])
<1>1. \A i \in 1..Len(b) : res[i] \in {Failed, OutputsOf(b[i].r)}
  BY Zenon DEF Results
<1> SUFFICES ASSUME NEW r \in Requests PROVE Gets(b, n, r, replies[r], replies'[r])
  BY Zenon
<1>2. CASE \E i \in 1..n : b[i] = Item(r)
  <2> DEFINE j == CHOOSE i \in 1..n : b[i] = Item(r)
  <2>1. j \in 1..n /\ b[j] = Item(r)
    BY <1>2, Zenon
  <2>2. j \in 1..Len(b) /\ b[j].r = r
    BY <2>1 DEF Item
  <2>3. replies'[r] = Append(replies[r], res[j])
    BY <1>2, Zenon DEF Replied
  <2> HIDE DEF j
  <2>4. res[j] \in {Failed, OutputsOf(r)}
    BY <1>1, <2>2, Zenon
  <2> QED
    BY <1>2, <2>3, <2>4, Zenon DEF Gets
<1>3. CASE ~\E i \in 1..n : b[i] = Item(r)
  BY <1>3, Zenon DEF Gets, Replied
<1> QED
  BY <1>2, <1>3, Zenon

\* Rank 0 returns results: it answers all of the items, or some of the first
\* ones if sending fails.
LEMMA ReturnIs ==
    ASSUME NEW b \in Seq(Items), NEW res, Results(b, res), Return(b, res)
    PROVE  \E n \in 0..Len(b) :
             /\ n = Len(b) \/ "send" \in Faults
             /\ \A r \in Requests : Gets(b, n, r, replies[r], replies'[r])
<1>1. PICK n \in 0..Len(b) : (n = Len(b) \/ "send" \in Faults) /\ Replied(b, n, res)
  BY Zenon DEF Return
<1> QED
  BY <1>1, RepliedIs, Zenon

\* The client of an item that is answered had no reply, and it is done.
LEMMA ClientFinished ==
    ASSUME NEW a, NEW q, NEW b, NEW r \in Requests, NEW rep, NEW new,
           RankOK(a, q, b), ClientOK(a, q, b, r, rep),
           NEW n \in 0..Len(b), n = Len(b) \/ "send" \in Faults,
           Gets(b, n, r, rep, new)
    PROVE  ClientOK(a, q, <<>>, r, new)
<1>1. b \in Seq(Items) /\ Range(<<>>) = {}
  BY DEF RankOK, Range
<1>2. DOMAIN b = 1..Len(b) /\ \A i \in 1..n : i \in 1..Len(b)
  BY <1>1
<1>3. CASE \E i \in 1..n : b[i] = Item(r)
  <2>1. Item(r) \in Range(b)
    BY <1>2, <1>3, Zenon DEF Range
  <2>2. rep = <<>> /\ Item(r) \notin Range(q) /\ r \in Range(a)
    BY <2>1 DEF ClientOK, RankOK, Item
  <2>3. PICK v \in {Failed, OutputsOf(r)} : new = <<v>>
    BY <1>3, <2>2 DEF Gets
  <2>4. new # <<>>
    BY <2>3, Zenon
  <2> QED
    BY <1>1, <2>2, <2>3, <2>4, Zenon DEF ClientOK
<1>4. CASE ~\E i \in 1..n : b[i] = Item(r)
  <2>1. new = rep
    BY <1>4, Zenon DEF Gets
  <2>2. "send" \notin Faults => Item(r) \notin Range(b)
    BY <1>2, <1>4, Zenon DEF Range
  <2> QED
    BY <1>1, <2>1, <2>2, Zenon DEF ClientOK
<1> QED
  BY <1>3, <1>4, Zenon

\* The client of the first item of a batch is done; the others wait.
LEMMA ClientFirst ==
    ASSUME NEW a \in Seq(Requests), Once(a),
           NEW q, NEW b, NEW r \in Requests, NEW rep, NEW new,
           RankOK(a, q, b), b # <<>>, ClientOK(a, q, b, r, rep),
           IF b[1] = Item(r) THEN \E v \in {Failed, OutputsOf(r)} : new = Append(rep, v)
           ELSE new = rep
    PROVE  ClientOK(a, q, Tail(b), r, new)
<1>1. b \in Seq(Items) /\ Range(b) = {b[1]} \cup Range(Tail(b))
  <2>1. b \in Seq(Items)
    BY Zenon DEF RankOK
  <2>2. Range(b) = {b[1]} \cup Range(Tail(b))
    BY RankTail, Zenon
  <2> QED
    BY <2>1, <2>2, Zenon
<1>2. CASE b[1] = Item(r)
  <2>1. rep = <<>> /\ Item(r) \notin Range(q) /\ r \in Range(a)
    BY <1>1, <1>2 DEF ClientOK, RankOK, Item
  <2>2. PICK v \in {Failed, OutputsOf(r)} : new = <<v>>
    BY <1>2, <2>1
  <2>3. new # <<>>
    BY <2>2, Zenon
  <2>4. Item(r) \notin Range(Tail(b))
    <3> SUFFICES ASSUME Item(r) \in Range(Tail(b)) PROVE FALSE
      BY Zenon
    <3>1. PICK j \in 1..Len(Tail(b)) : Tail(b)[j] = Item(r)
      BY <1>1 DEF Range
    <3>2. j + 1 \in 1..Len(b) /\ 1 \in 1..Len(b) /\ 1 < j + 1 /\ b[j + 1] = Item(r)
      BY <1>1, <3>1
    <3>3. ~b[1].warm /\ ~b[j + 1].warm /\ b[1].r = r /\ b[j + 1].r = r
      BY <1>2, <3>2 DEF Item
    <3>4. InOrder(PosOf(a), b)
      BY Zenon DEF RankOK
    <3>5. PosOf(a)[r] < PosOf(a)[r]
      BY <3>2, <3>3, <3>4, Zenon DEF InOrder
    <3>6. PosOf(a) \in [Requests -> Nat]
      BY PosIs, Zenon DEF Once
    <3>7. PosOf(a)[r] \in Nat
      BY <3>6, Zenon
    <3> QED
      BY <3>5, <3>7
  <2> QED
    BY <2>1, <2>2, <2>3, <2>4, Zenon DEF ClientOK
<1>3. CASE b[1] # Item(r)
  BY <1>1, <1>3, Zenon DEF ClientOK
<1> QED
  BY <1>2, <1>3, Zenon

\* A scheduler that starts has nothing queued, and nobody waits.
LEMMA InitServed == Init => ServedInv
<1> SUFFICES ASSUME Init PROVE ServedInv
  BY Zenon
<1> USE DEF Init
<1>1. TypeOK
  <2>1. errors \in 0..MaxErrors
    BY SchedulerAssumption
  <2>2. inbox \in Seq(Requests) /\ <<>> \in Seq(Items)
    OBVIOUS
  <2>3. queue \in [Ranks -> Seq(Items)] /\ batch \in [Ranks -> Seq(Items)]
    BY <2>2, Zenon
  <2>4. \A k \in Ranks : batch[k] = <<>> /\ pc[k] = "recv"
    BY Zenon
  <2> QED
    BY <2>1, <2>2, <2>3, <2>4, Zenon DEF TypeOK
<1>2. pc[0] # "dead" => errors < MaxErrors
  BY SchedulerAssumption
<1>3. Range(<<>>) = {} /\ Len(<<>>) = 0 /\ <<>> \in Seq(Items) /\ Range(arrived) = {}
  BY DEF Range
<1>4. SentOnce
  BY <1>3 DEF SentOnce, Once
<1>5. RankOK(arrived, <<>>, <<>>)
  BY <1>3 DEF RankOK, InOrder, WellFormed, NoneOvertaken
<1>6. \A r \in Requests : ClientOK(arrived, <<>>, <<>>, r, <<>>)
  BY <1>3, Zenon DEF ClientOK
<1> QED
  BY <1>1, <1>2, <1>4, <1>5, <1>6, SchedulerAssumption, Zenon DEF ServedInv

\* A client sends a request of its own, once.
LEMMA SendServes ==
    ASSUME ServedInv, NEW r \in Requests, Send(r)
    PROVE  ServedInv'
<1> USE DEF Send
<1>1. inbox \in Seq(Requests) /\ inbox' = Append(inbox, r) /\ arrived \in Seq(Requests)
  BY Zenon DEF ServedInv, TypeOK
<1>2. TypeOK'
  BY <1>1 DEF ServedInv, TypeOK
<1>3. Range(inbox') = Range(inbox) \cup {r}
  BY <1>1, RangeAppend, Zenon
<1>4. r \notin Range(inbox) \cup Range(arrived)
  BY Zenon DEF ServedInv, SentOnce
<1>5. Once(inbox')
  <2>1. PICK n \in Nat : n = Len(inbox) /\ Len(inbox') = n + 1
    BY <1>1
  <2>2. inbox'[n + 1] = r /\ \A i \in 1..n : inbox'[i] = inbox[i] /\ inbox[i] # r
    BY <1>1, <1>4, <2>1 DEF Range
  <2>3. \A i \in 1..(n + 1) : i \in 1..n \/ i = n + 1
    OBVIOUS
  <2>4. \A i, j \in 1..n : inbox[i] = inbox[j] => i = j
    BY <2>1, Zenon DEF ServedInv, SentOnce, Once
  <2> QED
    BY <2>1, <2>2, <2>3, <2>4 DEF Once
<1>6. SentOnce'
  BY <1>3, <1>4, <1>5, Zenon DEF ServedInv, SentOnce
<1> QED
  BY <1>2, <1>6, Zenon DEF ServedInv

\* recv_reqs: what comes is queued by every rank, behind what waits.
LEMMA RecvServes == ServedInv /\ Recv => ServedInv'
<1> SUFFICES ASSUME ServedInv, Recv PROVE ServedInv'
  BY Zenon
<1> DEFINE c == Received
<1>1. /\ TypeOK /\ SentOnce /\ inbox \in Seq(Requests) /\ arrived \in Seq(Requests)
      /\ Once(arrived) /\ Once(inbox) /\ Range(inbox) \cap Range(arrived) = {}
      /\ Range(inbox) \cup Range(arrived) \subseteq sent
  BY Zenon DEF ServedInv, TypeOK, SentOnce
<1>2. PICK n \in 0..Len(inbox) : c = SubSeq(inbox, 1, n)
  BY <1>1, ReceivedIs, Zenon
<1>3. /\ c \in Seq(Requests) /\ Len(c) = n
      /\ Once(arrived \o c) /\ Range(c) \subseteq Range(inbox)
  BY <1>1, <1>2, TakeOnce
<1>4. inbox' = SubSeq(inbox, n + 1, Len(inbox)) /\ arrived' = arrived \o c
  BY <1>3, Zenon DEF Recv
<1>5. /\ inbox' \in Seq(Requests) /\ Once(inbox')
      /\ Range(inbox') \cap Range(arrived') = {} /\ Range(inbox') \subseteq Range(inbox)
  BY <1>1, <1>2, <1>4, TakeOnce, Zenon
<1>6. NewSpec(c, NewItems)
  BY <1>3, NewItemsAre, Zenon
<1> HIDE DEF c
<1>7. Range(arrived') = Range(arrived) \cup Range(c) /\ arrived' \in Seq(Requests)
  BY <1>1, <1>3, <1>4, RangeConcat
<1>8. SentOnce'
  <2>1. sent' = sent
    BY Zenon DEF Recv
  <2> QED
    BY <1>1, <1>3, <1>4, <1>5, <1>7, <2>1, Zenon DEF SentOnce
<1>9. Range(c) \subseteq Requests /\ Range(arrived) \cap Range(c) = {}
  <2>1. Range(c) \subseteq Requests
    BY <1>3 DEF Range
  <2>2. Range(arrived) \cap Range(c) = {}
    BY <1>1, <1>3, Zenon
  <2> QED
    BY <2>1, <2>2, Zenon
<1>10. \A k \in Ranks : batch[k] = <<>>
  BY Zenon DEF ServedInv, TypeOK, Recv
<1>11. /\ \A k \in Ranks : pc'[k] = "select" /\ queue'[k] = queue[k] \o NewItems
       /\ batch' = batch /\ replies' = replies
  BY Zenon DEF Recv, Broadcast
<1>12. ASSUME NEW k \in Ranks PROVE RankOK(arrived', queue'[k], batch'[k]) /\ RankOK(arrived, queue[k], <<>>)
  <2>1. RankOK(arrived, queue[k], <<>>)
    BY <1>10, Zenon DEF ServedInv
  <2> QED
    BY <1>1, <1>3, <1>4, <1>6, <1>10, <1>11, <2>1, RankReceives, Zenon
<1>13. TypeOK'
  <2>1. queue' \in [Ranks -> Seq(Items)]
    <3>1. \A k \in Ranks : queue'[k] \in Seq(Items)
      BY <1>12, Zenon DEF RankOK
    <3>2. queue' = [k \in Ranks |-> queue[k] \o Broadcast(k)]
      BY Zenon DEF Recv
    <3> QED
      BY <3>1, <3>2, Zenon
  <2>2. late' \in [Ranks -> SUBSET Requests]
    BY <1>1, <1>9, Zenon DEF TypeOK, Recv, c
  <2>3. warmed' \in BOOLEAN /\ errors' \in 0..MaxErrors
    BY <1>1, SchedulerAssumption DEF TypeOK, Recv, NeedsWarmup
  <2>4. pc' \in [Ranks -> {"recv", "select", "execute", "stopped", "dead"}]
    BY Zenon DEF Recv
  <2>5. /\ sent' = sent /\ sleeping' = sleeping
    BY Zenon DEF Recv
  <2> QED
    BY <1>1, <1>5, <1>7, <1>10, <1>11, <2>1, <2>2, <2>3, <2>4, <2>5, ZenonT(30) DEF TypeOK
<1>14. ASSUME NEW r \in Requests PROVE ClientOK(arrived', queue'[0], batch'[0], r, replies'[r])
  <2>1. 0 \in Ranks
    BY SchedulerAssumption, Zenon
  <2>2. Range(queue'[0]) = Range(queue[0]) \cup Range(NewItems)
    BY <1>6, <1>11, <1>12, <2>1, RangeConcat, Zenon DEF RankOK, NewSpec
  <2>3. Item(r) \in Range(NewItems) <=> r \in Range(c)
    BY <1>3, <1>6, NewHolds, Zenon
  <2>4. ClientOK(arrived, queue[0], batch[0], r, replies[r])
    BY Zenon DEF ServedInv
  <2> QED
    BY <1>7, <1>9, <1>11, <2>2, <2>3, <2>4, Zenon DEF ClientOK
<1>15. errors' < MaxErrors
  BY SchedulerAssumption DEF Recv
<1> QED
  BY <1>8, <1>12, <1>13, <1>14, <1>15, Zenon DEF ServedInv

\* A failed receive loses only what was in the socket, which nobody queued;
\* after _max_consecutive_errors of them rank 0 gives up.
LEMMA RecvFailsServes == ServedInv /\ RecvFails => ServedInv'
<1> SUFFICES ASSUME ServedInv, RecvFails PROVE ServedInv'
  BY Zenon
<1>1. /\ TypeOK /\ inbox \in Seq(Requests) /\ arrived \in Seq(Requests)
      /\ Once(arrived) /\ Once(inbox) /\ Range(inbox) \cap Range(arrived) = {}
      /\ Range(inbox) \cup Range(arrived) \subseteq sent
  BY Zenon DEF ServedInv, TypeOK, SentOnce
<1>2. PICK m \in 0..Len(inbox) : Received = SubSeq(inbox, 1, m)
  BY <1>1, ReceivedIs, Zenon
<1>3. Len(Received) = m
  BY <1>1, <1>2, TakeOnce
<1>4. PICK n \in 0..Len(inbox) : inbox' = SubSeq(inbox, n + 1, Len(inbox))
  <2>1. PICK n \in 0..m : inbox' = SubSeq(inbox, n + 1, Len(inbox))
    BY <1>3, Zenon DEF RecvFails
  <2>2. n \in 0..Len(inbox)
    BY <1>1
  <2> QED
    BY <2>1, <2>2, Zenon
<1>5. inbox' \in Seq(Requests) /\ Once(inbox') /\ Range(inbox') \subseteq Range(inbox)
  BY <1>1, <1>4, TakeOnce, Zenon
<1>6. UNCHANGED <<sent, arrived, queue, late, batch, sleeping, warmed, replies>>
  BY Zenon DEF RecvFails
<1>7. SentOnce'
  BY <1>1, <1>5, <1>6, Zenon DEF SentOnce
<1>8. /\ pc[0] = "recv" /\ errors < MaxErrors /\ errors \in Nat /\ MaxErrors \in Nat
      /\ 0 \in Ranks /\ errors' = errors + 1
  <2>1. pc[0] = "recv" /\ errors' = errors + 1
    BY Zenon DEF RecvFails
  <2>2. errors < MaxErrors
    BY <2>1, Zenon DEF ServedInv
  <2>3. MaxErrors \in Nat /\ 0 \in Ranks
    BY SchedulerAssumption, Zenon
  <2>4. errors \in Nat
    BY <1>1, <2>3 DEF TypeOK
  <2> QED
    BY <2>1, <2>2, <2>3, <2>4, Zenon
<1>9. /\ errors' \in 0..MaxErrors
      /\ pc' \in [Ranks -> {"recv", "select", "execute", "stopped", "dead"}]
      /\ \A k \in Ranks : pc'[k] = "execute" <=> pc[k] = "execute"
      /\ pc'[0] # "dead" => errors' < MaxErrors
  BY <1>1, <1>8 DEF RecvFails, TypeOK
<1>10. TypeOK'
  BY <1>1, <1>5, <1>6, <1>9, Zenon DEF TypeOK
<1> QED
  BY <1>6, <1>7, <1>9, <1>10, Zenon DEF ServedInv

\* The clock touches neither the queue nor the replies.
LEMMA ElapseServes ==
    ASSUME ServedInv, NEW k \in Ranks, NEW r \in Requests, Elapse(k, r)
    PROVE  ServedInv'
<1>1. TypeOK'
  BY Zenon DEF ServedInv, TypeOK, Elapse
<1>2. UNCHANGED <<inbox, sent, arrived, pc, queue, batch, errors, replies>>
  BY Zenon DEF Elapse
<1> QED
  BY <1>1, <1>2, Zenon DEF ServedInv, SentOnce

\* get_next_batch_to_run moves items from the queue to the batch.
LEMMA SelectServes ==
    ASSUME ServedInv, NEW k \in Ranks, Select(k)
    PROVE  ServedInv'
<1>1. /\ TypeOK /\ pc[k] = "select" /\ batch[k] = <<>> /\ 0 \in Ranks /\ Once(arrived)
      /\ arrived \in Seq(Requests)
  BY SchedulerAssumption, Zenon DEF ServedInv, TypeOK, Select, SentOnce
<1>2. UNCHANGED <<inbox, sent, arrived, sleeping, warmed, errors, replies>>
  BY Zenon DEF Select
<1>3. CASE UNCHANGED <<queue, batch, late>> /\ pc' = [pc EXCEPT ![k] = "recv"]
  <2>1. TypeOK'
    BY <1>1, <1>2, <1>3, Zenon DEF TypeOK
  <2>2. pc'[0] = "dead" <=> pc[0] = "dead"
    BY <1>1, <1>3, Zenon DEF TypeOK
  <2> QED
    BY <1>2, <1>3, <2>1, <2>2, Zenon DEF ServedInv, SentOnce
<1>4. CASE /\ queue[k] # <<>>
           /\ pc' = [pc EXCEPT ![k] = "execute"]
           /\ batch' = [batch EXCEPT ![k] = NextBatch(queue[k])]
           /\ queue' = [queue EXCEPT ![k] = Drop(queue[k], NextBatch(queue[k]))]
           /\ late' = [late EXCEPT ![k] = @ \cap RequestsIn(queue'[k])]
  <2> DEFINE b == NextBatch(queue[k])
             d == Drop(queue[k], b)
  <2>1. RankOK(arrived, queue[k], <<>>) /\ queue[k] \in Batches
    BY <1>1, <1>4, Zenon DEF ServedInv, RankOK, Batches
  <2>2. RankOK(arrived, d, b) /\ b # <<>> /\ Range(d) \cup Range(b) = Range(queue[k])
    BY <1>1, <2>1, RankSelects, Zenon DEF Once
  <2> HIDE DEF b, d
  <2>3. /\ queue' = [queue EXCEPT ![k] = d] /\ batch' = [batch EXCEPT ![k] = b]
        /\ d \in Seq(Items) /\ b \in Seq(Items)
    BY <1>4, <2>2, Zenon DEF b, d, RankOK
  <2>4. TypeOK'
    BY <1>1, <1>2, <1>4, <2>2, <2>3 DEF TypeOK
  <2>5. pc'[0] = "dead" <=> pc[0] = "dead"
    BY <1>1, <1>4, Zenon DEF TypeOK
  <2>6. ASSUME NEW j \in Ranks PROVE RankOK(arrived', queue'[j], batch'[j])
    <3>1. CASE j = k
      <4>1. queue'[j] = d /\ batch'[j] = b
        BY <1>1, <2>3, <3>1, Zenon DEF TypeOK
      <4> QED
        BY <1>2, <2>2, <4>1, Zenon
    <3>2. CASE j # k
      <4>1. queue'[j] = queue[j] /\ batch'[j] = batch[j]
        BY <1>1, <2>3, <3>2, Zenon DEF TypeOK
      <4> QED
        BY <1>2, <4>1, Zenon DEF ServedInv
    <3> QED
      BY <3>1, <3>2, Zenon
  <2>7. Range(queue'[0]) \cup Range(batch'[0]) = Range(queue[0]) \cup Range(batch[0])
    <3>1. CASE k = 0
      <4>1. queue'[0] = d /\ batch'[0] = b /\ batch[0] = <<>>
        BY <1>1, <2>3, <3>1, Zenon DEF TypeOK
      <4>2. Range(<<>>) = {}
        BY DEF Range
      <4> QED
        BY <2>2, <3>1, <4>1, <4>2, Zenon
    <3>2. CASE k # 0
      <4>1. queue'[0] = queue[0] /\ batch'[0] = batch[0]
        BY <1>1, <2>3, <3>2, Zenon DEF TypeOK
      <4> QED
        BY <4>1, Zenon
    <3> QED
      BY <3>1, <3>2, Zenon
  <2>8. \A r \in Requests : ClientOK(arrived', queue'[0], batch'[0], r, replies'[r])
    BY <1>2, <2>7, Zenon DEF ServedInv, ClientOK
  <2> QED
    BY <1>2, <2>4, <2>5, <2>6, <2>8, Zenon DEF ServedInv, SentOnce
<1> QED
  BY <1>3, <1>4, Zenon DEF Select

\* The batch that all ranks generate, and the ranks once they have.
LEMMA TurnedServes ==
    ASSUME ServedInv, NEW b \in Seq(Items), b = batch[0],
           \A k \in Ranks : pc[k] = "execute", Turned,
           \E n \in 0..Len(b) :
             /\ n = Len(b) \/ "send" \in Faults
             /\ \A r \in Requests : Gets(b, n, r, replies[r], replies'[r]),
           UNCHANGED <<inbox, sent, arrived, queue, late, sleeping, warmed, errors>>
    PROVE  ServedInv'
<1>1. TypeOK /\ 0 \in Ranks
  BY SchedulerAssumption, Zenon DEF ServedInv
<1>2. /\ \A k \in Ranks : pc'[k] = "recv" /\ batch'[k] = <<>>
      /\ pc' \in [Ranks -> {"recv", "select", "execute", "stopped", "dead"}]
      /\ batch' \in [Ranks -> Seq(Items)]
  <2>1. <<>> \in Seq(Items)
    OBVIOUS
  <2> QED
    BY <2>1, Zenon DEF Turned
<1>3. TypeOK'
  BY <1>1, <1>2, Zenon DEF TypeOK
<1>4. errors < MaxErrors
  BY <1>1, Zenon DEF ServedInv
<1>5. ASSUME NEW k \in Ranks PROVE RankOK(arrived', queue'[k], batch'[k])
  <2>1. RankOK(arrived, queue[k], batch[k])
    BY Zenon DEF ServedInv
  <2>2. RankOK(arrived, queue[k], <<>>)
    BY <2>1, RankNone, Zenon
  <2> QED
    BY <1>2, <2>2, Zenon
<1>6. ASSUME NEW r \in Requests PROVE ClientOK(arrived', queue'[0], batch'[0], r, replies'[r])
  <2>1. PICK n \in 0..Len(b) : /\ n = Len(b) \/ "send" \in Faults
                               /\ Gets(b, n, r, replies[r], replies'[r])
    BY Zenon
  <2>2. RankOK(arrived, queue[0], b) /\ ClientOK(arrived, queue[0], b, r, replies[r])
    BY <1>1, Zenon DEF ServedInv
  <2>3. ClientOK(arrived, queue[0], <<>>, r, replies'[r])
    BY <2>1, <2>2, ClientFinished, Zenon
  <2> QED
    BY <1>1, <1>2, <2>3, Zenon
<1> QED
  BY <1>3, <1>4, <1>5, <1>6, Zenon DEF ServedInv, SentOnce

\* _handle_generation of a batch answers all of it, or fails for some of it.
LEMMA GenerateServes == ServedInv /\ Generate => ServedInv'
<1> SUFFICES ASSUME ServedInv, Generate PROVE ServedInv'
  BY Zenon
<1> DEFINE b == batch[0]
<1>1. b \in Seq(Items)
  BY SchedulerAssumption, Zenon DEF ServedInv, TypeOK
<1>2. (\A k \in Ranks : pc[k] = "execute") /\ Turned
      /\ UNCHANGED <<inbox, sent, arrived, queue, late, sleeping, warmed, errors>>
  BY Zenon DEF Generate, Together
<1>3. PICK res : Results(b, res) /\ Return(b, res)
  <2>1. PICK bad : Return(b, Partly(b, bad))
    BY Zenon DEF Generate
  <2> QED
    BY <1>1, <2>1, ResultsAre, Zenon
<1>4. b = batch[0]
  BY Zenon
<1> HIDE DEF b
<1>5. \E n \in 0..Len(b) :
        /\ n = Len(b) \/ "send" \in Faults
        /\ \A r \in Requests : Gets(b, n, r, replies[r], replies'[r])
  BY <1>1, <1>3, ReturnIs, Zenon
<1> QED
  BY <1>1, <1>2, <1>4, <1>5, TurnedServes, Zenon

\* _return_results_sequentially answers the first of the batch and keeps the
\* rest, or ends the batch.
LEMMA GenerateNextServes == ServedInv /\ GenerateNext => ServedInv'
<1> SUFFICES ASSUME ServedInv, GenerateNext PROVE ServedInv'
  BY Zenon
<1> DEFINE b == batch[0]
           first == SubSeq(b, 1, 1)
<1>1. b \in Seq(Items) /\ TypeOK /\ 0 \in Ranks /\ arrived \in Seq(Requests) /\ Once(arrived)
  BY SchedulerAssumption, Zenon DEF ServedInv, TypeOK, SentOnce
<1>2. /\ \A k \in Ranks : pc[k] = "execute" /\ batch[k] = b
      /\ Len(b) > 1
      /\ UNCHANGED <<inbox, sent, arrived, queue, late, sleeping, warmed, errors>>
  BY Zenon DEF GenerateNext, Together
<1>3. \A k \in Ranks : RankOK(arrived, queue[k], b)
  BY <1>2, Zenon DEF ServedInv
<1>4. \A r \in Requests : ClientOK(arrived, queue[0], b, r, replies[r])
  BY Zenon DEF ServedInv
<1>5. b # <<>> /\ Tail(b) \in Seq(Items) /\ Tail(b) # <<>>
  <2> HIDE DEF b
  <2>1. b # <<>>
    BY <1>1, <1>2
  <2>2. Tail(b) \in Seq(Items) /\ Len(Tail(b)) = Len(b) - 1 /\ Len(b) \in Nat
    BY <1>1, <2>1
  <2>3. Len(Tail(b)) > 0
    BY <1>2, <2>2
  <2>4. \A t \in Seq(Items) : Len(t) > 0 => t # <<>>
    OBVIOUS
  <2> QED
    BY <2>1, <2>2, <2>3, <2>4, Zenon
<1>6. \A k \in Ranks : RankOK(arrived, queue[k], Tail(b))
  BY <1>3, <1>5, RankTail, Zenon
<1>7. errors < MaxErrors
  BY <1>1, <1>2, Zenon DEF ServedInv
<1>8. first \in Seq(Items) /\ Len(first) = 1 /\ first[1] = b[1]
  BY <1>1, <1>2
<1>9. b = batch[0]
  BY Zenon
<1> DEFINE Sends == /\ Replied(first, 1, Split(first)) \/ Replied(first, 1, Errors(first))
                    /\ batch' = [k \in Ranks |-> Tail(b)] /\ UNCHANGED pc
           Breaks == /\ "send" \in Faults
                     /\ batch' = [k \in Ranks |-> IF k = 0 THEN <<>> ELSE Tail(b)]
                     /\ pc' = [pc EXCEPT ![0] = "recv"] /\ UNCHANGED replies
           Fails == Return(b, Errors(b)) /\ Turned
<1>10. Sends \/ Breaks \/ Fails
  BY Zenon DEF GenerateNext
<1> HIDE DEF b, first
<1>11. CASE Sends
  <2>1. TypeOK'
    BY <1>1, <1>2, <1>5, <1>11, Zenon DEF TypeOK
  <2>2. \A r \in Requests : Gets(first, 1, r, replies[r], replies'[r])
    <3>1. 1 \in 0..Len(first)
      BY <1>8
    <3> QED
      BY <1>8, <1>11, <3>1, RepliedIs, ResultsAre, Zenon
  <2>3. ASSUME NEW r \in Requests PROVE ClientOK(arrived', queue'[0], batch'[0], r, replies'[r])
    <3>1. (\E i \in 1..1 : first[i] = Item(r)) <=> b[1] = Item(r)
      BY <1>8
    <3>2. IF b[1] = Item(r) THEN \E v \in {Failed, OutputsOf(r)} : replies'[r] = Append(replies[r], v)
          ELSE replies'[r] = replies[r]
      BY <2>2, <3>1, Zenon DEF Gets
    <3>3. RankOK(arrived, queue[0], b) /\ ClientOK(arrived, queue[0], b, r, replies[r])
      BY <1>1, <1>3, <1>4, Zenon
    <3>4. ClientOK(arrived, queue[0], Tail(b), r, replies'[r])
      BY <1>1, <1>5, <3>2, <3>3, ClientFirst, Zenon
    <3> QED
      BY <1>1, <1>2, <1>11, <3>4, Zenon
  <2>4. \A k \in Ranks : RankOK(arrived', queue'[k], batch'[k])
    BY <1>2, <1>6, <1>11, Zenon
  <2> QED
    BY <1>2, <1>7, <1>11, <2>1, <2>3, <2>4, Zenon DEF ServedInv, SentOnce
<1>12. CASE Breaks
  <2>0. <<>> \in Seq(Items)
    OBVIOUS
  <2>1. TypeOK'
    <3>1. batch' \in [Ranks -> Seq(Items)]
      BY <1>5, <1>12, <2>0, Zenon
    <3>2. pc' \in [Ranks -> {"recv", "select", "execute", "stopped", "dead"}]
      BY <1>1, <1>12, Zenon DEF TypeOK
    <3>3. \A k \in Ranks : batch'[k] # <<>> <=> pc'[k] = "execute"
      BY <1>1, <1>2, <1>5, <1>12, Zenon DEF TypeOK
    <3> QED
      BY <1>1, <1>2, <3>1, <3>2, <3>3, Zenon DEF TypeOK
  <2>2. ASSUME NEW r \in Requests PROVE ClientOK(arrived', queue'[0], batch'[0], r, replies'[r])
    <3>1. RankOK(arrived, queue[0], b) /\ ClientOK(arrived, queue[0], b, r, replies[r])
      BY <1>1, <1>3, <1>4, Zenon
    <3>2. 0 \in 0..Len(b) /\ Gets(b, 0, r, replies[r], replies[r])
      BY <1>1 DEF Gets
    <3>3. ClientOK(arrived, queue[0], <<>>, r, replies[r])
      BY <1>12, <3>1, <3>2, ClientFinished, Zenon
    <3> QED
      BY <1>1, <1>2, <1>12, <3>3, ZenonT(30)
  <2>3. ASSUME NEW k \in Ranks PROVE RankOK(arrived', queue'[k], batch'[k])
    <3>1. CASE k = 0
      <4>1. RankOK(arrived, queue[k], <<>>)
        BY <1>3, RankNone, Zenon
      <4> QED
        BY <1>2, <1>12, <3>1, <4>1, Zenon
    <3>2. CASE k # 0
      BY <1>2, <1>6, <1>12, <3>2, Zenon
    <3> QED
      BY <3>1, <3>2, Zenon
  <2> QED
    BY <1>2, <1>7, <2>1, <2>2, <2>3, Zenon DEF ServedInv, SentOnce
<1>13. CASE Fails
  <2>1. \E n \in 0..Len(b) :
          /\ n = Len(b) \/ "send" \in Faults
          /\ \A r \in Requests : Gets(b, n, r, replies[r], replies'[r])
    BY <1>1, <1>13, ReturnIs, ResultsAre, Zenon
  <2>2. \A k \in Ranks : pc[k] = "execute"
    BY <1>2, Zenon
  <2> QED
    BY <1>1, <1>2, <1>9, <1>13, <2>1, <2>2, TurnedServes, Zenon
<1> QED
  BY <1>10, <1>11, <1>12, <1>13, Zenon

\* The turn of one rank ends with its batch.
LEMMA AloneServes ==
    ASSUME ServedInv, NEW k \in Ranks, NEW p \in {"stopped", "recv"}, NEW res,
           pc[k] = "execute", Results(batch[k], res),
           TurnedAlone(k, p, batch[k], res),
           UNCHANGED <<inbox, sent, arrived, queue, late, warmed, errors>>,
           sleeping' \in [Ranks -> BOOLEAN]
    PROVE  ServedInv'
<1> DEFINE b == batch[k]
<1>1. TypeOK /\ 0 \in Ranks /\ b \in Seq(Items)
  BY SchedulerAssumption, Zenon DEF ServedInv, TypeOK
<1>2. RankOK(arrived, queue[k], b)
  BY Zenon DEF ServedInv
<1>5. /\ batch' = [batch EXCEPT ![k] = <<>>]
      /\ pc' = [pc EXCEPT ![k] = p]
  BY Zenon DEF TurnedAlone
<1>6. <<>> \in Seq(Items)
  OBVIOUS
<1>7. TypeOK'
  <2>1. /\ batch' \in [Ranks -> Seq(Items)]
        /\ pc' \in [Ranks -> {"recv", "select", "execute", "stopped", "dead"}]
        /\ \A j \in Ranks : batch'[j] # <<>> <=> pc'[j] = "execute"
    BY <1>1, <1>5, <1>6, Zenon DEF TypeOK
  <2> QED
    BY <1>1, <1>5, <2>1, Zenon DEF TypeOK
<1>8. pc'[0] # "dead" => errors < MaxErrors
  BY <1>1, <1>5, Zenon DEF ServedInv, TypeOK
<1>9. ASSUME NEW j \in Ranks PROVE RankOK(arrived', queue'[j], batch'[j])
  <2>1. RankOK(arrived, queue[j], batch[j])
    BY Zenon DEF ServedInv
  <2>2. RankOK(arrived, queue[j], <<>>)
    BY <2>1, RankNone, Zenon
  <2>3. batch'[j] = IF j = k THEN <<>> ELSE batch[j]
    BY <1>1, <1>5, Zenon DEF TypeOK
  <2> QED
    BY <1>5, <2>1, <2>2, <2>3, Zenon
<1>10. ASSUME NEW r \in Requests PROVE ClientOK(arrived', queue'[0], batch'[0], r, replies'[r])
  <2>1. ClientOK(arrived, queue[0], batch[0], r, replies[r])
    BY Zenon DEF ServedInv
  <2>2. CASE k # 0
    <3>1. replies' = replies /\ batch'[0] = batch[0]
      BY <1>1, <1>5, <2>2, Zenon DEF TurnedAlone, TypeOK
    <3> QED
      BY <1>5, <2>1, <3>1, Zenon
  <2>3. CASE k = 0
    <3>2. Results(b, res) /\ Return(b, res)
      BY <2>3, Zenon DEF TurnedAlone
    <3>3. batch'[0] = <<>> /\ b = batch[0]
      BY <1>1, <1>5, <2>3, Zenon DEF TypeOK
    <3> HIDE DEF b
    <3>4. PICK n \in 0..Len(b) :
             /\ n = Len(b) \/ "send" \in Faults
             /\ \A s \in Requests : Gets(b, n, s, replies[s], replies'[s])
      BY <1>1, <3>2, ReturnIs, Zenon
    <3>5. Gets(b, n, r, replies[r], replies'[r])
      BY <3>4, Zenon
    <3>6. RankOK(arrived, queue[0], b) /\ ClientOK(arrived, queue[0], b, r, replies[r])
      BY <1>2, <2>1, <2>3, <3>3, Zenon
    <3>7. ClientOK(arrived, queue[0], <<>>, r, replies'[r])
      BY <3>4, <3>5, <3>6, ClientFinished, Zenon
    <3> QED
      BY <1>5, <3>3, <3>7, Zenon
  <2> QED
    BY <2>2, <2>3, Zenon
<1> QED
  BY <1>5, <1>7, <1>8, <1>9, <1>10, Zenon DEF ServedInv, SentOnce

\* An operation on the worker was taken alone.
LEMMA TakenAlone ==
    ASSUME ServedInv, NEW k \in Ranks, pc[k] = "execute",
           Kind[Head(batch[k]).r] \notin Generations
    PROVE  batch[k] \in Seq(Items) /\ batch[k] = <<Head(batch[k])>>
<1> DEFINE b == batch[k]
<1>1. TypeOK /\ b \in Seq(Items) /\ b # <<>>
  BY Zenon DEF ServedInv, TypeOK
<1>2. RankOK(arrived, queue[k], b)
  BY Zenon DEF ServedInv
<1>3. Kind[Head(b).r] \notin Generations /\ Head(b) = b[1]
  BY <1>1
<1>4. Len(b) = 1 /\ b = <<Head(b)>>
  <2> HIDE DEF b
  <2>1. Kind[b[1].r] # "gen"
    BY <1>3, Zenon DEF Generations
  <2>2. ~(Len(b) > 1)
    <3> SUFFICES ASSUME Len(b) > 1 PROVE FALSE
      BY Zenon
    <3>1. 1 \in 1..Len(b) /\ \A i \in 1..Len(b) : CanBatch(b[1], b[i])
      BY <1>1, <1>2 DEF RankOK, WellFormed
    <3>2. CanBatch(b[1], b[1])
      BY <3>1, Zenon
    <3> QED
      BY <2>1, <3>2, Zenon DEF CanBatch
  <2>3. Len(b) \in Nat /\ Len(b) # 0
    BY <1>1
  <2>4. Len(b) = 1
    <3>1. PICK n \in Nat : n = Len(b) /\ n # 0 /\ ~(n > 1)
      BY <2>2, <2>3, Zenon
    <3>2. n = 1
      BY <3>1
    <3> QED
      BY <3>1, <3>2, Zenon
  <2>5. b = <<b[1]>>
    BY <1>1, <2>4
  <2>6. b = <<Head(b)>>
    BY <1>3, <2>5, Zenon
  <2> QED
    BY <2>4, <2>6, Zenon
<1> QED
  BY <1>1, <1>4, Zenon

\* An operation on the worker ends the turn of its rank, whether it goes well
\* or fails there.
LEMMA OperateServes ==
    ASSUME ServedInv, NEW k \in Ranks, Operate(k) \/ OperateFails(k)
    PROVE  ServedInv'
<1>1. pc[k] = "execute" /\ Kind[Head(batch[k]).r] \notin Generations
  BY Zenon DEF Operate, OperateFails, Generations
<1>2. batch[k] \in Seq(Items) /\ batch[k] = <<Head(batch[k])>>
  BY <1>1, TakenAlone, Zenon
<1>3. sleeping \in [Ranks -> BOOLEAN]
  BY Zenon DEF ServedInv, TypeOK
<1>4. sleeping' \in [Ranks -> BOOLEAN]
  BY <1>3, Zenon DEF Operate, OperateFails
<1>5. UNCHANGED <<inbox, sent, arrived, queue, late, warmed, errors>>
  BY Zenon DEF Operate, OperateFails
<1>6. PICK p \in {"stopped", "recv"},
           res \in {Split(<<Head(batch[k])>>), Errors(<<Head(batch[k])>>)} :
         TurnedAlone(k, p, <<Head(batch[k])>>, res)
  BY Zenon DEF Operate, OperateFails
<1>7. Results(batch[k], res) /\ TurnedAlone(k, p, batch[k], res)
  BY <1>2, <1>6, ResultsAre, Zenon
<1> QED
  BY <1>1, <1>4, <1>5, <1>7, AloneServes, Zenon

\* A rank whose worker sleeps refuses the whole batch.
LEMMA RefuseServes ==
    ASSUME ServedInv, NEW k \in Ranks, Refuse(k)
    PROVE  ServedInv'
<1>1. batch[k] \in Seq(Items) /\ sleeping \in [Ranks -> BOOLEAN]
  BY Zenon DEF ServedInv, TypeOK
<1>2. /\ pc[k] = "execute" /\ TurnedAlone(k, "recv", batch[k], Errors(batch[k]))
      /\ UNCHANGED <<inbox, sent, arrived, queue, late, warmed, errors>>
      /\ sleeping' = sleeping
  BY Zenon DEF Refuse
<1>3. Results(batch[k], Errors(batch[k]))
  BY <1>1, ResultsAre, Zenon
<1> QED
  BY <1>1, <1>2, <1>3, AloneServes, Zenon

\* Every step of the scheduler keeps the invariant.
LEMMA ServedNext == ServedInv /\ [Next]_vars => ServedInv'
<1> SUFFICES ASSUME ServedInv, [Next]_vars PROVE ServedInv'
  BY Zenon
<1>1. CASE UNCHANGED vars
  BY <1>1, Zenon DEF vars, ServedInv, TypeOK, SentOnce
<1> QED
  BY <1>1, SendServes, RecvServes, RecvFailsServes, ElapseServes, SelectServes,
     GenerateServes, GenerateNextServes, OperateServes, RefuseServes, Zenon DEF Next

\* Throughout, what the ranks and the clients have is as ServedInv says.
THEOREM ServedAlways == Spec => []ServedInv
  BY InitServed, ServedNext, PTL DEF Spec

\* The state of the scheduler keeps its types: a rank has a batch exactly while
\* it executes, and the count of errors never passes _max_consecutive_errors.
THEOREM SchedulerTypes == Spec => []TypeOK
  BY ServedAlways, PTL DEF ServedInv

\* No client is answered twice or with the outputs of another: warmups,
\* batching, the split of a merged output and sequential replies included.
THEOREM RepliesAreOwn == Spec => []OwnReplyOnce
<1>1. ASSUME ServedInv PROVE OwnReplyOnce
  <2> SUFFICES ASSUME NEW r \in Requests
               PROVE  /\ Len(replies[r]) <= 1
                      /\ replies[r] # <<>> => replies[r][1] \in {Failed, OutputsOf(r)}
    BY Zenon DEF OwnReplyOnce, Answered
  <2>1. replies[r] \in {<<>>, <<Failed>>, <<OutputsOf(r)>>}
    BY <1>1, Zenon DEF ServedInv, ClientOK
  <2>2. CASE replies[r] = <<>>
    BY <2>2
  <2>3. CASE replies[r] = <<Failed>>
    BY <2>3
  <2>4. CASE replies[r] = <<OutputsOf(r)>>
    BY <2>4
  <2> QED
    BY <2>1, <2>2, <2>3, <2>4, Zenon
<1> QED
  BY <1>1, ServedAlways, PTL

\* Whatever the queue holds, the scan of get_next_batch_to_run builds batches
\* that the admission control allows: all compatible with the head, and within
\* the limits on size, outputs and cost together.
THEOREM BatchesAreAdmitted == Spec => []BatchesAdmitted
<1>1. ServedInv => BatchesAdmitted
  BY Zenon DEF ServedInv, RankOK, WellFormed, BatchesAdmitted
<1> QED
  BY <1>1, ServedAlways, PTL

\* The scan passes over what does not fit, yet of two compatible requests of
\* the same size the later one never leaves a queue before the earlier one.
THEOREM ClassesAreFifo == Spec => []FifoWithinClass
<1>1. ASSUME ServedInv PROVE FifoWithinClass
  <2> SUFFICES ASSUME NEW k \in Ranks,
                      NEW r \in RequestsIn(queue[k]) \cup {arrived[i] : i \in 1..Len(arrived)},
                      NEW s \in RequestsIn(queue[k]) \cup {arrived[i] : i \in 1..Len(arrived)},
                      CanBatch(Item(r), Item(s)), Outs[r] = Outs[s], Cost[r] = Cost[s],
                      Position(r) < Position(s), s \notin RequestsIn(queue[k]),
                      Item(r) \in Range(queue[k])
               PROVE  FALSE
    BY Zenon DEF FifoWithinClass
  <2>1. /\ arrived \in Seq(Requests) /\ RankOK(arrived, queue[k], batch[k])
        /\ queue[k] \in Seq(Items)
    BY <1>1, Zenon DEF ServedInv, TypeOK
  <2>2. DOMAIN arrived = 1..Len(arrived) /\ DOMAIN queue[k] = 1..Len(queue[k])
    BY <2>1
  <2>3. \A x \in RequestsIn(queue[k]) : x \in Range(arrived)
    <3> SUFFICES ASSUME NEW i \in 1..Len(queue[k]) PROVE queue[k][i].r \in Range(arrived)
      BY Zenon DEF RequestsIn
    <3>1. queue[k][i] \in Range(queue[k])
      BY <2>2, Zenon DEF Range
    <3> QED
      BY <2>1, <3>1, Zenon DEF RankOK
  <2>4. \A i \in 1..Len(arrived) : arrived[i] \in Range(arrived)
    BY <2>2, Zenon DEF Range
  <2>5. r \in Range(arrived) /\ s \in Range(arrived)
    BY <2>3, <2>4, Zenon
  <2>6. \A x \in Range(arrived) : x \in Requests /\ \E i \in 1..Len(arrived) : arrived[i] = x
    BY <2>1, <2>2 DEF Range
  <2>7. PosOf(arrived)[r] = Position(r) /\ PosOf(arrived)[s] = Position(s)
    BY <2>5, <2>6, Zenon DEF PosOf, Position
  <2>8. Similar(Item(r), Item(s))
    BY Zenon DEF Similar, Item
  <2>9. Item(s) \notin Range(queue[k])
    <3> SUFFICES ASSUME Item(s) \in Range(queue[k]) PROVE FALSE
      BY Zenon
    <3>1. PICK i \in 1..Len(queue[k]) : queue[k][i] = Item(s)
      BY <2>2, Zenon DEF Range
    <3>2. queue[k][i].r = s
      BY <3>1 DEF Item
    <3> QED
      BY <3>2, Zenon DEF RequestsIn
  <2>10. NoneOvertaken(arrived, queue[k])
    BY <2>1, Zenon DEF RankOK
  <2> QED
    BY <2>5, <2>7, <2>8, <2>9, <2>10, Zenon DEF NoneOvertaken
<1> QED
  BY <1>1, ServedAlways, PTL

\* What rank 0 has queued waits, runs or is answered, if replies can be sent:
\* a reply that the socket refuses is not tried again.
THEOREM QueuedIsKept ==
    ASSUME "send" \notin Faults
    PROVE  Spec => []NothingDropped
<1>1. ASSUME ServedInv PROVE NothingDropped
  <2> SUFFICES ASSUME NEW r \in Requests, HasArrived(r), replies[r] = <<>>
               PROVE  Item(r) \in Range(queue[0]) \cup Range(batch[0])
    BY Zenon DEF NothingDropped, Answered
  <2>1. arrived \in Seq(Requests)
    BY <1>1, Zenon DEF ServedInv, TypeOK
  <2>2. r \in Range(arrived)
    BY <2>1 DEF HasArrived, Range
  <2> QED
    BY <1>1, <2>2, Zenon DEF ServedInv, ClientOK
<1> QED
  BY <1>1, ServedAlways, PTL
=============================================================================
