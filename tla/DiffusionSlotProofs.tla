------------------------ MODULE DiffusionSlotProofs ------------------------
(***************************************************************************)
(* What an instance has is never lost and never given twice.  Held counts  *)
(* the free slots of an instance and the requests that occupy one; Wanted  *)
(* says that what is staged or allocated on an instance belongs to a request*)
(* that will come for it.  Last, that no request waits for a slot that is  *)
(* free.                                                                   *)
(***************************************************************************)
EXTENDS DiffusionServerProofs, CommonFacts, FiniteSetTheorems

\* The requests that occupy a slot of an instance.
BusyOn(role, i) == {r \in DOMAIN rec : Occupies(r, role, i)}

\* The request occupies one.
Busy(r, role, i) == Tracked(r) /\ Occupies(r, role, i)

\* Nothing is lost: no request expires, and only the steps of an instance fail that
\* it reports with the slot.
Lossless == ~Timeouts /\ Faults \subseteq {"denoise", "decode"}

\* Free slots and occupied slots together are at most what an instance has.
Held ==
    /\ IsFiniteSet(DOMAIN rec)
    /\ \A m \in results : m.kind = "error" => "encode" \in Faults
    /\ \A role \in Roles : \A i \in Instances(role) :
         LET n == free_slots[role][i] + Cardinality(BusyOn(role, i))
         IN n <= Capacity[role] /\ (Lossless => n = Capacity[role])

\* What a step may do to the slots of an instance and to the request it concerns.
Counts(r, role, i) ==
    LET now   == free_slots[role][i]
        later == free_slots'[role][i]
    IN \/ later = now /\ (Busy(r, role, i)' => Busy(r, role, i))
                      /\ (Lossless /\ Busy(r, role, i) => Busy(r, role, i)')
       \/ later = now + 1 /\ Busy(r, role, i) /\ ~Busy(r, role, i)'
       \/ later = now - 1 /\ ~Busy(r, role, i) /\ (Lossless => Busy(r, role, i)')

\* Sets that differ in at most one element.
LEMMA DifferInOne ==
    ASSUME NEW S, NEW T, NEW x, IsFiniteSet(S), S \ {x} = T \ {x}
    PROVE  /\ IsFiniteSet(T) /\ Cardinality(S) \in Nat /\ Cardinality(T) \in Nat
           /\ x \in S /\ x \notin T => Cardinality(T) = Cardinality(S) - 1
           /\ x \notin S /\ x \in T => Cardinality(T) = Cardinality(S) + 1
           /\ (x \in S <=> x \in T) => T = S
<1>1. CASE x \in S /\ x \notin T
  <2>1. T = S \ {x}
    BY <1>1, Zenon
  <2> QED
    BY <1>1, <2>1, FS_RemoveElement, FS_CardinalityType, Zenon
<1>2. CASE x \notin S /\ x \in T
  <2>1. T = S \cup {x}
    BY <1>2, Zenon
  <2> QED
    BY <1>2, <2>1, FS_AddElement, FS_CardinalityType, ZenonT(30)
<1>3. CASE x \in S <=> x \in T
  <2>1. T = S
    BY <1>3
  <2> QED
    BY <1>3, <2>1, FS_CardinalityType, Zenon
<1> QED
  BY <1>1, <1>2, <1>3, Zenon

\* Whether other requests occupy a slot does not change.
LEMMA OthersBusy ==
    ASSUME Flow, Flow', NEW r, Concerns(r), NEW q \in Requests \ {r}, NEW role, NEW i
    PROVE  Busy(q, role, i)' <=> Busy(q, role, i)
<1>1. Same(q) /\ (Tracked(q)' <=> Tracked(q)) /\ (Tracked(q) => rec'[q] = rec[q])
  BY Zenon DEF Concerns, Same, SameTables, Tracked
<1>2. InTransfer(q)' <=> InTransfer(q)
  BY <1>1, Zenon DEF Same, InTransfer, Msgs
<1> QED
  BY <1>1, <1>2, Zenon DEF Busy, Occupies

\* If every instance's slots are counted right, the sum is kept.
LEMMA CountsKeep ==
    ASSUME Flow, Flow', Slots, Slots', Held, NEW r, Concerns(r),
           r \in Requests => \A role \in Roles : \A i \in Instances(role) : Counts(r, role, i),
           r \notin Requests => free_slots' = free_slots,
           \A m \in results' \ results : m.kind = "error" => "encode" \in Faults
    PROVE  Held'
<1>1. DOMAIN rec \subseteq Requests /\ DOMAIN rec' \subseteq Requests
  BY Zenon DEF Flow, Tables
<1>2. \A q \in Requests \ {r} : q \in DOMAIN rec' <=> q \in DOMAIN rec
  BY Zenon DEF Concerns, Same, SameTables
<1>3. IsFiniteSet(DOMAIN rec')
  <2>1. (DOMAIN rec) \ {r} = (DOMAIN rec') \ {r}
    BY <1>1, <1>2, Zenon
  <2> QED
    BY <2>1, DifferInOne, Zenon DEF Held
<1>4. ASSUME NEW role \in Roles, NEW i \in Instances(role)
      PROVE  LET n == free_slots'[role][i] + Cardinality(BusyOn(role, i)')
             IN n <= Capacity[role] /\ (Lossless => n = Capacity[role])
  <2>1. PICK S, T : S = BusyOn(role, i) /\ T = BusyOn(role, i)'
    BY Zenon
  <2>2. \A q : (q \in S <=> Busy(q, role, i)) /\ (q \in T <=> Busy(q, role, i)')
    BY <2>1, Zenon DEF BusyOn, Busy, Tracked
  <2>3. S \subseteq Requests /\ T \subseteq Requests /\ IsFiniteSet(S)
    BY <1>1, <2>1, FS_Subset, Zenon DEF BusyOn, Held
  <2>4. S \ {r} = T \ {r}
    BY <2>2, <2>3, OthersBusy, Zenon
  <2>5. PICK a \in Int, b \in Int, c \in Int : a = free_slots[role][i] /\ b = free_slots'[role][i] /\ c = Capacity[role]
    BY ConstantsAssumption DEF Slots
  <2>6. a + Cardinality(S) <= c /\ (Lossless => a + Cardinality(S) = c)
    BY <2>1, <2>5, Zenon DEF Held
  <2>7. CASE r \in Requests
    <3>1. \/ b = a /\ (r \in T => r \in S) /\ (Lossless /\ r \in S => r \in T)
          \/ b = a + 1 /\ r \in S /\ r \notin T
          \/ b = a - 1 /\ r \notin S /\ (Lossless => r \in T)
      BY <2>2, <2>5, <2>7, Zenon DEF Counts
    <3>2. b + Cardinality(T) <= c /\ (Lossless => b + Cardinality(T) = c)
      BY <2>3, <2>4, <2>6, <3>1, DifferInOne
    <3> QED
      BY <2>1, <2>5, <3>2, Zenon
  <2>8. CASE r \notin Requests
    <3>1. T = S /\ b = a
      BY <2>3, <2>4, <2>5, <2>8, Zenon
    <3> QED
      BY <2>1, <2>5, <2>6, <3>1, Zenon
  <2> QED
    BY <2>7, <2>8, Zenon
<1> QED
  BY <1>3, <1>4, Zenon DEF Held

\* The messages of a transfer.
Moving == {"alloc", "allocated", "push", "pushed"}

\* The one message of a request tells whether it is in a transfer.
LEMMA InTransferIs ==
    ASSUME Flow, NEW r \in Requests
    PROVE  /\ \A m \in Msgs : m.r = r => (InTransfer(r) <=> m.kind \in Moving)
           /\ \A role \in Roles : Queued(r, role) => ~InTransfer(r)
           /\ \A n : Alone(n, r) => (InTransfer(r)' <=> n.kind \in Moving)
           /\ Silent(r) => ~InTransfer(r)'
BY Zenon DEF Flow, ReqOK, OneToken, InTransfer, Msgs, Alone, Silent, Moving

\* In which states a request occupies a slot of an instance it is assigned to.
HasSlot(role, state, moving) ==
    \/ role = "enc" /\ state \in {"encoder_running", "denoising_waiting"}
    \/ role = "enc" /\ state = "denoising_running" /\ moving
    \/ role = "den" /\ state \in {"denoising_running", "decoder_waiting"}
    \/ role = "den" /\ state = "decoder_running" /\ moving
    \/ role = "dec" /\ state = "decoder_running"

\* Before a step and after it.
LEMMA BusyIs ==
    ASSUME NEW r, NEW role \in Roles, NEW i
    PROVE  /\ Busy(r, role, i) <=> Tracked(r) /\ rec[r][role] = i /\ HasSlot(role, rec[r].state, InTransfer(r))
           /\ Busy(r, role, i)' <=>
                Tracked(r)' /\ rec'[r][role] = i /\ HasSlot(role, rec'[r].state, InTransfer(r)')
BY Zenon DEF Busy, Occupies, HasSlot, Roles

\* Slots change only where one is given back.
LEMMA FreedSlot ==
    ASSUME Slots, NEW a, NEW j, FreeSlot(a, j), NEW role \in Roles, NEW i \in Instances(role)
    PROVE  /\ free_slots[role][i] \in Int
           /\ free_slots'[role][i] = IF a = role /\ j = i THEN free_slots[role][i] + 1 ELSE free_slots[role][i]
<1>1. i # None /\ i \in Int
  BY ConstantsAssumption DEF Instances, None
<1> QED
  BY <1>1, Zenon DEF FreeSlot, Slots

\* An instance neither gives nor takes slots; the request it works on stays in its
\* transfer, or stays out of one.
LEMMA InstanceCounts ==
    ASSUME Flow, Flow', NEW m \in work, Encode(m) \/ Allocate(m) \/ Push(m) \/ Denoise(m) \/ Decode(m)
    PROVE  /\ \A role \in Roles : \A i \in Instances(role) : Counts(m.r, role, i)
           /\ \A n \in results' \ results : n.kind = "error" => "encode" \in Faults
<1>1. m \in Msgs /\ m.r \in Requests /\ rec' = rec /\ free_slots' = free_slots
  BY InstanceConcerns, Zenon DEF Flow, Addressed, Msgs, server
<1> USE <1>1
<1>2. /\ InTransfer(m.r)' => InTransfer(m.r)
      /\ Lossless /\ InTransfer(m.r) => InTransfer(m.r)'
      /\ \A n \in results' \ results : n.kind = "error" => "encode" \in Faults
  <2>1. CASE \E n : Alone(n, m.r) /\ Follows(m, n) /\ results' = results \cup {n}
    BY <2>1, InTransferIs, Zenon DEF Follows, Moving
  <2>2. CASE Silent(m.r) /\ "alloc" \in Faults /\ results' = results
    BY <2>2, InTransferIs, Zenon DEF Lossless
  <2> QED
    BY <2>1, <2>2, InstanceAnswers, Zenon
<1>3. ASSUME NEW role \in Roles, NEW i \in Instances(role) PROVE Counts(m.r, role, i)
  BY <1>2, BusyIs, Zenon DEF Counts, HasSlot, Tracked
<1> QED
  BY <1>2, <1>3, Zenon

\* A request gives back what it occupies when it leaves the tracker.
LEMMA ForgetCounts ==
    ASSUME Flow, Slots, NEW r \in Requests, NEW a \in Roles, DOMAIN rec' = DOMAIN rec \ {r}, ~InTransfer(r),
           FreeSlot(a, OnInstance(r, a)), Tracked(r) => rec[r].state = Run[a]
    PROVE  \A role \in Roles : \A i \in Instances(role) : Counts(r, role, i)
<1> SUFFICES ASSUME NEW role \in Roles, NEW i \in Instances(role) PROVE Counts(r, role, i)
  BY Zenon
<1>1. ~Busy(r, role, i)' /\ i # None
  BY ConstantsAssumption DEF Busy, Tracked, Instances, None
<1>2. Busy(r, role, i) <=> a = role /\ OnInstance(r, a) = i
  BY <1>1, BusyIs DEF Tracked, OnInstance, HasSlot, Run, Roles
<1> QED
  BY <1>1, <1>2, FreedSlot DEF Counts

\* What the handlers of results do to the slots.
LEMMA HandlerCounts ==
    ASSUME Flow, Flow', Slots, Held, NEW m \in results, HandleResult(m), m.r \in Requests
    PROVE  \A role \in Roles : \A i \in Instances(role) : Counts(m.r, role, i)
<1>1. m.kind # "register"
  BY ConstantsAssumption, Zenon DEF Flow, Addressed, ResultKinds
<1>2. ~HandleRegister(m) /\ Receive(m)
  BY <1>1, Zenon DEF HandleResult, HandleRegister, HandleRoleError, HandleStaged,
         HandleAllocated, HandlePushed,
              HandleDone, HandleFailed, HandleOutput
<1>3. /\ m \in Msgs /\ MsgOK(m) /\ m.role \in Roles /\ m.idx \in Instances(m.role)
      /\ InTransfer(m.r) <=> m.kind \in Moving
  BY <1>1, <1>2, Received, InTransferIs, Zenon
<1> USE <1>1, <1>2, <1>3
<1>4. CASE HandleRoleError(m)
  <2>1. m.kind = "error" /\ free_slots' = free_slots /\ ~Tracked(m.r)' /\ ~Lossless
    BY <1>4, Zenon DEF HandleRoleError, Answer, Forget, Tracked, Held, Lossless
  <2> QED
    BY <2>1, Zenon DEF Counts, Busy
<1>5. CASE HandleFailed(m) \/ HandleOutput(m)
  <2>1. PICK a \in Roles : /\ FreeSlot(a, OnInstance(m.r, a)) /\ (Tracked(m.r) => rec[m.r].state = Run[a])
                           /\ DOMAIN rec' = DOMAIN rec \ {m.r} /\ ~InTransfer(m.r)
    BY <1>5, Zenon DEF HandleFailed, HandleOutput, MsgOK, DoneOK, OutputOK, At, On, Answer,
           Forget, Moving, Roles, Tracked
  <2> QED
    BY <2>1, ForgetCounts, Zenon
<1>6. CASE HandleStaged(m)
  <2>1. m.kind = "staged" /\ free_slots' = free_slots /\ (Tracked(m.r) => rec[m.r].state = "encoder_running")
    BY <1>6, Zenon DEF HandleStaged, MsgOK, EncodeOK, At, On, Run
  <2>2. /\ DOMAIN rec' = DOMAIN rec
        /\ Tracked(m.r) => /\ rec'[m.r].state = "denoising_waiting" /\ rec'[m.r].enc = rec[m.r].enc
                           /\ rec'[m.r].den = rec[m.r].den /\ rec'[m.r].dec = rec[m.r].dec
    BY <1>6, <2>1, MovesOn, Zenon DEF HandleStaged, Flow, ValidTransitions
  <2>3. ASSUME NEW role \in Roles, NEW i \in Instances(role) PROVE Counts(m.r, role, i)
    BY <2>1, <2>2, BusyIs DEF Counts, HasSlot, Tracked, Roles
  <2> QED
    BY <2>3, Zenon
<1>7. CASE HandleDone(m)
  <2>1. /\ m.kind = "done" /\ free_slots' = free_slots /\ ~InTransfer(m.r)
        /\ Tracked(m.r) => rec[m.r].state = "denoising_running"
    BY <1>7, Zenon DEF HandleDone, MsgOK, DoneOK, At, On, Run, Moving
  <2>2. /\ DOMAIN rec' = DOMAIN rec
        /\ Tracked(m.r) => /\ rec'[m.r].state = "decoder_waiting" /\ rec'[m.r].enc = rec[m.r].enc
                           /\ rec'[m.r].den = rec[m.r].den /\ rec'[m.r].dec = rec[m.r].dec
    <3>1. rec' = Move(Move(rec, m.r, "denoising_done"), m.r, "decoder_waiting")
      BY <1>7, Zenon DEF HandleDone, MsgOK, DoneOK
    <3> QED
      BY <2>1, <3>1, MovesOn, Zenon DEF Flow, ValidTransitions
  <2>3. ASSUME NEW role \in Roles, NEW i \in Instances(role) PROVE Counts(m.r, role, i)
    BY <2>1, <2>2, BusyIs DEF Counts, HasSlot, Tracked, Roles
  <2> QED
    BY <2>3, Zenon
<1>8. CASE HandleAllocated(m)
  <2>1. m.kind = "allocated" /\ free_slots' = free_slots /\ rec' = rec /\ InTransfer(m.r)
    BY <1>8, Zenon DEF HandleAllocated, Moving
  <2>2. ASSUME Tracked(m.r) PROVE InTransfer(m.r)'
    <3>1. m.r \in DOMAIN p2p /\ p2p[m.r].sender \in Instances(SenderRole(m.r))
      BY <2>1, <2>2 DEF MsgOK, AllocOK, StagedFor, At, On, Run, SenderRole, StateIn, Decoding,
             Tracked, Receivers, From
    <3>2. PICK n : work' = work \cup {n} /\ n.r = m.r /\ n.kind = "push"
      BY <1>8, <3>1, WorkFields DEF HandleAllocated
    <3> QED
      BY <3>2, Zenon DEF InTransfer
  <2> QED
    BY <2>1, <2>2, Zenon DEF Counts, Busy, Occupies, Tracked
<1>9. CASE HandlePushed(m)
  <2>1. m.kind = "pushed" /\ rec' = rec
    BY <1>9, Zenon DEF HandlePushed
  <2>2. CASE ~Tracked(m.r)
    BY <1>9, <2>1, <2>2, Zenon DEF HandlePushed, StateIn, Counts, Busy, Tracked
  <2>3. CASE Tracked(m.r)
    <3>1. m.r \in DOMAIN p2p /\ m.role # "dec" /\ rec[m.r].state = Run[To[m.role]] /\ rec[m.r][m.role] = m.idx
      BY <2>1, <2>3, Zenon DEF MsgOK, PushedOK, On
    <3>2. FreeSlot(m.role, m.idx) /\ \E n : work' = work \cup {n} /\ n.r = m.r /\ n.kind = "ready"
      BY <1>9, <2>3, <3>1, WorkFields DEF HandlePushed, StateIn, Tracked, Denoising, Decoding,
             Run, To, Roles
    <3>3. InTransfer(m.r) /\ ~InTransfer(m.r)'
      BY <2>1, <3>2, HandlerAlone, InTransferIs, Zenon DEF Moving
    <3>4. ASSUME NEW role \in Roles, NEW i \in Instances(role) PROVE Counts(m.r, role, i)
      <4>1. /\ role = m.role /\ i = m.idx => Busy(m.r, role, i) /\ ~Busy(m.r, role, i)'
            /\ ~(role = m.role /\ i = m.idx) => (Busy(m.r, role, i)' <=> Busy(m.r, role, i))
        BY <2>1, <2>3, <3>1, <3>3, BusyIs DEF HasSlot, Run, To, Roles, Tracked
      <4> QED
        BY <3>2, <4>1, FreedSlot DEF Counts
    <3> QED
      BY <3>4, Zenon
  <2> QED
    BY <2>2, <2>3, Zenon
<1> QED
  BY <1>4, <1>5, <1>6, <1>7, <1>8, <1>9, Zenon DEF HandleResult

\* A request that expires gives back at most what it occupies.
LEMMA TimeoutCounts ==
    ASSUME Flow, Slots, NEW r \in Requests, HandleTimeout(r)
    PROVE  \A role \in Roles : \A i \in Instances(role) : Counts(r, role, i)
<1> SUFFICES ASSUME NEW role \in Roles, NEW i \in Instances(role) PROVE Counts(r, role, i)
  BY Zenon
<1>1. Tracked(r) /\ ~Busy(r, role, i)' /\ rec[r] \in Record /\ ~Lossless
  BY Zenon DEF HandleTimeout, Expirable, Tracked, Busy, Answer, Forget, Lossless, Flow, Tables
<1>2. CASE free_slots' = free_slots
  BY <1>1, <1>2, Zenon DEF Counts
<1>3. ASSUME NEW a \in Roles, rec[r].state = Run[a], FreeSlot(a, rec[r][a]) PROVE Counts(r, role, i)
  BY <1>1, <1>3, FreedSlot, BusyIs DEF Counts, HasSlot, Run, Roles
<1>4. free_slots' = free_slots \/ \E a \in Roles : rec[r].state = Run[a] /\ FreeSlot(a, rec[r][a])
  BY <1>1 DEF HandleTimeout, ExpiredSlot, Record, Run, Roles
<1> QED
  BY <1>2, <1>3, <1>4, Zenon

\* A request that is submitted occupies nothing.
LEMMA SubmitCounts ==
    ASSUME Flow, NEW r \in Requests, HandleClientRequest(r)
    PROVE  \A role \in Roles : \A i \in Instances(role) : Counts(r, role, i)
<1> SUFFICES ASSUME NEW role \in Roles, NEW i \in Instances(role) PROVE Counts(r, role, i)
  BY Zenon
<1>1. /\ ~Tracked(r) /\ rec' = Put(rec, r, [state |-> "encoder_waiting", enc |-> None, den |-> None, dec |-> None])
      /\ free_slots' = free_slots
  BY Zenon DEF HandleClientRequest, Flow, ReqOK
<1>2. rec'[r].state = "encoder_waiting"
  BY <1>1, Zenon DEF Put
<1> QED
  BY <1>1, <1>2, BusyIs, Zenon DEF Counts, HasSlot

\* A request that is dispatched takes one slot, and keeps the one of the role before.
LEMMA DispatchCounts ==
    ASSUME Flow, Slots, NEW role \in Roles, Claim(role, Run[role]),
           IF role = "enc" THEN DispatchToEncoder ELSE DispatchTransfer(role, From[role]),
           NEW a \in Roles, NEW j \in Instances(a)
    PROVE  Counts(Head(tta[role]), a, j)
<1>1. PICK r \in Requests, i \in Instances(role) :
        /\ r = Head(tta[role]) /\ i = Selected(role) /\ Queued(r, role) /\ QueueOK(r, role) /\ ReqOK(r)
        /\ DOMAIN rec' = DOMAIN rec
        /\ Tracked(r) => /\ rec'[r].state = Run[role] /\ rec'[r][role] = i
                         /\ \A b \in Roles \ {role} : rec'[r][b] = rec[r][b]
  BY Claims
<1>2. free_slots' = [free_slots EXCEPT ![role][i] = @ - 1]
  BY <1>1, Zenon DEF Claim
<1>3. free_slots'[a][j] = IF a = role /\ j = i THEN free_slots[a][j] - 1 ELSE free_slots[a][j]
  BY <1>2, Zenon DEF Slots
<1>4. ~InTransfer(r) /\ (Tracked(r) => rec[r].state = Wait[role]) /\ (Lossless => Tracked(r))
  BY <1>1, InTransferIs, Zenon DEF QueueOK, ReqOK, Token, Lossless
<1>5. role # "enc" => InTransfer(r)'
  <2> SUFFICES ASSUME role # "enc" PROVE InTransfer(r)'
    BY Zenon
  <2>1. PICK n : work' = work \cup {n} /\ (FastSent(r, role, i, n) \/ SlowSent(r, role, i, n))
    BY <1>1, Dispatched, Zenon DEF Roles, Receivers
  <2>2. n.r = r /\ n.kind \in Moving
    BY <2>1, WorkFields DEF FastSent, SlowSent, Moving
  <2> QED
    BY <2>1, <2>2, Zenon DEF InTransfer, Moving
<1> SUFFICES Counts(r, a, j)
  BY <1>1, Zenon
<1>6. CASE ~Tracked(r)
  <2>1. ~Busy(r, a, j) /\ ~Busy(r, a, j)' /\ ~Lossless
    BY <1>1, <1>4, <1>6, Zenon DEF Busy, Tracked
  <2> QED
    BY <1>3, <2>1, Zenon DEF Counts
<1>7. CASE Tracked(r)
  <2>1. /\ a = role /\ j = i => ~Busy(r, a, j) /\ Busy(r, a, j)'
        /\ ~(a = role /\ j = i) => (Busy(r, a, j)' <=> Busy(r, a, j))
    BY <1>1, <1>4, <1>5, <1>7, BusyIs DEF HasSlot, Run, Wait, Roles, Tracked
  <2> QED
    BY <1>3, <2>1, Zenon DEF Counts
<1> QED
  BY <1>6, <1>7, Zenon

\* At the start all slots are free.
LEMMA InitHeld == Init => Held
<1> SUFFICES ASSUME Init PROVE Held
  BY Zenon
<1>1. \A m \in results : m.kind = "register"
  BY DEF Init, Result
<1>2. DOMAIN rec = {} /\ \A role, i : BusyOn(role, i) = {}
  BY DEF Init, BusyOn
<1>3. \A role \in Roles : \A i \in Instances(role) : free_slots[role][i] = Capacity[role] /\ Capacity[role] \in Nat
  BY ConstantsAssumption, Zenon DEF Init
<1>4. \A role \in Roles : \A i \in Instances(role) :
        free_slots[role][i] + Cardinality(BusyOn(role, i)) = Capacity[role] /\ Capacity[role] \in Nat
  <2>1. \A role, i : Cardinality(BusyOn(role, i)) = 0
    BY <1>2, FS_EmptySet, Zenon
  <2> QED
    BY <1>3, <2>1
<1> QED
  BY <1>1, <1>2, <1>4, FS_EmptySet DEF Held

\* Every step keeps the sum.
LEMMA HeldNext == Flow /\ Flow' /\ Slots /\ Slots' /\ Held /\ [Next]_vars => Held'
<1> SUFFICES ASSUME Flow, Flow', Slots, Slots', Held, [Next]_vars PROVE Held'
  BY Zenon
<1>1. CASE InstanceNext
  BY <1>1, InstanceCounts, InstanceConcerns, CountsKeep, Zenon DEF InstanceNext, Flow, Addressed
<1>2. ASSUME NEW m \in results, HandleResult(m) PROVE Held'
  <2>1. m.r \notin Requests => free_slots' = free_slots
    BY <1>2, Zenon DEF HandleResult, HandleRegister, HandleRoleError, HandleStaged,
           HandleAllocated, HandlePushed,
                HandleDone, HandleFailed, HandleOutput, Flow, Addressed, ResultKinds
  <2> QED
    BY <1>2, <2>1, HandlerCounts, HandlerConcerns, CountsKeep, Zenon
<1>3. ASSUME NEW r \in Requests, HandleTimeout(r) \/ HandleClientRequest(r) PROVE Held'
  <2>1. results' = results /\ Concerns(r)
    BY <1>3, TimeoutConcerns, SubmitConcerns, ZenonT(30) DEF HandleTimeout, HandleClientRequest
  <2> QED
    BY <1>3, <2>1, TimeoutCounts, SubmitCounts, CountsKeep, ZenonT(30)
<1>4. ASSUME NEW role \in Roles, Claim(role, Run[role]), results' = results,
             IF role = "enc" THEN DispatchToEncoder ELSE DispatchTransfer(role, From[role])
      PROVE  Held'
  BY <1>4, DispatchCounts, DispatchConcerns, CountsKeep, ZenonT(30)
<1>5. CASE DispatchToEncoder \/ DispatchToDenoiser \/ DispatchToDecoder
  BY <1>4, <1>5, Zenon DEF DispatchToEncoder, DispatchToDenoiser, DispatchToDecoder,
         DispatchTransfer, Roles, Run, From
<1>6. CASE EndOfTurn \/ UNCHANGED vars
  <2>1. UNCHANGED <<rec, work, results, free_slots>>
    BY <1>6, Zenon DEF EndOfTurn, vars, server
  <2>2. \A role, i : BusyOn(role, i)' = BusyOn(role, i)
    BY <2>1 DEF BusyOn, Occupies, InTransfer
  <2> QED
    BY <2>1, <2>2, Zenon DEF Held
<1> QED
  BY <1>1, <1>2, <1>3, <1>5, <1>6, Zenon DEF Next, ServerNext, AllServed

\* In every state.
LEMMA HeldAlways == Spec => [](Flow /\ Slots /\ Held)
<1> DEFINE Inv == Flow /\ Slots /\ Lists /\ Held
<1>1. Init => Inv
  BY InitFlow, InitSlots, InitHeld, Zenon
<1>2. Inv /\ [Next]_vars => Inv'
  BY FlowNext, SlotsNext, ListsNext, HeldNext, Zenon
<1> QED
  BY <1>1, <1>2, PTL DEF Spec

\* An instance never has more free slots than it started with, nor fewer than
\* none: whichever results arrive late, after a request has expired, and whatever
\* fails.
THEOREM SlotsStayWithinCapacity == Spec => []SlotsWithinCapacity
<1>1. ASSUME Slots, Held PROVE SlotsWithinCapacity
  <2> SUFFICES ASSUME NEW role \in Roles, NEW i \in Instances(role)
               PROVE  free_slots[role][i] \in 0..Capacity[role]
    BY Zenon DEF SlotsWithinCapacity
  <2>1. IsFiniteSet(BusyOn(role, i))
    BY <1>1, FS_Subset, Zenon DEF Held, BusyOn
  <2>2. Cardinality(BusyOn(role, i)) \in Nat
    BY <2>1, FS_CardinalityType, Zenon
  <2> QED
    BY <1>1, <2>2, ConstantsAssumption DEF Held, Slots, SlotsNeverOverdrawn
<1> QED
  BY <1>1, HeldAlways, PTL

\* As long as no request expires, and only the steps fail that are reported with
\* their slot, no slot is lost and none is counted twice.
THEOREM SlotsAreConserved ==
    ASSUME Lossless
    PROVE  Spec => []SlotsConserved
<1>1. ASSUME Slots, Held PROVE SlotsConserved
  <2> SUFFICES ASSUME NEW role \in Roles, NEW i \in Instances(role)
               PROVE  Capacity[role] - free_slots[role][i] = Cardinality(BusyOn(role, i))
    BY Zenon DEF SlotsConserved, BusyOn
  <2>1. IsFiniteSet(BusyOn(role, i))
    BY <1>1, FS_Subset, Zenon DEF Held, BusyOn
  <2>2. Cardinality(BusyOn(role, i)) \in Nat
    BY <2>1, FS_CardinalityType, Zenon
  <2> QED
    BY <1>1, <2>2, ConstantsAssumption DEF Held, Slots
<1> QED
  BY <1>1, HeldAlways, PTL

-----------------------------------------------------------------------------
(***************************************************************************)
(* Buffers: what is staged or allocated is wanted.                         *)
(***************************************************************************)
\* Message m will have what role a has staged pushed on.
Carries(m, a) ==
    \/ m.kind = "staged" /\ a = "enc"
    \/ m.kind = "done" /\ a = "den"
    \/ m.kind \in {"alloc", "allocated"} /\ m.role = To[a]
    \/ m.kind = "push" /\ m.role = a

\* Message m will have the receive slot of role b given back.
Fills(m, b) ==
    \/ m.kind \in {"allocated", "ready"} /\ m.role = b
    \/ m.kind = "push" /\ m.place[1] = b
    \/ m.kind = "pushed" /\ To[m.role] = b

\* What is staged for request r is still wanted.
StagedOf(r) ==
    \A t \in staged : t[3] = r =>
        /\ Tracked(r) /\ t[1] \in {"enc", "den"} /\ t = <<t[1], rec[r][t[1]], r>>
        /\ Queued(r, To[t[1]]) \/ \E m \in Msgs : m.r = r /\ Carries(m, t[1])

\* So is the slot allocated for it on its receiver.
ReceivesOf(r) ==
    \A p \in receives : p[3] = r =>
        /\ r \in DOMAIN p2p /\ p2p[r].slot = None /\ p = <<p[1], p2p[r].receiver, r>>
        /\ \E m \in Msgs : m.r = r /\ Fills(m, p[1])

\* All that is staged or allocated is wanted.
Wanted == /\ \A r \in Requests : StagedOf(r) /\ ReceivesOf(r)
          /\ \A t \in staged \cup receives : t[3] \in Requests

\* Nothing of another request is staged or allocated.
LEMMA OthersWanted ==
    ASSUME Wanted, NEW r, Concerns(r), NEW q \in Requests \ {r},
           \A t : t[3] # r => (t \in staged' => t \in staged) /\ (t \in receives' => t \in receives)
    PROVE  StagedOf(q)' /\ ReceivesOf(q)'
<1>1. Same(q) /\ SameTables(q) /\ (Tracked(q)' <=> Tracked(q)) /\ StagedOf(q) /\ ReceivesOf(q)
  BY Zenon DEF Concerns, Same, SameTables, Tracked, Wanted
<1>2. StagedOf(q)'
  <2> SUFFICES ASSUME NEW t \in staged', t[3] = q
               PROVE  /\ Tracked(q)' /\ t[1] \in {"enc", "den"} /\ t = <<t[1], rec'[q][t[1]], q>>
                      /\ Queued(q, To[t[1]])' \/ \E m \in Msgs' : m.r = q /\ Carries(m, t[1])
    BY Zenon DEF StagedOf, Carries
  <2>1. /\ Tracked(q) /\ t[1] \in {"enc", "den"} /\ t = <<t[1], rec[q][t[1]], q>>
        /\ Queued(q, To[t[1]]) \/ \E m \in Msgs : m.r = q /\ Carries(m, t[1])
    BY <1>1, Zenon DEF StagedOf
  <2> QED
    BY <1>1, <2>1 DEF Same, SameTables, Tracked, To, Roles
<1>3. ReceivesOf(q)'
  BY <1>1, Zenon DEF ReceivesOf, Same, SameTables, Fills
<1> QED
  BY <1>2, <1>3, Zenon

\* The orchestrator stages and allocates nothing.
LEMMA ServerWanted ==
    ASSUME Wanted, NEW r, Concerns(r), staged' = staged, receives' = receives,
           r \in Requests => StagedOf(r)' /\ ReceivesOf(r)'
    PROVE  Wanted'
BY OthersWanted, Zenon DEF Wanted

\* What is wanted of the one message of a request.
LEMMA WantedIs ==
    ASSUME Flow, Wanted, NEW r \in Requests
    PROVE  /\ \A m \in Msgs : m.r = r =>
                /\ \A t \in staged : t[3] = r =>
                     Carries(m, t[1]) /\ t[1] \in {"enc", "den"} /\ t = <<t[1], rec[r][t[1]], r>> /\ Tracked(r)
                /\ \A p \in receives : p[3] = r =>
                     /\ Fills(m, p[1]) /\ p = <<p[1], p2p[r].receiver, r>>
                     /\ r \in DOMAIN p2p /\ p2p[r].slot = None
           /\ \A role \in Roles : Queued(r, role) =>
                /\ \A t \in staged : t[3] = r =>
                     /\ To[t[1]] = role /\ t[1] \in {"enc", "den"} /\ t = <<t[1], rec[r][t[1]], r>> /\ Tracked(r)
                /\ \A p \in receives : p[3] # r
           /\ ~InLog(r) => \A t \in staged \cup receives : t[3] # r
<1>1. ReqOK(r) /\ StagedOf(r) /\ ReceivesOf(r) /\ \A t \in {"enc", "den"} : To[t] \in Roles
  BY DEF Flow, Wanted, To, Roles
<1> QED
  BY <1>1, Zenon DEF ReqOK, OneToken, Token, StagedOf, ReceivesOf

\* What an instance stages is wanted, and it drops what is not.
LEMMA InstanceWanted ==
    ASSUME Lossless, Flow, Wanted, NEW m \in work,
           Encode(m) \/ Allocate(m) \/ Push(m) \/ Denoise(m) \/ Decode(m)
    PROVE  Wanted'
<1>1. m \in Msgs /\ m.r \in Requests /\ MsgOK(m) /\ m.role \in Roles /\ Tracked(m.r)
  BY Zenon DEF Msgs, Flow, Addressed, ReqOK, Token, Lossless
<1>2. Concerns(m.r) /\ rec' = rec /\ p2p' = p2p /\ Tracked(m.r)'
  BY <1>1, InstanceConcerns, Zenon DEF server, Tracked
<1>3. PICK n : Alone(n, m.r) /\ n.role = m.role /\ n.idx = m.idx /\ Follows(m, n) /\ n \in Msgs' /\ n.r = m.r
  BY <1>1, InstanceAnswers DEF Lossless, Alone
<1> USE <1>1, <1>2, <1>3
<1>4. /\ \A t \in staged : t[3] = m.r =>
           Carries(m, t[1]) /\ t[1] \in {"enc", "den"} /\ t = <<t[1], rec[m.r][t[1]], m.r>>
      /\ \A p \in receives : p[3] = m.r =>
           /\ Fills(m, p[1]) /\ p = <<p[1], p2p[m.r].receiver, m.r>>
           /\ m.r \in DOMAIN p2p /\ p2p[m.r].slot = None
  BY WantedIs, Zenon
<1>5. /\ \A t : t[3] # m.r => (t \in staged' => t \in staged) /\ (t \in receives' => t \in receives)
      /\ \A t \in staged' \cup receives' : t[3] \in Requests
  <2>1. /\ staged' \subseteq staged \cup {<<"enc", m.idx, m.r>>, <<"den", m.idx, m.r>>}
        /\ receives' \subseteq receives \cup {<<m.role, m.idx, m.r>>}
    BY Zenon DEF Encode, Allocate, Push, PushToPeer, Denoise, Decode, Stage, Load,
           AllocateReceiveSlot, FreeReceiveSlot
  <2> QED
    BY <2>1 DEF Wanted
<1> SUFFICES /\ \A t \in staged' : t[3] = m.r =>
                  t[1] \in {"enc", "den"} /\ t = <<t[1], rec[m.r][t[1]], m.r>> /\ Carries(n, t[1])
             /\ \A p \in receives' : p[3] = m.r =>
                  /\ m.r \in DOMAIN p2p /\ p2p[m.r].slot = None /\ p = <<p[1], p2p[m.r].receiver, m.r>>
                  /\ Fills(n, p[1])
  <2>1. ASSUME NEW q \in Requests \ {m.r} PROVE StagedOf(q)' /\ ReceivesOf(q)'
    BY <1>5, OthersWanted, Zenon
  <2> QED
    BY <1>5, <2>1 DEF Wanted, StagedOf, ReceivesOf, Carries, Fills
<1>6. CASE Encode(m)
  <2>1. /\ staged' = staged \cup {<<"enc", m.idx, m.r>>} /\ receives' = receives
        /\ m.kind = "encode" /\ n.kind = "staged" /\ rec[m.r]["enc"] = m.idx
    BY <1>6, Zenon DEF Encode, Stage, MayFail, Lossless, Follows, MsgOK, EncodeOK, At, On
  <2> QED
    BY <1>4, <2>1 DEF Carries, Fills
<1>7. CASE Allocate(m)
  <2>1. /\ m.kind = "alloc" /\ n.kind = "allocated" /\ staged' = staged
        /\ receives' = receives \cup {<<m.role, m.idx, m.r>>}
        /\ m.r \in DOMAIN p2p /\ p2p[m.r].slot = None /\ p2p[m.r].receiver = m.idx
    BY <1>7, Zenon DEF Allocate, AllocateReceiveSlot, MayFail, Lossless, Follows, MsgOK, AllocOK
  <2> QED
    BY <1>4, <2>1 DEF Carries, Fills
<1>8. CASE Push(m)
  <2>1. /\ m.kind = "push" /\ n.kind = "pushed" /\ receives' = receives
        /\ staged' = staged \ {<<m.role, m.idx, m.r>>}
    BY <1>8, Zenon DEF Push, PushRequested, PushToPeer, MayFail, Lossless, Follows
  <2>2. rec[m.r][m.role] = m.idx /\ To[m.role] = m.place[1]
    BY <2>1 DEF MsgOK, PushOK, StagedFor, Place, Receivers, From, To
  <2> QED
    BY <1>4, <2>1, <2>2, Zenon DEF Carries, Fills
<1>9. CASE Denoise(m) \/ Decode(m)
  <2>1. m.kind = "ready" /\ receives' = receives \ {m.place}
    BY <1>9, Zenon DEF Denoise, Decode, Load, FreeReceiveSlot
  <2>2. m.place = Place(m.role, p2p[m.r].receiver, m.r, p2p[m.r].slot) /\ rec[m.r][m.role] = m.idx
    BY <2>1, Zenon DEF MsgOK, ReadyOK, At, On
  <2>3. ASSUME NEW p \in receives', p[3] = m.r PROVE FALSE
    BY <1>4, <2>1, <2>2, <2>3, ZenonT(30) DEF Fills, Place
  <2>4. ASSUME NEW t \in staged', t[3] = m.r
        PROVE  t[1] \in {"enc", "den"} /\ t = <<t[1], rec[m.r][t[1]], m.r>> /\ Carries(n, t[1])
    <3>1. t \notin staged
      BY <1>4, <2>1, <2>4, ZenonT(30) DEF Carries
    <3>2. Denoise(m) /\ t = <<"den", m.idx, m.r>>
      BY <1>9, <2>4, <3>1, ZenonT(30) DEF Denoise, Decode, Stage
    <3>3. n.kind = "done"
      <4>1. PICK k : Result("done", "den", m.idx, m.r, k) \in results'
        BY <2>4, <3>1, <3>2, Zenon DEF Denoise
      <4> QED
        BY <4>1 DEF Result, Alone, Msgs
    <3> QED
      BY <2>2, <3>2, <3>3, ZenonT(30) DEF Denoise, Carries
  <2> QED
    BY <2>3, <2>4, Zenon
<1> QED
  BY <1>6, <1>7, <1>8, <1>9, ZenonT(30)

\* A message takes over what the one before it was to do.
LEMMA PassedOn ==
    ASSUME Flow, Wanted, NEW r \in Requests, NEW m \in Msgs, m.r = r, NEW n \in Msgs', n.r = r,
           staged' = staged, receives' = receives, rec' = rec, p2p' = p2p,
           \A a \in {"enc", "den"} : Carries(m, a) => Carries(n, a), \A b : Fills(m, b) => Fills(n, b)
    PROVE  StagedOf(r)' /\ ReceivesOf(r)'
<1>1. StagedOf(r)'
  BY WantedIs DEF StagedOf, Carries, Tracked
<1>2. ReceivesOf(r)'
  BY WantedIs DEF ReceivesOf, Fills
<1> QED
  BY <1>1, <1>2, Zenon

\* A message that carries nothing may be dropped.
LEMMA Dropped ==
    ASSUME Flow, Wanted, NEW m \in Msgs, m.r \in Requests, staged' = staged, receives' = receives,
           \A a \in {"enc", "den"} : ~Carries(m, a), \A b : ~Fills(m, b)
    PROVE  StagedOf(m.r)' /\ ReceivesOf(m.r)'
BY WantedIs, ZenonT(30) DEF StagedOf, ReceivesOf

\* A request that is queued for the next role keeps what is staged for it.
LEMMA QueuedOn ==
    ASSUME Flow, Wanted, NEW m \in Msgs, m.r \in Requests, staged' = staged, receives' = receives,
           NEW a \in {"enc", "den"}, \A b \in {"enc", "den"} : Carries(m, b) => a = b, \A b : ~Fills(m, b),
           Queued(m.r, To[a])', DOMAIN rec' = DOMAIN rec, Tracked(m.r) => rec'[m.r][a] = rec[m.r][a]
    PROVE  StagedOf(m.r)' /\ ReceivesOf(m.r)'
<1>1. StagedOf(m.r)'
  BY WantedIs DEF StagedOf, Tracked
<1>2. ReceivesOf(m.r)'
  BY WantedIs, Zenon DEF ReceivesOf
<1> QED
  BY <1>1, <1>2, Zenon

\* What the handlers of results do about it.
LEMMA HandlerWanted ==
    ASSUME Lossless, Flow, Held, Wanted, NEW m \in results, HandleResult(m)
    PROVE  Wanted'
<1>1. Concerns(m.r) /\ staged' = staged /\ receives' = receives
  BY HandlerConcerns, Zenon
<1> SUFFICES ASSUME m.r \in Requests PROVE StagedOf(m.r)' /\ ReceivesOf(m.r)'
  BY <1>1, ServerWanted, Zenon
<1>2. m.kind # "register"
  BY ConstantsAssumption, Zenon DEF Flow, Addressed, ResultKinds
<1>3. ~HandleRegister(m) /\ Receive(m)
  BY <1>2, Zenon DEF HandleResult, HandleRegister, HandleRoleError, HandleStaged,
         HandleAllocated, HandlePushed,
              HandleDone, HandleFailed, HandleOutput
<1>4. m \in Msgs /\ MsgOK(m) /\ m.role \in Roles /\ Tracked(m.r)
  BY <1>2, <1>3, Received, Zenon DEF ReqOK, Token, Lossless
<1> USE <1>1, <1>3, <1>4
<1>5. CASE HandleRoleError(m) \/ HandleFailed(m) \/ HandleOutput(m)
  <2>1. m.kind \in {"error", "failed", "output", "output_error"}
    BY <1>5, Zenon DEF HandleRoleError, HandleFailed, HandleOutput
  <2> QED
    BY <2>1, Dropped, Zenon DEF Carries, Fills
<1>6. CASE HandleStaged(m)
  <2>1. m.kind = "staged" /\ rec[m.r].state = "encoder_running"
    BY <1>6, Zenon DEF HandleStaged, MsgOK, EncodeOK, At, On, Run
  <2>2. DOMAIN rec' = DOMAIN rec /\ rec'[m.r]["enc"] = rec[m.r]["enc"]
    BY <1>6, <2>1, MovesOn, ZenonT(30) DEF HandleStaged, Flow, ValidTransitions
  <2>3. "den" \in Roles /\ Queued(m.r, "den")' /\ To["enc"] = "den"
    BY <1>6, Enqueues, Zenon DEF HandleStaged, Flow, Roles, To
  <2> QED
    BY <2>1, <2>2, <2>3, QueuedOn, ZenonT(30) DEF Carries, Fills
<1>7. CASE HandleDone(m)
  <2>1. m.kind = "done" /\ rec[m.r].state = "denoising_running" /\ m.r \in DOMAIN p2p
    BY <1>7, Zenon DEF HandleDone, MsgOK, DoneOK, At, On, Run
  <2>2. /\ rec' = Move(Move(rec, m.r, "denoising_done"), m.r, "decoder_waiting")
        /\ tta' = [tta EXCEPT !["dec"] = Append(@, m.r)]
    BY <1>7, <2>1, ZenonT(30) DEF HandleDone
  <2>3. DOMAIN rec' = DOMAIN rec /\ rec'[m.r]["den"] = rec[m.r]["den"]
    BY <2>1, <2>2, MovesOn, ZenonT(30) DEF Flow, ValidTransitions
  <2>4. "dec" \in Roles /\ Queued(m.r, "dec")' /\ To["den"] = "dec"
    BY <2>2, Enqueues, ZenonT(30) DEF Flow, Roles, To
  <2> QED
    BY <2>1, <2>3, <2>4, QueuedOn, ZenonT(30) DEF Carries, Fills
<1>8. CASE HandleAllocated(m)
  <2>1. m.kind = "allocated" /\ rec' = rec /\ p2p' = p2p
    BY <1>8, Zenon DEF HandleAllocated
  <2>2. /\ m.r \in DOMAIN p2p /\ p2p[m.r].sender \in Instances(SenderRole(m.r)) /\ m.role \in Receivers
        /\ SenderRole(m.r) = From[m.role]
    BY <2>1 DEF MsgOK, AllocOK, StagedFor, At, On, Run, SenderRole, StateIn, Decoding,
           Tracked, Receivers, From
  <2>3. PICK n : work' = work \cup {n} /\ n = Work("push", From[m.role], p2p[m.r].sender, m.r, Place(m.role, m.idx, m.r, None))
    BY <1>8, <2>2, ZenonT(30) DEF HandleAllocated
  <2>4. n.kind = "push" /\ n.role = From[m.role] /\ n.r = m.r /\ n.place[1] = m.role /\ n \in Msgs'
    BY <2>3, WorkFields DEF Place, Msgs
  <2>5. \A a \in {"enc", "den"} : Carries(m, a) => Carries(n, a)
    BY <2>1, <2>2, <2>4 DEF Carries, From, To, Receivers
  <2>6. \A b : Fills(m, b) => Fills(n, b)
    BY <2>1, <2>4, Zenon DEF Fills
  <2> QED
    BY <2>1, <2>4, <2>5, <2>6, PassedOn
<1>9. CASE HandlePushed(m)
  <2>1. m.kind = "pushed" /\ rec' = rec /\ p2p' = p2p
    BY <1>9, Zenon DEF HandlePushed
  <2>2. rec[m.r].state = Run[To[m.role]] /\ m.role # "dec" /\ m.r \in DOMAIN p2p
    BY <2>1, Zenon DEF MsgOK, PushedOK, On
  <2>3. PICK n : work' = work \cup {n} /\ n = Work("ready", To[m.role], p2p[m.r].receiver, m.r,
                               Place(To[m.role], p2p[m.r].receiver, m.r, p2p[m.r].slot))
    <3>1. m.role \in {"enc", "den"}
      BY <2>2, Zenon DEF Roles
    <3>2. /\ m.role = "enc" => StateIn(m.r, Denoising) /\ To[m.role] = "den"
          /\ m.role = "den" => /\ ~StateIn(m.r, Denoising) /\ To[m.role] = "dec"
                               /\ StateIn(m.r, Decoding)
      BY <2>1, <2>2 DEF StateIn, Tracked, Denoising, Decoding, Run, To
    <3>3. StateIn(m.r, Denoising \cup Decoding)
      BY <3>1, <3>2, Zenon DEF StateIn
    <3> QED
      BY <1>9, <2>2, <3>1, <3>2, <3>3, Zenon DEF HandlePushed
  <2>4. n.kind = "ready" /\ n.role = To[m.role] /\ n.r = m.r /\ n \in Msgs'
    BY <2>3, WorkFields DEF Msgs
  <2> QED
    BY <2>1, <2>4, PassedOn, Zenon DEF Carries, Fills
<1> QED
  BY <1>5, <1>6, <1>7, <1>8, <1>9, Zenon DEF HandleResult

\* A dispatch has the staged tensors pushed.
LEMMA DispatchWanted ==
    ASSUME Flow, Slots, Wanted, NEW role \in Roles, Claim(role, Run[role]),
           IF role = "enc" THEN DispatchToEncoder ELSE DispatchTransfer(role, From[role])
    PROVE  Wanted'
<1>1. PICK r \in Requests, i \in Instances(role) :
        /\ r = Head(tta[role]) /\ i = Selected(role) /\ Queued(r, role) /\ Concerns(r)
        /\ DOMAIN rec' = DOMAIN rec
        /\ Tracked(r) => \A b \in Roles \ {role} : rec'[r][b] = rec[r][b]
  BY Claims, DispatchConcerns
<1>2. staged' = staged /\ receives' = receives
  BY Zenon DEF DispatchToEncoder, DispatchTransfer, instances
<1>3. /\ \A p \in receives : p[3] # r
      /\ \A t \in staged : t[3] = r =>
           To[t[1]] = role /\ t[1] \in {"enc", "den"} /\ t = <<t[1], rec[r][t[1]], r>> /\ Tracked(r)
  BY <1>1, WantedIs
<1>4. role # "enc" => \E n \in Msgs' : n.r = r /\ Carries(n, From[role])
  <2> SUFFICES ASSUME role # "enc" PROVE \E n \in Msgs' : n.r = r /\ Carries(n, From[role])
    BY Zenon
  <2>1. PICK n : work' = work \cup {n} /\ (FastSent(r, role, i, n) \/ SlowSent(r, role, i, n))
    BY <1>1, Dispatched, ZenonT(30) DEF Roles, Receivers
  <2>2. n.r = r /\ ((n.kind = "push" /\ n.role = From[role]) \/ (n.kind = "alloc" /\ n.role = role))
    BY <2>1, WorkFields DEF FastSent, SlowSent
  <2>3. To[From[role]] = role
    BY DEF From, To, Roles
  <2> QED
    BY <2>1, <2>2, <2>3, ZenonT(30) DEF Carries, Msgs
<1>5. StagedOf(r)'
  <2> SUFFICES ASSUME NEW t \in staged', t[3] = r
               PROVE  /\ Tracked(r)' /\ t[1] \in {"enc", "den"} /\ t = <<t[1], rec'[r][t[1]], r>>
                      /\ \E m \in Msgs' : m.r = r /\ Carries(m, t[1])
    BY Zenon DEF StagedOf, Carries
  <2>1. From[role] = t[1] /\ role # "enc" /\ t[1] \in Roles \ {role}
    BY <1>2, <1>3 DEF From, To, Roles
  <2> QED
    BY <1>1, <1>2, <1>3, <1>4, <2>1, Zenon DEF Tracked
<1>6. ReceivesOf(r)'
  BY <1>2, <1>3, Zenon DEF ReceivesOf
<1> QED
  BY <1>1, <1>2, <1>5, <1>6, ServerWanted, Zenon

\* Every step leaves nothing behind that nobody wants.
LEMMA WantedNext ==
    ASSUME Lossless, Flow, Slots, Held, Wanted, [Next]_vars
    PROVE  Wanted'
<1>1. CASE InstanceNext
  BY <1>1, InstanceWanted, Zenon DEF InstanceNext
<1>2. CASE DispatchToEncoder \/ DispatchToDenoiser \/ DispatchToDecoder
  BY <1>2, DispatchWanted, Zenon DEF DispatchToEncoder, DispatchToDenoiser, DispatchToDecoder,
         Roles, Run, From
<1>3. ASSUME NEW r \in Requests, HandleClientRequest(r) PROVE Wanted'
  <2>1. ~InLog(r) /\ staged' = staged /\ receives' = receives /\ Concerns(r)
    BY <1>3, SubmitConcerns, Zenon DEF HandleClientRequest, instances
  <2>2. StagedOf(r)' /\ ReceivesOf(r)'
    BY <2>1, WantedIs, Zenon DEF StagedOf, ReceivesOf
  <2> QED
    BY <2>1, <2>2, ServerWanted, ZenonT(30)
<1>4. ~\E r \in Requests : HandleTimeout(r)
  BY Zenon DEF HandleTimeout, Lossless
<1>5. CASE UNCHANGED vars \/ EndOfTurn
  <2>1. UNCHANGED <<staged, receives, p2p, work, results, tta, rec>>
    BY <1>5, Zenon DEF vars, server, instances, EndOfTurn
  <2>2. ASSUME NEW r \in Requests PROVE StagedOf(r)' /\ ReceivesOf(r)'
    BY <2>1 DEF Wanted, StagedOf, ReceivesOf, Carries, Fills, Tracked, Msgs, Queued
  <2> QED
    BY <2>1, <2>2, Zenon DEF Wanted
<1> QED
  BY <1>1, <1>2, <1>3, <1>4, <1>5, HandlerWanted, Zenon DEF Next, ServerNext, AllServed

\* When every message has been handled, nothing is left of the requests that have
\* been answered: no slot of an instance, no staged tensors, no receive slot.
THEOREM NothingStaysBehind ==
    ASSUME Lossless
    PROVE  Spec => []NothingLeftBehind
<1> DEFINE Inv == Flow /\ Slots /\ Lists /\ Held /\ Wanted
<1>1. Init => Inv
  BY InitFlow, InitSlots, InitHeld, Zenon DEF Init, Wanted, StagedOf, ReceivesOf
<1>2. Inv /\ [Next]_vars => Inv'
  BY FlowNext, SlotsNext, ListsNext, HeldNext, WantedNext, Zenon
<1>3. ASSUME Inv, Quiet PROVE AllSlotsFree /\ staged = {} /\ receives = {}
  <2>1. \A t \in staged \cup receives : t[3] \in Requests /\ StagedOf(t[3]) /\ ReceivesOf(t[3])
    BY <1>3, Zenon DEF Wanted
  <2>2. Msgs = {} /\ DOMAIN rec = {}
    BY <1>3, Zenon DEF Quiet, Msgs
  <2>3. staged = {} /\ receives = {}
    BY <2>1, <2>2, Zenon DEF StagedOf, ReceivesOf, Tracked
  <2>4. \A role \in Roles : \A i \in Instances(role) : Cardinality(BusyOn(role, i)) = 0
    BY <2>2, FS_EmptySet, Zenon DEF BusyOn
  <2>5. AllSlotsFree
    BY <1>3, <2>4 DEF AllSlotsFree, Held, Slots
  <2> QED
    BY <2>3, <2>5, Zenon
<1>4. Inv => NothingLeftBehind
  BY <1>3, Zenon DEF NothingLeftBehind
<1> QED
  BY <1>1, <1>2, <1>4, PTL DEF Spec

-----------------------------------------------------------------------------
(***************************************************************************)
(* Idle capacity.                                                          *)
(***************************************************************************)
\* The round robin comes by every instance: the one at i is visited after some
\* number of others.
LEMMA ComesBy ==
    ASSUME Slots, NEW role \in Roles, NEW i \in Instances(role)
    PROVE  \E k \in Instances(role) : Visited(role, k) = i
<1> DEFINE n == Count[role]
           x == next_idx[role]
<1>1. n \in Nat \ {0} /\ x \in 0..(n - 1) /\ i \in 0..(n - 1)
  BY ConstantsAssumption DEF Slots, Instances
<1> HIDE DEF n, x
<1>2. \E k \in 0..(n - 1) : (x + k) % n = i
  <2>1. CASE i >= x
    <3>1. i - x \in 0..(n - 1) /\ x + (i - x) = n * 0 + i /\ 0 \in Nat
      BY <1>1, <2>1
    <3>2. (n * 0 + i) % n = i
      BY <1>1, <3>1, RemainderOf, Zenon
    <3> QED
      BY <3>1, <3>2, Zenon
  <2>2. CASE i < x
    <3>1. i - x + n \in 0..(n - 1) /\ x + (i - x + n) = n * 1 + i /\ 1 \in Nat
      BY <1>1, <2>2
    <3>2. (n * 1 + i) % n = i
      BY <1>1, <3>1, RemainderOf, Zenon
    <3> QED
      BY <3>1, <3>2, Zenon
  <2> QED
    BY <1>1, <2>1, <2>2
<1> QED
  BY <1>2, Zenon DEF n, x, Visited, Instances

\* select_with_capacity returns None only if no instance of the role has a slot.
LEMMA NoCapacity ==
    ASSUME Slots, NEW role \in Roles, ~HasCapacity(role), NEW i \in Instances(role)
    PROVE  free_slots[role][i] = 0
<1> DEFINE f(k) == free_slots[role][Visited(role, k)]
           K == {k \in Instances(role) : f(k) > 0}
<1>1. Instances(role) = 0..(Count[role] - 1) /\ Count[role] \in Nat
  BY ConstantsAssumption DEF Instances
<1>2. \A k \in Instances(role) : f(k) \in Int
  <2>1. \A k \in Instances(role) : Visited(role, k) \in Instances(role)
    <3> SUFFICES ASSUME NEW k \in Instances(role) PROVE Visited(role, k) \in Instances(role)
      OBVIOUS
    <3>1. k \in Nat
      BY <1>1
    <3> QED
      BY <3>1, VisitedExists, Zenon
  <2> QED
    BY <2>1 DEF Slots
<1> HIDE DEF f
<1>3. K = {}
  <2> SUFFICES ASSUME K # {} PROVE FALSE
    OBVIOUS
  <2>1. K \subseteq Nat
    BY <1>1
  <2>2. PICK m \in K : \A k \in K : m <= k
    <3> HIDE DEF K
    <3> QED
      BY <2>1, Least, Zenon
  <2>3. \A j \in 0..(m - 1) : f(j) <= 0
    <3> SUFFICES ASSUME NEW j \in 0..(m - 1) PROVE f(j) <= 0
      OBVIOUS
    <3>1. j \in Instances(role) /\ ~(m <= j)
      BY <1>1, <2>2
    <3>2. j \notin K
      BY <2>2, <3>1, Zenon
    <3> QED
      BY <1>2, <3>1, <3>2
  <2>4. m \in Instances(role) /\ f(m) > 0
    BY <2>2
  <2>5. m \in Passed(role)
    BY <2>3, <2>4, Zenon DEF Passed, f
  <2> QED
    BY <2>5, Zenon DEF HasCapacity
<1>4. PICK k \in Instances(role) : Visited(role, k) = i
  BY ComesBy, Zenon
<1>5. ~(f(k) > 0) /\ f(k) = free_slots[role][i]
  BY <1>3, <1>4, Zenon DEF f
<1> QED
  BY <1>2, <1>4, <1>5 DEF Slots, SlotsNeverOverdrawn

\* A turn that has begun, in which nothing has been dispatched, leaves no request
\* waiting for a slot that is free; between turns nothing gives a slot back
\* unless a request expires.
LEMMA IdleNext ==
    ASSUME ~Timeouts, Slots, Flow, NoIdleCapacity, [Next]_vars
    PROVE  NoIdleCapacity'
<1>1. ASSUME stage' # 0 PROVE NoIdleCapacity'
  BY <1>1, Zenon DEF NoIdleCapacity
<1>2. ASSUME UNCHANGED <<stage, tta, free_slots>> PROVE NoIdleCapacity'
  BY <1>2, Zenon DEF NoIdleCapacity
<1>3. CASE EndOfTurn
  <2>1. tta' = tta /\ free_slots' = free_slots /\ \A role \in Roles : ~Drainable(role)
    BY <1>3, Zenon DEF EndOfTurn
  <2>2. \A role \in Roles : tta[role] # <<>> => \A i \in Instances(role) : free_slots[role][i] = 0
    BY <2>1, NoCapacity, Zenon DEF Drainable
  <2> QED
    BY <2>1, <2>2, Zenon DEF NoIdleCapacity
<1>4. ASSUME NEW r \in Requests, HandleTimeout(r) PROVE NoIdleCapacity'
  BY <1>4, Zenon DEF HandleTimeout
<1>5. ASSUME NEW r \in Requests, HandleClientRequest(r) PROVE NoIdleCapacity'
  BY <1>1, <1>5 DEF HandleClientRequest, Turn
<1>6. ASSUME NEW m \in results, HandleResult(m) PROVE NoIdleCapacity'
  <2>1. Receive(m)
    BY <1>6, Zenon DEF HandleResult, HandleRegister, HandleRoleError, HandleStaged,
           HandleAllocated,
                HandlePushed, HandleDone, HandleFailed, HandleOutput
  <2>2. m.role \in Roles
    BY Zenon DEF Flow, Addressed, Msgs
  <2>3. Socket[m.role] # 0
    BY <2>2 DEF Socket, Roles
  <2>4. stage' # 0
    BY <2>1, <2>3, Zenon DEF Receive, Turn
  <2> QED
    BY <1>1, <2>4, Zenon
<1>7. CASE DispatchToEncoder \/ DispatchToDenoiser \/ DispatchToDecoder
  BY <1>1, <1>7 DEF DispatchToEncoder, DispatchToDenoiser, DispatchToDecoder, Claim
<1>8. CASE InstanceNext \/ UNCHANGED vars
  BY <1>2, <1>8, Zenon DEF InstanceNext, Encode, Allocate, Push, Denoise, Decode, server, vars
<1> QED
  BY <1>3, <1>4, <1>5, <1>6, <1>7, <1>8, Zenon DEF Next, ServerNext, AllServed

\* While no request expires, one waits in a queue between two turns only if all
\* slots of all instances of that role are taken.
THEOREM CapacityIsUsed ==
    ASSUME ~Timeouts
    PROVE  Spec => []NoIdleCapacity
<1> DEFINE Inv == Flow /\ Slots /\ Lists
<1>1. Init => NoIdleCapacity
  BY Zenon DEF Init, NoIdleCapacity
<1>2. Inv /\ NoIdleCapacity /\ [Next]_vars => NoIdleCapacity'
  BY IdleNext, Zenon
<1> QED
  BY <1>1, <1>2, FlowAlways, PTL DEF Spec
=============================================================================
