----------------------- MODULE DiffusionServerProofs -----------------------
(***************************************************************************)
(* What the orchestrator guarantees for every deployment and whatever      *)
(* fails or expires.                                                       *)
(*                                                                         *)
(* Its book-keeping of clients is exact (Clients), and it never claims a   *)
(* slot that an instance does not have (Slots).  Neither depends on what   *)
(* the instances do, only on how each handler reads and writes its tables. *)
(*                                                                         *)
(* The rest follows a request through the system.  Flow says that it is in *)
(* one place at a time, a message or an entry of a queue, and that there   *)
(* the tables of the orchestrator agree with where it is.  On top of it,   *)
(* Lists and SlotsOnce follow the preallocated slots of the receivers.     *)
(* DiffusionDataProofs and DiffusionSlotProofs build on Flow.              *)
(***************************************************************************)
EXTENDS DiffusionServer, TLAPS

\* The inductive form of ClientsAccounted: a client that waits has submitted.
Clients ==
    /\ log \in Seq(Requests) /\ replies \in [Requests -> {"none", "ok", "error"}]
    /\ pending \subseteq Requests /\ \A r \in pending : InLog(r)
    /\ ClientsAccounted

\* A step of the tracker keeps the requests it tracks.
LEMMA MoveKeepsDomain == \A t, r, s : DOMAIN Move(t, r, s) = DOMAIN t
BY Zenon DEF Move

\* And so does a dispatch.
LEMMA MoveToKeepsDomain == \A t, r, s, role, i : DOMAIN MoveTo(t, r, s, role, i) = DOMAIN t
BY Zenon DEF MoveTo

\* A handler that answers nobody and accepts nothing.
LEMMA BystanderKeeps ==
    ASSUME Clients, log' = log, replies' = replies, pending' = pending,
           DOMAIN rec' = DOMAIN rec
    PROVE  Clients'
BY Zenon DEF Clients, ClientsAccounted, InLog

\* A handler that answers: the reply goes to a client that waits, or to nobody.
LEMMA AnswerKeeps ==
    ASSUME Clients, NEW r, NEW a \in {"ok", "error"}, Answer(r, a), log' = log
    PROVE  Clients'
<1>1. DOMAIN rec' = DOMAIN rec \ {r}
  BY Zenon DEF Answer, Forget
<1>2. pending' = DOMAIN rec'
  BY <1>1, Zenon DEF Answer, Clients, ClientsAccounted
<1>3. \A q \in Requests : InLog(q)' <=> InLog(q)
  BY Zenon DEF InLog
<1>4. CASE r \in pending
  <2>1. replies' = [replies EXCEPT ![r] = a] /\ pending' = pending \ {r}
    BY <1>4, Zenon DEF Answer
  <2>2. r \in Requests /\ InLog(r)
    BY <1>4, Zenon DEF Clients
  <2>3. \A q \in Requests : replies'[q] = IF q = r THEN a ELSE replies[q]
    BY <2>1, Zenon DEF Clients
  <2>4. \A q \in Requests : replies'[q] = "none" <=> (~InLog(q)' \/ q \in pending')
    BY <1>3, <2>1, <2>2, <2>3, Zenon DEF Clients, ClientsAccounted
  <2>5. /\ replies' \in [Requests -> {"none", "ok", "error"}] /\ pending' \subseteq Requests
        /\ log' \in Seq(Requests)
    BY <2>1, Zenon DEF Clients
  <2>6. \A q \in pending' : InLog(q)'
    BY <1>3, <2>1, Zenon DEF Clients
  <2> QED
    BY <1>2, <2>4, <2>5, <2>6, Zenon DEF Clients, ClientsAccounted
<1>5. CASE r \notin pending
  <2>1. replies' = replies /\ pending' = pending
    BY <1>5, Zenon DEF Answer
  <2> QED
    BY <1>2, <1>3, <2>1, Zenon DEF Clients, ClientsAccounted, InLog
<1> QED
  BY <1>4, <1>5, Zenon

\* A request that comes is logged, tracked and waited for in one step.
LEMMA SubmitKeeps ==
    ASSUME Clients, NEW r \in Requests, HandleClientRequest(r)
    PROVE  Clients'
<1>1. /\ ~InLog(r) /\ log' = Append(log, r) /\ pending' = pending \cup {r}
      /\ replies' = replies /\ DOMAIN rec' = DOMAIN rec \cup {r}
  BY Zenon DEF HandleClientRequest, Put
<1>2. log' \in Seq(Requests)
  BY <1>1 DEF Clients
<1>3. \A q \in Requests : InLog(q)' <=> InLog(q) \/ q = r
  <2> TAKE q \in Requests
  <2>1. /\ Len(log') = Len(log) + 1 /\ log'[Len(log) + 1] = r
        /\ \A i \in 1..Len(log) : log'[i] = log[i]
        /\ Len(log) \in Nat
    BY <1>1 DEF Clients
  <2> QED
    BY <2>1 DEF InLog
<1>4. replies[r] = "none"
  BY <1>1, Zenon DEF Clients, ClientsAccounted
<1> QED
  BY <1>1, <1>2, <1>3, <1>4, Zenon DEF Clients, ClientsAccounted

\* Every step keeps the book-keeping of clients exact.
LEMMA ClientsNext == Clients /\ [Next]_vars => Clients'
<1> SUFFICES ASSUME Clients, [Next]_vars PROVE Clients'
  BY Zenon
<1>1. ASSUME NEW r \in Requests, HandleTimeout(r) PROVE Clients'
  BY <1>1, AnswerKeeps, Zenon DEF HandleTimeout
<1>2. ASSUME NEW m \in results, HandleRoleError(m) \/ HandleFailed(m) \/ HandleOutput(m) PROVE Clients'
  <2>1. PICK a \in {"ok", "error"} : Answer(m.r, a) /\ log' = log
    BY <1>2, Zenon DEF HandleRoleError, HandleFailed, HandleOutput
  <2> QED
    BY <2>1, AnswerKeeps, Zenon
<1>3. ASSUME NEW m \in results,
             HandleRegister(m) \/ HandleStaged(m) \/ HandleAllocated(m) \/ HandlePushed(m) \/ HandleDone(m)
      PROVE  Clients'
  <2>1. log' = log /\ replies' = replies /\ pending' = pending
    BY <1>3, Zenon DEF HandleRegister, HandleStaged, HandleAllocated, HandlePushed, HandleDone
  <2>2. \/ rec' = rec
        \/ \E s : rec' = Move(rec, m.r, s)
        \/ \E s, u : rec' = Move(Move(rec, m.r, s), m.r, u)
    BY <1>3, Zenon DEF HandleRegister, HandleStaged, HandleAllocated, HandlePushed, HandleDone
  <2>3. DOMAIN rec' = DOMAIN rec
    <3>1. ASSUME NEW s, rec' = Move(rec, m.r, s) PROVE DOMAIN rec' = DOMAIN rec
      BY <3>1, MoveKeepsDomain, Zenon
    <3>2. ASSUME NEW s, NEW u, rec' = Move(Move(rec, m.r, s), m.r, u) PROVE DOMAIN rec' = DOMAIN rec
      BY <3>2, MoveKeepsDomain, ZenonT(30)
    <3> QED
      BY <2>2, <3>1, <3>2, Zenon
  <2> QED
    BY <2>1, <2>3, BystanderKeeps, Zenon
<1>4. CASE DispatchToEncoder \/ DispatchToDenoiser \/ DispatchToDecoder
  <2>1. log' = log /\ replies' = replies /\ pending' = pending
    BY <1>4, Zenon DEF DispatchToEncoder, DispatchToDenoiser, DispatchToDecoder,
           DispatchTransfer
  <2>2. \E r, s, role, i : rec' = MoveTo(rec, r, s, role, i)
    BY <1>4, Zenon DEF DispatchToEncoder, DispatchToDenoiser, DispatchToDecoder, Claim
  <2>3. DOMAIN rec' = DOMAIN rec
    <3>1. PICK r, s, role, i : rec' = MoveTo(rec, r, s, role, i)
      BY <2>2, Zenon
    <3> QED
      BY <3>1, MoveToKeepsDomain
  <2> QED
    BY <2>1, <2>3, BystanderKeeps, Zenon
<1>5. CASE EndOfTurn \/ InstanceNext \/ UNCHANGED vars
  <2>1. log' = log /\ replies' = replies /\ pending' = pending /\ rec' = rec
    BY <1>5, Zenon DEF EndOfTurn, InstanceNext, Encode, Allocate, Push, Denoise, Decode,
           server, vars
  <2> QED
    BY <2>1, BystanderKeeps, Zenon
<1> QED
  BY <1>1, <1>2, <1>3, <1>4, <1>5, SubmitKeeps, Zenon
     DEF Next, ServerNext, HandleResult, AllServed

\* No reply is lost and no record is left behind, whatever fails or expires in
\* whatever order: a client waits exactly as long as its request is tracked, and
\* one that does not wait has its answer.
THEOREM ClientsStayAccounted == Spec => []ClientsAccounted
<1>1. Init => Clients
  BY DEF Init, Clients, ClientsAccounted, InLog
<1>2. Clients => ClientsAccounted
  BY Zenon DEF Clients
<1> QED
  BY <1>1, <1>2, ClientsNext, PTL DEF Spec

\* A client is answered once.
OneAnswer == \A r \in Requests : replies[r] # "none" => replies'[r] = replies[r]

\* No step answers a client a second time: an answer after an expiry, or an
\* error after a result, finds nobody waiting.  It is the half of
\* ImplementsPipeline that does not depend on what the roles computed.
THEOREM AnsweredOnce == Spec => [][OneAnswer]_vars
<1>1. Clients /\ [Next]_vars => [OneAnswer]_vars
  <2> SUFFICES ASSUME Clients, Next PROVE OneAnswer
    BY Zenon
  <2>1. ASSUME NEW r, NEW a, Answer(r, a) PROVE OneAnswer
    <3>1. CASE r \in pending
      <4>1. r \in Requests /\ replies[r] = "none" /\ replies' = [replies EXCEPT ![r] = a]
        BY <2>1, <3>1, Zenon DEF Answer, Clients, ClientsAccounted
      <4> QED
        BY <4>1, Zenon DEF OneAnswer, Clients
    <3>2. CASE r \notin pending
      BY <2>1, <3>2, Zenon DEF Answer, OneAnswer
    <3> QED
      BY <3>1, <3>2, Zenon
  <2>2. replies' = replies \/ \E r, a : Answer(r, a)
    <3>1. CASE \E r \in Requests : HandleTimeout(r) \/ HandleClientRequest(r)
      BY <3>1, Zenon DEF HandleTimeout, HandleClientRequest
    <3>2. ASSUME NEW m \in results, HandleResult(m) PROVE replies' = replies \/ \E r, a : Answer(r, a)
      BY <3>2, Zenon DEF HandleResult, HandleRegister, HandleRoleError, HandleStaged,
             HandleAllocated, HandlePushed, HandleDone, HandleFailed, HandleOutput
    <3>3. CASE DispatchToEncoder \/ DispatchToDenoiser \/ DispatchToDecoder \/ EndOfTurn \/ AllServed
      BY <3>3, Zenon DEF DispatchToEncoder, DispatchToDenoiser, DispatchToDecoder,
             DispatchTransfer,
                  EndOfTurn, AllServed, vars
    <3>4. CASE InstanceNext
      BY <3>4, Zenon DEF InstanceNext, Encode, Allocate, Push, Denoise, Decode
    <3> QED
      BY <3>1, <3>2, <3>3, <3>4, Zenon DEF Next, ServerNext
  <2> QED
    BY <2>1, <2>2, Zenon DEF OneAnswer
<1>2. Init => Clients
  BY DEF Init, Clients, ClientsAccounted, InLog
<1> QED
  BY <1>1, <1>2, ClientsNext, PTL DEF Spec

-----------------------------------------------------------------------------
\* No instance has been given more requests than it announced slots for.
SlotsNeverOverdrawn ==
    \A role \in Roles : \A i \in Instances(role) : free_slots[role][i] >= 0

\* The dispatcher's tables have their shape, and no slot is overdrawn.
Slots ==
    /\ DOMAIN free_slots = Roles /\ DOMAIN next_idx = Roles
    /\ \A role \in Roles : /\ free_slots[role] \in [Instances(role) -> Int]
                           /\ next_idx[role] \in Instances(role)
    /\ SlotsNeverOverdrawn

\* At first every instance has all the slots it announced.
LEMMA InitSlots == Init => Slots
<1> SUFFICES ASSUME Init PROVE Slots
  BY Zenon
<1>1. /\ free_slots = [role \in Roles |-> [i \in Instances(role) |-> Capacity[role]]]
      /\ next_idx = [role \in Roles |-> 0]
  BY Zenon DEF Init
<1>2. \A role \in Roles : Capacity[role] \in Nat /\ 0 \in Instances(role)
  BY ConstantsAssumption DEF Instances
<1>3. ASSUME NEW role \in Roles
      PROVE  /\ free_slots[role] = [i \in Instances(role) |-> Capacity[role]]
             /\ next_idx[role] = 0
  BY <1>1, Zenon
<1> QED
  BY <1>1, <1>2, <1>3 DEF Slots, SlotsNeverOverdrawn

\* The round robin visits instances of the role.
LEMMA VisitedExists ==
    ASSUME Slots, NEW role \in Roles, NEW k \in Nat
    PROVE  Visited(role, k) \in Instances(role)
<1>1. Count[role] \in Nat \ {0} /\ next_idx[role] \in 0..(Count[role] - 1)
  BY ConstantsAssumption, Zenon DEF Slots, Instances
<1> QED
  BY <1>1 DEF Visited, Instances

\* The instance that select_with_capacity returns has a free slot.
LEMMA SelectedHasSlot ==
    ASSUME Slots, NEW role \in Roles, HasCapacity(role)
    PROVE  Selected(role) \in Instances(role) /\ free_slots[role][Selected(role)] > 0
<1>1. PICK k \in Passed(role) : Selected(role) = Visited(role, k)
  BY Zenon DEF HasCapacity, Selected
<1>2. k \in Nat /\ free_slots[role][Visited(role, k)] > 0
  BY DEF Passed, Instances
<1> QED
  BY <1>1, <1>2, VisitedExists, Zenon

\* Giving a slot back overdraws nothing, whichever instance gets it.
LEMMA FreeSlotKeeps ==
    ASSUME Slots, NEW role, NEW i, FreeSlot(role, i), next_idx' = next_idx
    PROVE  Slots'
<1>1. CASE i = None
  BY <1>1, Zenon DEF FreeSlot, Slots, SlotsNeverOverdrawn
<1>2. CASE i # None
  <2>1. free_slots' = [free_slots EXCEPT ![role][i] = @ + 1]
    BY <1>2, Zenon DEF FreeSlot
  <2>2. DOMAIN free_slots' = Roles
    BY <2>1, Zenon DEF Slots
  <2>3. \A q \in Roles : free_slots'[q] = IF q = role THEN [free_slots[q] EXCEPT ![i] = @ + 1]
                                                     ELSE free_slots[q]
    BY <2>1, Zenon DEF Slots
  <2>4. \A q \in Roles : /\ free_slots'[q] \in [Instances(q) -> Int]
                         /\ \A x \in Instances(q) : free_slots'[q][x] >= 0
    <3> TAKE q \in Roles
    <3>1. /\ free_slots[q] \in [Instances(q) -> Int]
          /\ \A x \in Instances(q) : free_slots[q][x] >= 0
      BY Zenon DEF Slots, SlotsNeverOverdrawn
    <3>2. CASE q # role
      BY <2>3, <3>1, <3>2, Zenon
    <3>3. CASE q = role
      <4>1. free_slots'[q] = [free_slots[q] EXCEPT ![i] = free_slots[q][i] + 1]
        BY <2>3, <3>3, Zenon
      <4>2. \A x \in Instances(q) : free_slots'[q][x] = IF x = i THEN free_slots[q][i] + 1
                                                               ELSE free_slots[q][x]
        BY <3>1, <4>1, Zenon
      <4>3. DOMAIN free_slots'[q] = Instances(q)
        BY <3>1, <4>1, Zenon
      <4>4. \A x \in Instances(q) : free_slots'[q][x] \in Int /\ free_slots'[q][x] >= 0
        BY <3>1, <4>2
      <4>5. free_slots'[q] = [x \in Instances(q) |-> free_slots'[q][x]]
        BY <4>1, <4>3, <3>1, Zenon
      <4> QED
        BY <4>4, <4>5, Zenon
    <3> QED
      BY <3>2, <3>3, Zenon
  <2> QED
    BY <2>2, <2>4, Zenon DEF Slots, SlotsNeverOverdrawn
<1> QED
  BY <1>1, <1>2, Zenon

\* A dispatch claims a slot that is there.
LEMMA ClaimKeeps ==
    ASSUME Slots, NEW role \in Roles, NEW state, Claim(role, state)
    PROVE  Slots'
<1>1. PICK i : i = Selected(role)
  BY Zenon
<1>2. /\ free_slots' = [free_slots EXCEPT ![role][i] = @ - 1]
      /\ next_idx' = [next_idx EXCEPT ![role] = (i + 1) % Count[role]]
      /\ HasCapacity(role)
  BY <1>1, Zenon DEF Claim, Drainable
<1>3. i \in Instances(role) /\ free_slots[role][i] > 0
  BY <1>1, <1>2, SelectedHasSlot, Zenon
<1>4. (i + 1) % Count[role] \in Instances(role)
  BY <1>3, ConstantsAssumption DEF Instances
<1>5. DOMAIN free_slots' = Roles /\ DOMAIN next_idx' = Roles
  BY <1>2, Zenon DEF Slots
<1>6. \A q \in Roles : next_idx'[q] \in Instances(q)
  BY <1>2, <1>4, Zenon DEF Slots
<1>7. \A q \in Roles : /\ free_slots'[q] \in [Instances(q) -> Int]
                       /\ \A x \in Instances(q) : free_slots'[q][x] >= 0
  <2> TAKE q \in Roles
  <2>1. /\ free_slots[q] \in [Instances(q) -> Int]
        /\ \A x \in Instances(q) : free_slots[q][x] >= 0
    BY Zenon DEF Slots, SlotsNeverOverdrawn
  <2>2. CASE q # role
    BY <1>2, <2>1, <2>2, Zenon DEF Slots
  <2>3. CASE q = role
    <3>1. free_slots'[q] = [free_slots[q] EXCEPT ![i] = free_slots[q][i] - 1]
      BY <1>2, <2>3, Zenon DEF Slots
    <3> QED
      BY <1>3, <2>1, <2>3, <3>1
  <2> QED
    BY <2>2, <2>3, Zenon
<1> QED
  BY <1>5, <1>6, <1>7, Zenon DEF Slots, SlotsNeverOverdrawn

\* Every step keeps the dispatcher's tables sound.
LEMMA SlotsNext == Slots /\ [Next]_vars => Slots'
<1> SUFFICES ASSUME Slots, [Next]_vars PROVE Slots'
  BY Zenon
<1>0. ASSUME free_slots' = free_slots, next_idx' = next_idx PROVE Slots'
  BY <1>0, Zenon DEF Slots, SlotsNeverOverdrawn
<1>1. ASSUME NEW r \in Requests, HandleTimeout(r) PROVE Slots'
  <2>1. next_idx' = next_idx
    BY <1>1, Zenon DEF HandleTimeout
  <2>2. free_slots' = free_slots \/ \E role, i : FreeSlot(role, i)
    BY <1>1, Zenon DEF HandleTimeout
  <2> QED
    BY <1>0, <2>1, <2>2, FreeSlotKeeps, Zenon
<1>2. ASSUME NEW m \in results, HandleResult(m) PROVE Slots'
  <2>1. next_idx' = next_idx
    BY <1>2, Zenon DEF HandleResult, HandleRegister, HandleRoleError, HandleStaged,
           HandleAllocated,
                HandlePushed, HandleDone, HandleFailed, HandleOutput
  <2>2. free_slots' = free_slots \/ \E role, i : FreeSlot(role, i)
    <3>1. CASE HandleRegister(m) \/ HandleRoleError(m) \/ HandleStaged(m) \/ HandleAllocated(m)
      BY <3>1, Zenon DEF HandleRegister, HandleRoleError, HandleStaged, HandleAllocated
    <3>2. CASE HandlePushed(m)
      BY <3>2, Zenon DEF HandlePushed
    <3>3. CASE HandleDone(m) \/ HandleFailed(m) \/ HandleOutput(m)
      BY <3>3, Zenon DEF HandleDone, HandleFailed, HandleOutput
    <3> QED
      BY <1>2, <3>1, <3>2, <3>3, Zenon DEF HandleResult
  <2> QED
    BY <1>0, <2>1, <2>2, FreeSlotKeeps, Zenon
<1>3. CASE DispatchToEncoder \/ DispatchToDenoiser \/ DispatchToDecoder
  <2>1. \E role \in Roles : \E state : Claim(role, state)
    BY <1>3, Zenon DEF DispatchToEncoder, DispatchToDenoiser, DispatchToDecoder, Roles
  <2> QED
    BY <2>1, ClaimKeeps, Zenon
<1>4. CASE EndOfTurn \/ InstanceNext \/ UNCHANGED vars \/ \E r \in Requests : HandleClientRequest(r)
  BY <1>0, <1>4, Zenon DEF EndOfTurn, InstanceNext, Encode, Allocate, Push, Denoise, Decode,
                    HandleClientRequest, server, vars
<1> QED
  BY <1>1, <1>2, <1>3, <1>4, Zenon DEF Next, ServerNext, AllServed

\* No instance is ever given more requests than the slots it announced, for any
\* deployment, whatever fails or expires: the half of SlotsWithinCapacity that
\* keeps an instance from being overrun.
THEOREM SlotsStayCovered == Spec => []SlotsNeverOverdrawn
<1>1. Slots => SlotsNeverOverdrawn
  BY Zenon DEF Slots
<1> QED
  BY <1>1, InitSlots, SlotsNext, PTL DEF Spec

-----------------------------------------------------------------------------
(***************************************************************************)
(* Where a request is: the tables, the messages and the queues.            *)
(***************************************************************************)
\* What is left of a queue in which a request waits at most once, when that
\* request has expired.
LEMMA WithoutIs ==
    ASSUME NEW S, NEW q \in Seq(S), IsInjective(q), NEW r
    PROVE  /\ Without(q, r) \in Seq(S) /\ IsInjective(Without(q, r))
           /\ Range(Without(q, r)) = Range(q) \ {r}
<1>1. CASE r \notin Range(q)
  BY <1>1, Zenon DEF Without
<1>2. CASE r \in Range(q)
  <2>1. PICK n \in Nat : n = Len(q) /\ DOMAIN q = 1..n /\ \A i \in 1..n : q[i] \in S
    OBVIOUS
  <2>2. PICK a \in 1..n : q[a] = r /\ Without(q, r) = SubSeq(q, 1, a - 1) \o SubSeq(q, a + 1, n)
    BY <1>2, <2>1, Zenon DEF Without, Range
  <2>3. PICK u, v, p : u = SubSeq(q, 1, a - 1) /\ v = SubSeq(q, a + 1, n) /\ p = u \o v
    BY Zenon
  <2>4. /\ p \in Seq(S) /\ DOMAIN p = 1..(n - 1)
        /\ \A k \in 1..(n - 1) : p[k] = IF k < a THEN q[k] ELSE q[k + 1]
    <3>1. u \in Seq(S) /\ Len(u) = a - 1 /\ \A k \in 1..(a - 1) : u[k] = q[k]
      BY <2>1, <2>3
    <3>2. v \in Seq(S) /\ Len(v) = n - a /\ \A k \in 1..(n - a) : v[k] = q[k + a]
      BY <2>1, <2>3
    <3>3. p \in Seq(S) /\ Len(p) = n - 1 /\ DOMAIN p = 1..(n - 1)
      BY <2>3, <3>1, <3>2
    <3>4. ASSUME NEW k \in 1..(n - 1) PROVE p[k] = IF k < a THEN q[k] ELSE q[k + 1]
      <4>1. CASE k < a
        <5>1. k \in 1..(a - 1)
          BY <4>1
        <5>2. p[k] = u[k]
          BY <2>3, <3>1, <3>2, <5>1
        <5> QED
          BY <3>1, <4>1, <5>1, <5>2, Zenon
      <4>2. CASE ~(k < a)
        <5>1. k - (a - 1) \in 1..(n - a) /\ (k - (a - 1)) + a = k + 1
          BY <4>2
        <5>2. p[k] = v[k - (a - 1)]
          BY <2>3, <3>1, <3>2, <4>2, <5>1
        <5> QED
          BY <3>2, <4>2, <5>1, <5>2, Zenon
      <4> QED
        BY <4>1, <4>2, Zenon
    <3> QED
      BY <3>3, <3>4, Zenon
  <2>5. \A i \in 1..n \ {a} : \E k \in 1..(n - 1) : p[k] = q[i]
    <3> SUFFICES ASSUME NEW i \in 1..n \ {a} PROVE \E k \in 1..(n - 1) : p[k] = q[i]
      BY Zenon
    <3>1. CASE i < a
      <4>1. i \in 1..(n - 1)
        BY <3>1
      <4> QED
        BY <2>4, <3>1, <4>1, Zenon
    <3>2. CASE i > a
      <4>1. i - 1 \in 1..(n - 1) /\ ~(i - 1 < a) /\ (i - 1) + 1 = i
        BY <3>2
      <4> QED
        BY <2>4, <4>1, Zenon
    <3> QED
      BY <3>1, <3>2
  <2>6. \A k \in 1..(n - 1) : \E i \in 1..n \ {a} : p[k] = q[i]
    <3> SUFFICES ASSUME NEW k \in 1..(n - 1) PROVE \E i \in 1..n \ {a} : p[k] = q[i]
      BY Zenon
    <3>1. CASE k < a
      <4>1. k \in 1..n \ {a}
        BY <3>1
      <4> QED
        BY <2>4, <3>1, <4>1, Zenon
    <3>2. CASE ~(k < a)
      <4>1. k + 1 \in 1..n \ {a}
        BY <3>2
      <4> QED
        BY <2>4, <3>2, <4>1, Zenon
    <3> QED
      BY <3>1, <3>2, Zenon
  <2>7. \A i, j \in 1..n : q[i] = q[j] => i = j
    BY <2>1, Zenon DEF IsInjective
  <2>8. Range(p) = Range(q) \ {r}
    <3>1. \A i \in 1..n : q[i] = r <=> i = a
      BY <2>2, <2>7, Zenon
    <3>2. ASSUME NEW x \in Range(p) PROVE x \in Range(q) \ {r}
      <4>1. PICK k \in 1..(n - 1) : x = p[k]
        BY <2>4, Zenon DEF Range
      <4>2. PICK i \in 1..n \ {a} : x = q[i]
        BY <2>6, <4>1, Zenon
      <4> QED
        BY <2>1, <3>1, <4>2, Zenon DEF Range
    <3>3. ASSUME NEW x \in Range(q) \ {r} PROVE x \in Range(p)
      <4>1. PICK i \in 1..n : x = q[i]
        BY <2>1, Zenon DEF Range
      <4>2. PICK k \in 1..(n - 1) : x = p[k]
        BY <2>5, <3>1, <3>3, <4>1, Zenon
      <4> QED
        BY <2>4, <4>2, Zenon DEF Range
    <3> QED
      BY <3>2, <3>3, Zenon
  <2>9. ASSUME NEW k \in 1..(n - 1), NEW l \in 1..(n - 1), p[k] = p[l] PROVE k = l
    <3>1. k \in 1..n /\ l \in 1..n /\ k + 1 \in 1..n /\ l + 1 \in 1..n
      OBVIOUS
    <3> QED
      BY <2>4, <2>7, <2>9, <3>1
  <2>10. IsInjective(p)
    BY <2>4, <2>9, Zenon DEF IsInjective
  <2> QED
    BY <2>2, <2>3, <2>4, <2>8, <2>10, Zenon
<1> QED
  BY <1>1, <1>2, Zenon

\* The messages in flight.
Msgs == work \cup results

\* The state of a request that role works on.
Run  == [enc |-> "encoder_running", den |-> "denoising_running", dec |-> "decoder_running"]

\* The state of a request that waits for role.
Wait == [enc |-> "encoder_waiting", den |-> "denoising_waiting", dec |-> "decoder_waiting"]

\* The role before.
From == [den |-> "enc", dec |-> "den"]

\* The role after.
To   == [enc |-> "den", den |-> "dec"]

\* What the orchestrator sends to an instance.
WorkKinds   == {"encode", "alloc", "push", "ready"}

\* What an instance sends about a request.
ResultKinds == {"staged", "error", "allocated", "pushed", "done", "failed",
                "output", "output_error"}

\* The tables of the orchestrator have their shape.
Tables ==
    /\ log \in Seq(Requests)
    /\ DOMAIN rec \subseteq Requests /\ \A r \in DOMAIN rec : rec[r] \in Record
    /\ DOMAIN p2p \subseteq Requests /\ \A r \in DOMAIN p2p : p2p[r] \in Transfer
    /\ tta \in [Roles -> Seq(Requests)]
    /\ \A role \in Roles : IsInjective(tta[role])

\* Every message is of a kind that its receiver handles, to or from an instance
\* that exists.
Addressed ==
    /\ \A m \in work : m.kind \in WorkKinds /\ m.r \in Requests
    /\ \A m \in results :
         \/ m.kind \in ResultKinds /\ m.r \in Requests
         \/ m.kind = "register" /\ m.r = NoRequest /\ m.role \in Receivers
    /\ \A m \in Msgs : m.role \in Roles /\ m.idx \in Instances(m.role)

\* The tracker has a record of the request.
Tracked(r) == r \in DOMAIN rec

\* A request is with instance i of a role.
On(r, role, i) == rec[r].state = Run[role] /\ rec[r][role] = i

\* If it is tracked at all.
At(r, role, i) == Tracked(r) => On(r, role, i)

\* The tensors that role is to receive are staged where its transfer says.
StagedFor(r, role) ==
    /\ p2p[r].sender = rec[r][From[role]]
    /\ p2p[r].sender \in Instances(From[role])
    /\ <<From[role], p2p[r].sender, r>> \in staged

\* What a message in flight says about its request: while it is encoded,
EncodeOK(m) ==
    m.kind \in {"encode", "staged", "error"} =>
        /\ m.role = "enc" /\ At(m.r, "enc", m.idx)
        /\ m.kind = "staged" =>
             m.size \in Sizes /\ (Tracked(m.r) => <<"enc", m.idx, m.r>> \in staged)

\* ... while a slot for its tensors is asked for,
AllocOK(m) ==
    m.kind \in {"alloc", "allocated"} =>
        /\ m.role \in Receivers /\ At(m.r, m.role, m.idx) /\ m.r \in DOMAIN p2p
        /\ p2p[m.r].receiver = m.idx /\ p2p[m.r].slot = None
        /\ Tracked(m.r) => StagedFor(m.r, m.role)

\* ... while its tensors are asked for,
PushOK(m) ==
    m.kind = "push" =>
        /\ m.r \in DOMAIN p2p /\ m.role # "dec"
        /\ \E to \in Receivers :
             /\ m.place = Place(to, p2p[m.r].receiver, m.r, p2p[m.r].slot)
             /\ p2p[m.r].receiver \in Instances(to) /\ At(m.r, to, p2p[m.r].receiver)
             /\ Tracked(m.r) => /\ m.role = From[to] /\ m.idx = p2p[m.r].sender
                                /\ StagedFor(m.r, to)

\* ... when they are said to have been sent,
PushedOK(m) ==
    m.kind = "pushed" =>
        /\ m.r \in DOMAIN p2p /\ m.role # "dec"
        /\ Tracked(m.r) => /\ On(m.r, To[m.role], p2p[m.r].receiver)
                           /\ p2p[m.r].receiver \in Instances(To[m.role])
                           /\ rec[m.r][m.role] = m.idx

\* ... while the receiver is told to start,
ReadyOK(m) ==
    m.kind = "ready" =>
        /\ m.role \in Receivers /\ At(m.r, m.role, m.idx) /\ m.r \in DOMAIN p2p
        /\ p2p[m.r].receiver = m.idx
        /\ m.place = Place(m.role, m.idx, m.r, p2p[m.r].slot)

\* ... when a denoiser has finished,
DoneOK(m) ==
    m.kind \in {"done", "failed"} =>
        /\ m.role = "den" /\ At(m.r, "den", m.idx) /\ m.r \in DOMAIN p2p
        /\ p2p[m.r].receiver = m.idx
        /\ m.kind = "done" =>
             m.size \in Sizes /\ (Tracked(m.r) => <<"den", m.idx, m.r>> \in staged)

\* ... and when a decoder has.
OutputOK(m) ==
    m.kind \in {"output", "output_error"} => m.role = "dec" /\ At(m.r, "dec", m.idx)

\* All of it.
MsgOK(m) == /\ EncodeOK(m) /\ AllocOK(m) /\ PushOK(m) /\ PushedOK(m)
            /\ ReadyOK(m) /\ DoneOK(m) /\ OutputOK(m)

\* A request waits for a role.
Queued(r, role) == r \in Range(tta[role])

\* What its place in a queue says about it.
QueueOK(r, role) ==
    /\ Tracked(r) => rec[r].state = Wait[role]
    /\ role = "enc" => Tracked(r)
    /\ role # "enc" =>
         /\ r \in DOMAIN p2p /\ p2p[r].slot = None /\ p2p[r].size \in Sizes
         /\ p2p[r].sender \in Instances(From[role])
         /\ Tracked(r) => StagedFor(r, role)

\* A request is in a message or in a queue.
Token(r) == (\E m \in Msgs : m.r = r) \/ (\E role \in Roles : Queued(r, role))

\* It is in one place at a time: one message, or one entry of one queue.
OneToken(r) ==
    /\ \A m, n \in Msgs : m.r = r /\ n.r = r => m = n
    /\ \A m \in Msgs : m.r = r => \A role \in Roles : ~Queued(r, role)
    /\ \A a, b \in Roles : Queued(r, a) /\ Queued(r, b) => a = b

\* And there the tables agree with where it is.
ReqOK(r) ==
    /\ OneToken(r)
    /\ \A m \in Msgs : m.r = r => MsgOK(m)
    /\ \A role \in Roles : Queued(r, role) => QueueOK(r, role)
    /\ Token(r) \/ Tracked(r) \/ r \in DOMAIN p2p => InLog(r)
    /\ ~Timeouts /\ Token(r) => Tracked(r)

\* The first layer of the invariant, on which the others rest.
Flow == Tables /\ Addressed /\ \A r \in Requests : ReqOK(r)

\* A step leaves what the tables say of request q as it is.
SameTables(q) ==
    /\ q \in DOMAIN rec' <=> q \in DOMAIN rec
    /\ q \in DOMAIN rec => rec'[q] = rec[q]
    /\ q \in DOMAIN p2p' <=> q \in DOMAIN p2p
    /\ q \in DOMAIN p2p => p2p'[q] = p2p[q]
    /\ \A role \in Roles, i \in Int : <<role, i, q>> \in staged' <=> <<role, i, q>> \in staged

\* A step has nothing to do with request q.
Same(q) ==
    /\ SameTables(q)
    /\ InLog(q)' <=> InLog(q)
    /\ \A m \in Msgs \cup Msgs' : m.r = q => (m \in Msgs' <=> m \in Msgs)
    /\ \A role \in Roles : Queued(q, role)' <=> Queued(q, role)

\* The names of an instance are numbers.
LEMMA InstancesInt == \A role \in Roles : Instances(role) \subseteq Int /\ 0 \in Instances(role)
BY ConstantsAssumption DEF Instances

\* A message of a request that a step does not touch says the same as before.
LEMMA SameMessage ==
    ASSUME Addressed, NEW m \in Msgs, MsgOK(m), Same(m.r)
    PROVE  MsgOK(m)'
<1>1. m.role \in Roles /\ m.idx \in Int
  BY InstancesInt, Zenon DEF Addressed
<1>2. Tracked(m.r)' <=> Tracked(m.r)
  BY Zenon DEF Same, SameTables, Tracked
<1>3. \A role, i : At(m.r, role, i)' <=> At(m.r, role, i)
  BY <1>2, Zenon DEF Same, SameTables, Tracked, At, On
<1>4. ASSUME NEW role \in Receivers, Tracked(m.r), StagedFor(m.r, role), m.r \in DOMAIN p2p
      PROVE  StagedFor(m.r, role)'
  <2>1. From[role] \in Roles
    BY DEF From, Roles, Receivers
  <2>2. p2p'[m.r] = p2p[m.r] /\ rec'[m.r] = rec[m.r]
    BY <1>4, Zenon DEF Same, SameTables, Tracked
  <2>3. p2p[m.r].sender \in Int
    BY <1>4, <2>1, InstancesInt, Zenon DEF StagedFor
  <2>4. <<From[role], p2p[m.r].sender, m.r>> \in staged'
    BY <1>4, <2>1, <2>3, Zenon DEF Same, SameTables, StagedFor
  <2> QED
    BY <1>4, <2>2, <2>4, Zenon DEF StagedFor
<1>5. EncodeOK(m)'
  BY <1>1, <1>2, <1>3, Zenon DEF MsgOK, EncodeOK, Same, SameTables, Roles
<1>6. AllocOK(m)'
  BY <1>2, <1>3, <1>4, Zenon DEF MsgOK, AllocOK, Same, SameTables
<1>7. PushOK(m)'
  <2> SUFFICES ASSUME m.kind = "push" PROVE PushOK(m)'
    BY Zenon DEF PushOK
  <2>1. m.r \in DOMAIN p2p /\ m.r \in DOMAIN p2p' /\ p2p'[m.r] = p2p[m.r] /\ m.role # "dec"
    BY Zenon DEF MsgOK, PushOK, Same, SameTables
  <2>2. PICK to \in Receivers :
             /\ m.place = Place(to, p2p[m.r].receiver, m.r, p2p[m.r].slot)
             /\ p2p[m.r].receiver \in Instances(to) /\ At(m.r, to, p2p[m.r].receiver)
             /\ Tracked(m.r) => /\ m.role = From[to] /\ m.idx = p2p[m.r].sender
                                /\ StagedFor(m.r, to)
    BY Zenon DEF MsgOK, PushOK
  <2>3. At(m.r, to, p2p[m.r].receiver)' /\ (Tracked(m.r)' => StagedFor(m.r, to)')
    BY <1>2, <1>3, <1>4, <2>1, <2>2, Zenon
  <2> QED
    BY <1>2, <2>1, <2>2, <2>3, Zenon DEF PushOK
<1>8. PushedOK(m)'
  BY <1>2, Zenon DEF MsgOK, PushedOK, Same, SameTables, Tracked, On
<1>9. ReadyOK(m)'
  BY <1>2, <1>3, Zenon DEF MsgOK, ReadyOK, Same, SameTables
<1>10. DoneOK(m)'
  BY <1>1, <1>2, <1>3, Zenon DEF MsgOK, DoneOK, Same, SameTables, Roles
<1>11. OutputOK(m)'
  BY <1>3, Zenon DEF MsgOK, OutputOK
<1> QED
  BY <1>5, <1>6, <1>7, <1>8, <1>9, <1>10, <1>11, Zenon DEF MsgOK

\* And so does its place in a queue.
LEMMA SameRequest ==
    ASSUME Addressed, NEW q \in Requests, ReqOK(q), Same(q)
    PROVE  ReqOK(q)'
<1>1. \A m : m.r = q => (m \in Msgs' <=> m \in Msgs)
  BY Zenon DEF Same, SameTables
<1>2. \A role \in Roles : Queued(q, role)' <=> Queued(q, role)
  BY Zenon DEF Same, SameTables
<1>3. OneToken(q)'
  <2>1. \A m, n \in Msgs' : m.r = q /\ n.r = q => m = n
    BY <1>1, Zenon DEF ReqOK, OneToken
  <2>2. \A m \in Msgs' : m.r = q => \A role \in Roles : ~Queued(q, role)'
    BY <1>1, <1>2, Zenon DEF ReqOK, OneToken
  <2>3. \A a, b \in Roles : Queued(q, a)' /\ Queued(q, b)' => a = b
    BY <1>2, Zenon DEF ReqOK, OneToken
  <2> QED
    BY <2>1, <2>2, <2>3, Zenon DEF OneToken
<1>4. \A m \in Msgs' : m.r = q => MsgOK(m)'
  BY <1>1, SameMessage, Zenon DEF ReqOK
<1>5. ASSUME NEW role \in Roles, Queued(q, role)' PROVE QueueOK(q, role)'
  <2>1. QueueOK(q, role)
    BY <1>2, <1>5, Zenon DEF ReqOK
  <2>2. CASE role = "enc"
    BY <2>1, <2>2, Zenon DEF QueueOK, Same, SameTables, Tracked
  <2>3. CASE role # "enc"
    <3>1. From[role] \in Roles
      BY <2>3 DEF From, Roles
    <3>2. q \in DOMAIN p2p /\ q \in DOMAIN p2p' /\ p2p'[q] = p2p[q] /\ p2p[q].sender \in Int
      BY <2>1, <2>3, <3>1, InstancesInt, Zenon DEF QueueOK, Same, SameTables
    <3>3. Tracked(q)' => Tracked(q) /\ rec'[q] = rec[q]
      BY Zenon DEF Same, SameTables, Tracked
    <3>4. Tracked(q)' => StagedFor(q, role)'
      BY <2>1, <2>3, <3>1, <3>2, <3>3, Zenon DEF QueueOK, Same, SameTables, StagedFor
    <3> QED
      BY <2>1, <2>3, <3>2, <3>3, <3>4, Zenon DEF QueueOK
  <2> QED
    BY <2>2, <2>3, Zenon
<1>6. Token(q)' <=> Token(q)
  BY <1>1, <1>2, Zenon DEF Token
<1>7. Token(q)' \/ Tracked(q)' \/ q \in DOMAIN p2p' => InLog(q)'
  BY <1>6, Zenon DEF Same, SameTables, Tracked, ReqOK
<1>8. ~Timeouts /\ Token(q)' => Tracked(q)'
  BY <1>6, Zenon DEF Same, SameTables, Tracked, ReqOK
<1> QED
  BY <1>3, <1>4, <1>5, <1>7, <1>8, Zenon DEF ReqOK

-----------------------------------------------------------------------------
(***************************************************************************)
(* What a step makes of the one place where its request is.                *)
(***************************************************************************)
\* A request that is nowhere but in one message.
LEMMA NowMessage ==
    ASSUME NEW r \in Requests, NEW n, n.r = r, \A x \in Msgs' : x.r = r => x = n,
           \A role \in Roles : ~Queued(r, role)', MsgOK(n)', InLog(r)',
           ~Timeouts => Tracked(r)'
    PROVE  ReqOK(r)'
<1>1. OneToken(r)'
  BY Zenon DEF OneToken
<1> QED
  BY <1>1, Zenon DEF ReqOK, Token

\* One that is nowhere but in one queue.
LEMMA NowQueued ==
    ASSUME NEW r \in Requests, NEW role \in Roles, \A x \in Msgs' : x.r # r,
           \A a \in Roles : Queued(r, a)' => a = role, QueueOK(r, role)', InLog(r)',
           ~Timeouts => Tracked(r)'
    PROVE  ReqOK(r)'
<1>1. OneToken(r)'
  BY Zenon DEF OneToken
<1> QED
  BY <1>1, Zenon DEF ReqOK, Token

\* And one that is nowhere.
LEMMA Nowhere ==
    ASSUME NEW r \in Requests, \A x \in Msgs' : x.r # r,
           \A a \in Roles : ~Queued(r, a)', Tracked(r)' \/ r \in DOMAIN p2p' => InLog(r)'
    PROVE  ReqOK(r)'
<1>1. OneToken(r)' /\ ~Token(r)'
  BY Zenon DEF OneToken, Token
<1> QED
  BY <1>1, Zenon DEF ReqOK

\* A handler or an instance answers one message with another.
LEMMA MessageAnswered ==
    ASSUME Flow, NEW m \in Msgs, m.r \in Requests, NEW n, n.r = m.r,
           Msgs' = (Msgs \ {m}) \cup {n}, log' = log, tta' = tta,
           \A q \in Requests \ {m.r} : SameTables(q),
           MsgOK(n)', Tracked(m.r) => Tracked(m.r)'
    PROVE  \A q \in Requests : ReqOK(q)'
<1>1. \A q : InLog(q)' <=> InLog(q)
  BY Zenon DEF InLog
<1>2. \A q, role : Queued(q, role)' <=> Queued(q, role)
  BY Zenon DEF Queued
<1>3. ReqOK(m.r)
  BY Zenon DEF Flow
<1>4. ASSUME NEW q \in Requests \ {m.r} PROVE ReqOK(q)'
  <2>1. Same(q)
    BY <1>1, <1>2, <1>4, Zenon DEF Same
  <2> QED
    BY <2>1, SameRequest, Zenon DEF Flow
<1>5. \A x \in Msgs' : x.r = m.r => x = n
  BY <1>3, Zenon DEF ReqOK, OneToken
<1>6. \A role \in Roles : ~Queued(m.r, role)'
  BY <1>2, <1>3, Zenon DEF ReqOK, OneToken
<1>7. Token(m.r) /\ InLog(m.r)' /\ (~Timeouts => Tracked(m.r)')
  BY <1>1, <1>3, Zenon DEF ReqOK, Token
<1>8. ReqOK(m.r)'
  BY <1>5, <1>6, <1>7, NowMessage, Zenon
<1> QED
  BY <1>4, <1>8, Zenon

\* Or with nothing.
LEMMA MessageHandled ==
    ASSUME Flow, NEW m \in Msgs, m.r \in Requests, Msgs' = Msgs \ {m}, log' = log, tta' = tta,
           \A q \in Requests \ {m.r} : SameTables(q),
           Tracked(m.r)' => Tracked(m.r), m.r \in DOMAIN p2p' => m.r \in DOMAIN p2p
    PROVE  \A q \in Requests : ReqOK(q)'
<1>1. \A q : InLog(q)' <=> InLog(q)
  BY Zenon DEF InLog
<1>2. \A q, role : Queued(q, role)' <=> Queued(q, role)
  BY Zenon DEF Queued
<1>3. ReqOK(m.r)
  BY Zenon DEF Flow
<1>4. ASSUME NEW q \in Requests \ {m.r} PROVE ReqOK(q)'
  <2>1. Same(q)
    BY <1>1, <1>2, <1>4, Zenon DEF Same
  <2> QED
    BY <2>1, SameRequest, Zenon DEF Flow
<1>5. \A x \in Msgs' : x.r # m.r
  BY <1>3, Zenon DEF ReqOK, OneToken
<1>6. \A role \in Roles : ~Queued(m.r, role)'
  BY <1>2, <1>3, Zenon DEF ReqOK, OneToken
<1>7. ReqOK(m.r)'
  BY <1>1, <1>3, <1>5, <1>6, Nowhere, Zenon DEF ReqOK
<1> QED
  BY <1>4, <1>7, Zenon

\* One more entry at the end of a queue.
LEMMA Enqueues ==
    ASSUME Tables, NEW role \in Roles, NEW r \in Requests, tta' = [tta EXCEPT ![role] = Append(@, r)]
    PROVE  /\ \A q : \A a \in Roles : Queued(q, a)' <=> Queued(q, a) \/ (a = role /\ q = r)
           /\ tta' \in [Roles -> Seq(Requests)]
           /\ ~Queued(r, role) => \A a \in Roles : IsInjective(tta'[a])
<1>1. tta \in [Roles -> Seq(Requests)] /\ tta[role] \in Seq(Requests)
  BY Zenon DEF Tables
<1>2. \A a \in Roles : tta'[a] = IF a = role THEN Append(tta[role], r) ELSE tta[a]
  BY <1>1, Zenon
<1>3. Range(Append(tta[role], r)) = Range(tta[role]) \cup {r}
  <2> DEFINE s == tta[role]
  <2>1. \A i \in 1..Len(s) : Append(s, r)[i] = s[i]
    BY <1>1
  <2>2. Append(s, r)[Len(s) + 1] = r /\ DOMAIN Append(s, r) = 1..(Len(s) + 1)
    BY <1>1
  <2>3. DOMAIN s = 1..Len(s) /\ Len(s) \in Nat
    BY <1>1
  <2> HIDE DEF s
  <2>4. Range(Append(s, r)) = Range(s) \cup {r}
    BY <2>1, <2>2, <2>3 DEF Range
  <2> QED
    BY <2>4, Zenon DEF s
<1>4. ASSUME NEW q, NEW a \in Roles PROVE Queued(q, a)' <=> Queued(q, a) \/ (a = role /\ q = r)
  BY <1>2, <1>3, Zenon DEF Queued
<1>5. ASSUME ~Queued(r, role) PROVE IsInjective(Append(tta[role], r))
  <2>1. PICK k \in Nat : k = Len(tta[role])
    BY <1>1
  <2>2. /\ DOMAIN tta[role] = 1..k /\ DOMAIN Append(tta[role], r) = 1..(k + 1)
        /\ Append(tta[role], r)[k + 1] = r
        /\ \A i \in 1..k : Append(tta[role], r)[i] = tta[role][i]
    BY <1>1, <2>1
  <2>3. IsInjective(tta[role]) /\ r \notin Range(tta[role])
    BY <1>5, Zenon DEF Tables, Queued
  <2> QED
    BY <2>2, <2>3 DEF IsInjective, Range
<1>6. ASSUME ~Queued(r, role), NEW a \in Roles PROVE IsInjective(tta'[a])
  BY <1>2, <1>5, <1>6, Zenon DEF Tables
<1> QED
  BY <1>1, <1>2, <1>4, <1>6

\* A message puts its request at the end of a queue.
LEMMA MessageQueued ==
    ASSUME Flow, NEW m \in Msgs, m.r \in Requests, NEW role \in Roles,
           Msgs' = Msgs \ {m}, log' = log, tta' = [tta EXCEPT ![role] = Append(@, m.r)],
           \A q \in Requests \ {m.r} : SameTables(q),
           QueueOK(m.r, role)', Tracked(m.r) => Tracked(m.r)'
    PROVE  \A q \in Requests : ReqOK(q)'
<1>1. \A q : InLog(q)' <=> InLog(q)
  BY Zenon DEF InLog
<1>2. \A q : \A a \in Roles : Queued(q, a)' <=> Queued(q, a) \/ (a = role /\ q = m.r)
  BY Enqueues, Zenon DEF Flow
<1>3. ReqOK(m.r)
  BY Zenon DEF Flow
<1>4. ASSUME NEW q \in Requests \ {m.r} PROVE ReqOK(q)'
  <2>1. Same(q)
    BY <1>1, <1>2, <1>4, Zenon DEF Same
  <2> QED
    BY <2>1, SameRequest, Zenon DEF Flow
<1>5. \A x \in Msgs' : x.r # m.r
  BY <1>3, Zenon DEF ReqOK, OneToken
<1>6. \A a \in Roles : Queued(m.r, a)' => a = role
  BY <1>2, <1>3, Zenon DEF ReqOK, OneToken
<1>7. Token(m.r) /\ InLog(m.r)' /\ (~Timeouts => Tracked(m.r)')
  BY <1>1, <1>3, Zenon DEF ReqOK, Token
<1>8. ReqOK(m.r)'
  BY <1>5, <1>6, <1>7, NowQueued, Zenon
<1> QED
  BY <1>4, <1>8, Zenon

\* The oldest entry leaves its queue.
LEMMA Dequeues ==
    ASSUME Tables, NEW role \in Roles, tta[role] # <<>>, tta' = [tta EXCEPT ![role] = Tail(@)]
    PROVE  /\ Head(tta[role]) \in Requests /\ Queued(Head(tta[role]), role)
           /\ \A q : \A a \in Roles : Queued(q, a)' <=> Queued(q, a) /\ ~(a = role /\ q = Head(tta[role]))
           /\ tta' \in [Roles -> Seq(Requests)]
           /\ \A a \in Roles : IsInjective(tta'[a])
<1>1. tta \in [Roles -> Seq(Requests)] /\ tta[role] \in Seq(Requests) /\ IsInjective(tta[role])
  BY Zenon DEF Tables
<1>2. \A a \in Roles : tta'[a] = IF a = role THEN Tail(tta[role]) ELSE tta[a]
  BY <1>1, Zenon
<1>3. PICK k \in Nat : k = Len(tta[role]) /\ k > 0
  BY <1>1
<1>4. /\ DOMAIN tta[role] = 1..k /\ DOMAIN Tail(tta[role]) = 1..(k - 1)
      /\ Head(tta[role]) = tta[role][1]
      /\ \A i \in 1..(k - 1) : Tail(tta[role])[i] = tta[role][i + 1]
      /\ Tail(tta[role]) \in Seq(Requests)
  BY <1>1, <1>3
<1>5. Head(tta[role]) \in Requests /\ Queued(Head(tta[role]), role)
  BY <1>1, <1>3, <1>4 DEF Queued, Range
<1>6. Head(tta[role]) \notin Range(Tail(tta[role]))
  BY <1>1, <1>3, <1>4 DEF IsInjective, Range
<1>7. IsInjective(Tail(tta[role]))
  BY <1>1, <1>3, <1>4 DEF IsInjective
<1>8. Range(tta[role]) = Range(Tail(tta[role])) \cup {Head(tta[role])}
  <2>1. ASSUME NEW i \in 1..k, i # 1 PROVE tta[role][i] \in Range(Tail(tta[role]))
    <3>1. i - 1 \in 1..(k - 1) /\ (i - 1) + 1 = i
      BY <1>3, <2>1
    <3>2. Tail(tta[role])[i - 1] = tta[role][i]
      BY <1>4, <3>1, Zenon
    <3> QED
      BY <1>4, <3>1, <3>2, Zenon DEF Range
  <2>2. Range(Tail(tta[role])) \subseteq Range(tta[role])
    BY <1>3, <1>4 DEF Range
  <2>3. ASSUME NEW x \in Range(tta[role]) PROVE x \in Range(Tail(tta[role])) \cup {Head(tta[role])}
    <3>1. PICK i \in 1..k : x = tta[role][i]
      BY <1>4, <2>3, Zenon DEF Range
    <3> QED
      BY <1>4, <2>1, <3>1, Zenon
  <2>4. Head(tta[role]) \in Range(tta[role])
    BY <1>5, Zenon DEF Queued
  <2> QED
    BY <2>2, <2>3, <2>4, Zenon
<1>9. ASSUME NEW q, NEW a \in Roles
      PROVE  Queued(q, a)' <=> Queued(q, a) /\ ~(a = role /\ q = Head(tta[role]))
  BY <1>2, <1>6, <1>8, Zenon DEF Queued
<1>10. ASSUME NEW a \in Roles PROVE IsInjective(tta'[a])
  BY <1>2, <1>7, Zenon DEF Tables
<1> QED
  BY <1>1, <1>2, <1>4, <1>5, <1>9, <1>10, Zenon

\* The oldest entry of a queue becomes a message.
LEMMA QueuedSent ==
    ASSUME Flow, NEW role \in Roles, tta[role] # <<>>, tta' = [tta EXCEPT ![role] = Tail(@)],
           NEW r \in Requests, r = Head(tta[role]), NEW n, n.r = r,
           Msgs' = Msgs \cup {n}, log' = log, \A q \in Requests \ {r} : SameTables(q),
           MsgOK(n)', Tracked(r) => Tracked(r)'
    PROVE  \A q \in Requests : ReqOK(q)'
<1>1. \A q : InLog(q)' <=> InLog(q)
  BY Zenon DEF InLog
<1>3. Queued(r, role) /\ \A q : \A a \in Roles : Queued(q, a)' <=> Queued(q, a) /\ ~(a = role /\ q = r)
  BY Dequeues, Zenon DEF Flow
<1>4. ReqOK(r)
  BY Zenon DEF Flow
<1>5. ASSUME NEW q \in Requests \ {r} PROVE ReqOK(q)'
  <2>1. Same(q)
    BY <1>1, <1>3, <1>5, Zenon DEF Same
  <2> QED
    BY <2>1, SameRequest, Zenon DEF Flow
<1>6. \A x \in Msgs' : x.r = r => x = n
  BY <1>3, <1>4, Zenon DEF ReqOK, OneToken
<1>7. \A a \in Roles : ~Queued(r, a)'
  BY <1>3, <1>4, Zenon DEF ReqOK, OneToken
<1>8. Token(r) /\ InLog(r)' /\ (~Timeouts => Tracked(r)')
  BY <1>1, <1>3, <1>4, Zenon DEF ReqOK, Token
<1>9. ReqOK(r)'
  BY <1>6, <1>7, <1>8, NowMessage, Zenon
<1> QED
  BY <1>5, <1>9, Zenon

-----------------------------------------------------------------------------
(***************************************************************************)
(* The steps of the instances.                                             *)
(***************************************************************************)
\* A message is on its way to an instance or from one, not both.
LEMMA OneWay ==
    ASSUME Addressed
    PROVE  work \cap results = {}
BY Zenon DEF Addressed, WorkKinds, ResultKinds

\* Every message an instance sends is one the orchestrator handles.
LEMMA ResultAddressed ==
    ASSUME Addressed, NEW n, n.kind \in ResultKinds, n.r \in Requests, n.role \in Roles,
           n.idx \in Instances(n.role), work' \subseteq work, results' \subseteq results \cup {n}
    PROVE  Addressed'
BY Zenon DEF Addressed, Msgs

\* And the other way round.
LEMMA WorkAddressed ==
    ASSUME Addressed, NEW n, n.kind \in WorkKinds, n.r \in Requests, n.role \in Roles,
           n.idx \in Instances(n.role), work' \subseteq work \cup {n}, results' \subseteq results
    PROVE  Addressed'
BY Zenon DEF Addressed, Msgs

\* What an instance does leaves the orchestrator's tables alone.
LEMMA ServerSame ==
    ASSUME Tables, UNCHANGED server
    PROVE  /\ Tables' /\ rec' = rec /\ p2p' = p2p /\ log' = log /\ tta' = tta
           /\ \A r, role, i : At(r, role, i)' <=> At(r, role, i)
           /\ \A r : Tracked(r)' <=> Tracked(r)
BY Zenon DEF server, Tables, At, On, Tracked

\* An instance stages what it computed and reports it, or reports a failure.
StagesOrFails(m, n, role, good, bad) ==
    /\ n.kind \in {good, bad} /\ n.role = role /\ n.idx = m.idx /\ n.r = m.r
    /\ n.kind = good => n.size \in Sizes /\ <<role, m.idx, m.r>> \in staged'
    /\ results' = results \cup {n}
    /\ staged' \subseteq staged \cup {<<role, m.idx, m.r>>} /\ staged \subseteq staged'

\* The encoder stages what it computed, or says that it could not.
LEMMA EncodeFlows ==
    ASSUME Flow, NEW m \in work, Encode(m)
    PROVE  Flow'
<1>1. /\ m.kind = "encode" /\ work' = work \ {m} /\ UNCHANGED server
  BY Zenon DEF Encode
<1>2. m \in Msgs /\ m.r \in Requests /\ m.idx \in Instances(m.role) /\ MsgOK(m)
  BY Zenon DEF Flow, Addressed, Msgs, ReqOK
<1>3. m.role = "enc" /\ At(m.r, "enc", m.idx)
  BY <1>1, <1>2, Zenon DEF MsgOK, EncodeOK
<1>4. /\ Tables' /\ rec' = rec /\ p2p' = p2p /\ log' = log /\ tta' = tta
      /\ At(m.r, "enc", m.idx)' /\ (Tracked(m.r)' <=> Tracked(m.r))
  BY <1>1, <1>3, ServerSame, Zenon DEF Flow
<1>5. PICK n : StagesOrFails(m, n, "enc", "staged", "error")
  <2>1. ASSUME NEW k \in Sizes, staged' = staged \cup {<<"enc", m.idx, m.r>>},
               results' = results \cup {Result("staged", "enc", m.idx, m.r, k)}
        PROVE  StagesOrFails(m, Result("staged", "enc", m.idx, m.r, k), "enc", "staged", "error")
    BY <2>1, Zenon DEF Result, StagesOrFails
  <2>2. ASSUME staged' = staged, results' = results \cup {Result("error", "enc", m.idx, m.r, 0)}
        PROVE  StagesOrFails(m, Result("error", "enc", m.idx, m.r, 0), "enc", "staged", "error")
    BY <2>2, Zenon DEF Result, StagesOrFails
  <2>3. \/ \E k \in Sizes : /\ staged' = staged \cup {<<"enc", m.idx, m.r>>}
                            /\ results' = results \cup {Result("staged", "enc", m.idx, m.r, k)}
        \/ /\ results' = results \cup {Result("error", "enc", m.idx, m.r, 0)}
           /\ staged' = staged
    BY Zenon DEF Encode, Stage
  <2> QED
    BY <2>1, <2>2, <2>3, Zenon
<1>6. /\ n.kind \in {"staged", "error"} /\ n.role = "enc" /\ n.idx = m.idx /\ n.r = m.r
      /\ n.kind = "staged" => n.size \in Sizes /\ <<"enc", m.idx, m.r>> \in staged'
      /\ results' = results \cup {n}
      /\ staged' \subseteq staged \cup {<<"enc", m.idx, m.r>>} /\ staged \subseteq staged'
  BY <1>5, Zenon DEF StagesOrFails
<1>7. Msgs' = (Msgs \ {m}) \cup {n}
  BY <1>1, <1>6, OneWay, Zenon DEF Msgs, Flow
<1>8. Addressed'
  BY <1>1, <1>2, <1>3, <1>6, ResultAddressed DEF Flow, ResultKinds, Roles
<1>9. MsgOK(n)'
  BY <1>4, <1>6, Zenon DEF MsgOK, EncodeOK, AllocOK, PushOK, PushedOK, ReadyOK, DoneOK, OutputOK
<1>10. \A q \in Requests \ {m.r} : SameTables(q)
  BY <1>4, <1>6, Zenon DEF SameTables
<1>11. \A q \in Requests : ReqOK(q)'
  BY <1>2, <1>4, <1>6, <1>7, <1>9, <1>10, MessageAnswered, Zenon
<1> QED
  BY <1>4, <1>8, <1>11, Zenon DEF Flow

\* A receiver allocates a slot for the request and says so, or is silent.
LEMMA AllocateFlows ==
    ASSUME Flow, NEW m \in work, Allocate(m)
    PROVE  Flow'
<1>1. /\ m.kind = "alloc" /\ work' = work \ {m} /\ UNCHANGED server /\ staged' = staged
  BY Zenon DEF Allocate
<1>2. m \in Msgs /\ m.r \in Requests /\ m.role \in Roles /\ m.idx \in Instances(m.role) /\ MsgOK(m)
  BY Zenon DEF Flow, Addressed, Msgs, ReqOK
<1>3. /\ Tables' /\ rec' = rec /\ p2p' = p2p /\ log' = log /\ tta' = tta
      /\ At(m.r, m.role, m.idx)' <=> At(m.r, m.role, m.idx)
      /\ Tracked(m.r)' <=> Tracked(m.r)
  BY <1>1, ServerSame, Zenon DEF Flow
<1>4. \A q \in Requests \ {m.r} : SameTables(q)
  BY <1>1, <1>3, Zenon DEF SameTables
<1>5. CASE results' = results
  <2>1. Msgs' = Msgs \ {m}
    BY <1>1, <1>5, OneWay, Zenon DEF Msgs, Flow
  <2>2. \A q \in Requests : ReqOK(q)'
    BY <1>2, <1>3, <1>4, <2>1, MessageHandled, Zenon
  <2>3. Addressed'
    BY <1>1, <1>5, Zenon DEF Flow, Addressed, Msgs
  <2> QED
    BY <1>3, <2>2, <2>3, Zenon DEF Flow
<1>6. CASE results' = results \cup {Result("allocated", m.role, m.idx, m.r, 0)}
  <2>0. PICK n : n = Result("allocated", m.role, m.idx, m.r, 0)
    BY Zenon
  <2>1. /\ n = Result("allocated", m.role, m.idx, m.r, 0)
        /\ n.kind = "allocated" /\ n.role = m.role /\ n.idx = m.idx /\ n.r = m.r
    BY <2>0, Zenon DEF Result
  <2>2. Msgs' = (Msgs \ {m}) \cup {n}
    BY <1>1, <1>6, <2>1, OneWay, Zenon DEF Msgs, Flow
  <2>3. Addressed'
    BY <1>1, <1>2, <1>6, <2>1, ResultAddressed DEF Flow, ResultKinds
  <2>4. AllocOK(n)'
    BY <1>1, <1>2, <1>3, <2>1, Zenon DEF MsgOK, AllocOK, StagedFor
  <2>5. MsgOK(n)'
    BY <2>1, <2>4, Zenon DEF MsgOK, EncodeOK, PushOK, PushedOK, ReadyOK, DoneOK, OutputOK
  <2>6. \A q \in Requests : ReqOK(q)'
    BY <1>2, <1>3, <1>4, <2>1, <2>2, <2>5, MessageAnswered, Zenon
  <2> QED
    BY <1>3, <2>3, <2>6, Zenon DEF Flow
<1> QED
  BY <1>5, <1>6, Zenon DEF Allocate

\* The push thread reports the push, whether there was something to push or not.
LEMMA PushFlows ==
    ASSUME Flow, NEW m \in work, Push(m)
    PROVE  Flow'
<1>1. /\ m.kind = "push" /\ work' = work \ {m} /\ UNCHANGED server
      /\ staged' \subseteq staged /\ staged \subseteq staged' \cup {<<m.role, m.idx, m.r>>}
      /\ results' = results \cup {Result("pushed", m.role, m.idx, m.r, 0)}
  BY Zenon DEF Push, PushRequested, PushToPeer
<1>2. m \in Msgs /\ m.r \in Requests /\ m.role \in Roles /\ m.idx \in Instances(m.role) /\ MsgOK(m)
  BY Zenon DEF Flow, Addressed, Msgs, ReqOK
<1>3. /\ Tables' /\ rec' = rec /\ p2p' = p2p /\ log' = log /\ tta' = tta
      /\ Tracked(m.r)' <=> Tracked(m.r)
  BY <1>1, ServerSame, Zenon DEF Flow
<1>4. \A q \in Requests \ {m.r} : SameTables(q)
  BY <1>1, <1>3, Zenon DEF SameTables
<1>0. PICK n : n = Result("pushed", m.role, m.idx, m.r, 0)
  BY Zenon
<1>5. /\ n = Result("pushed", m.role, m.idx, m.r, 0)
      /\ n.kind = "pushed" /\ n.role = m.role /\ n.idx = m.idx /\ n.r = m.r
  BY <1>0, Zenon DEF Result
<1>6. Msgs' = (Msgs \ {m}) \cup {n}
  BY <1>1, <1>5, OneWay, Zenon DEF Msgs, Flow
<1>7. Addressed'
  BY <1>1, <1>2, <1>5, ResultAddressed DEF Flow, ResultKinds
<1>8. PushedOK(n)'
  <2>1. m.r \in DOMAIN p2p /\ m.role # "dec"
    BY <1>1, <1>2, Zenon DEF MsgOK, PushOK
  <2>2. PICK to \in Receivers :
             /\ p2p[m.r].receiver \in Instances(to) /\ At(m.r, to, p2p[m.r].receiver)
             /\ Tracked(m.r) => /\ m.role = From[to] /\ m.idx = p2p[m.r].sender
                                /\ StagedFor(m.r, to)
    BY <1>1, <1>2, Zenon DEF MsgOK, PushOK
  <2>3. From[to] # "dec" /\ To[From[to]] = to
    BY DEF Receivers, From, To
  <2> QED
    BY <1>3, <1>5, <2>1, <2>2, <2>3, Zenon DEF PushedOK, At, On, Tracked, StagedFor
<1>9. MsgOK(n)'
  BY <1>5, <1>8, Zenon DEF MsgOK, EncodeOK, AllocOK, PushOK, ReadyOK, DoneOK, OutputOK
<1>10. \A q \in Requests : ReqOK(q)'
  BY <1>2, <1>3, <1>4, <1>5, <1>6, <1>9, MessageAnswered, Zenon
<1> QED
  BY <1>3, <1>7, <1>10, Zenon DEF Flow

\* The denoiser stages what it computed, or says that it could not.
LEMMA DenoiseFlows ==
    ASSUME Flow, NEW m \in work, Denoise(m)
    PROVE  Flow'
<1>1. /\ m.kind = "ready" /\ m.role = "den" /\ work' = work \ {m} /\ UNCHANGED server
  BY Zenon DEF Denoise, Load
<1>2. m \in Msgs /\ m.r \in Requests /\ m.idx \in Instances(m.role) /\ MsgOK(m)
  BY Zenon DEF Flow, Addressed, Msgs, ReqOK
<1>3. At(m.r, "den", m.idx) /\ m.r \in DOMAIN p2p /\ p2p[m.r].receiver = m.idx
  BY <1>1, <1>2, Zenon DEF MsgOK, ReadyOK
<1>4. /\ Tables' /\ rec' = rec /\ p2p' = p2p /\ log' = log /\ tta' = tta
      /\ At(m.r, "den", m.idx)' /\ (Tracked(m.r)' <=> Tracked(m.r))
  BY <1>1, <1>3, ServerSame, Zenon DEF Flow
<1>5. PICK n : StagesOrFails(m, n, "den", "done", "failed")
  <2>1. ASSUME NEW k \in Sizes, staged' = staged \cup {<<"den", m.idx, m.r>>},
               results' = results \cup {Result("done", "den", m.idx, m.r, k)}
        PROVE  StagesOrFails(m, Result("done", "den", m.idx, m.r, k), "den", "done", "failed")
    BY <2>1, Zenon DEF Result, StagesOrFails
  <2>2. ASSUME staged' = staged, results' = results \cup {Result("failed", "den", m.idx, m.r, 0)}
        PROVE  StagesOrFails(m, Result("failed", "den", m.idx, m.r, 0), "den", "done", "failed")
    BY <2>2, Zenon DEF Result, StagesOrFails
  <2>3. \/ \E k \in Sizes : /\ staged' = staged \cup {<<"den", m.idx, m.r>>}
                            /\ results' = results \cup {Result("done", "den", m.idx, m.r, k)}
        \/ /\ results' = results \cup {Result("failed", "den", m.idx, m.r, 0)}
           /\ staged' = staged
    BY Zenon DEF Denoise, Stage
  <2> QED
    BY <2>1, <2>2, <2>3, Zenon
<1>6. /\ n.kind \in {"done", "failed"} /\ n.role = "den" /\ n.idx = m.idx /\ n.r = m.r
      /\ n.kind = "done" => n.size \in Sizes /\ <<"den", m.idx, m.r>> \in staged'
      /\ results' = results \cup {n}
      /\ staged' \subseteq staged \cup {<<"den", m.idx, m.r>>} /\ staged \subseteq staged'
  BY <1>5, Zenon DEF StagesOrFails
<1>7. Msgs' = (Msgs \ {m}) \cup {n}
  BY <1>1, <1>6, OneWay, Zenon DEF Msgs, Flow
<1>8. Addressed'
  BY <1>1, <1>2, <1>6, ResultAddressed DEF Flow, ResultKinds, Roles
<1>9. MsgOK(n)'
  BY <1>3, <1>4, <1>6, Zenon DEF MsgOK, EncodeOK, AllocOK, PushOK, PushedOK, ReadyOK, DoneOK,
         OutputOK
<1>10. \A q \in Requests \ {m.r} : SameTables(q)
  BY <1>4, <1>6, Zenon DEF SameTables
<1>11. \A q \in Requests : ReqOK(q)'
  BY <1>2, <1>4, <1>6, <1>7, <1>9, <1>10, MessageAnswered, Zenon
<1> QED
  BY <1>4, <1>8, <1>11, Zenon DEF Flow

\* The decoder sends its output, or an error in its place.
LEMMA DecodeFlows ==
    ASSUME Flow, NEW m \in work, Decode(m)
    PROVE  Flow'
<1>1. /\ m.kind = "ready" /\ m.role = "dec" /\ work' = work \ {m} /\ UNCHANGED server
      /\ staged' = staged
  BY Zenon DEF Decode, Load
<1>2. m \in Msgs /\ m.r \in Requests /\ m.idx \in Instances(m.role) /\ MsgOK(m)
  BY Zenon DEF Flow, Addressed, Msgs, ReqOK
<1>3. At(m.r, "dec", m.idx)
  BY <1>1, <1>2, Zenon DEF MsgOK, ReadyOK
<1>4. /\ Tables' /\ rec' = rec /\ p2p' = p2p /\ log' = log /\ tta' = tta
      /\ At(m.r, "dec", m.idx)' /\ (Tracked(m.r)' <=> Tracked(m.r))
  BY <1>1, <1>3, ServerSame, Zenon DEF Flow
<1>5. PICK kind \in {"output", "output_error"} :
          results' = results \cup {Result(kind, "dec", m.idx, m.r, 0)}
  BY Zenon DEF Decode
<1>0. PICK n : n = Result(kind, "dec", m.idx, m.r, 0)
  BY Zenon
<1>6. /\ n = Result(kind, "dec", m.idx, m.r, 0)
      /\ n.kind = kind /\ n.role = "dec" /\ n.idx = m.idx /\ n.r = m.r
  BY <1>0, Zenon DEF Result
<1>7. Msgs' = (Msgs \ {m}) \cup {n}
  BY <1>1, <1>5, <1>6, OneWay, Zenon DEF Msgs, Flow
<1>8. Addressed'
  BY <1>1, <1>2, <1>5, <1>6, ResultAddressed DEF Flow, ResultKinds, Roles
<1>9. MsgOK(n)'
  BY <1>4, <1>6, Zenon DEF MsgOK, EncodeOK, AllocOK, PushOK, PushedOK, ReadyOK, DoneOK, OutputOK
<1>10. \A q \in Requests \ {m.r} : SameTables(q)
  BY <1>1, <1>4, Zenon DEF SameTables
<1>11. \A q \in Requests : ReqOK(q)'
  BY <1>2, <1>4, <1>6, <1>7, <1>9, <1>10, MessageAnswered, Zenon
<1> QED
  BY <1>4, <1>8, <1>11, Zenon DEF Flow

-----------------------------------------------------------------------------
(***************************************************************************)
(* The handlers of the orchestrator, one by one.                           *)
(***************************************************************************)
\* A handler takes its message off the socket.
LEMMA Received ==
    ASSUME Flow, NEW m \in results, Receive(m)
    PROVE  /\ results' = results \ {m} /\ m \in Msgs /\ m \notin work
           /\ work' = work => Msgs' = Msgs \ {m}
           /\ \A n : work' = work \cup {n} => Msgs' = (Msgs \ {m}) \cup {n}
           /\ m.kind # "register" =>
                /\ m.kind \in ResultKinds /\ m.r \in Requests /\ MsgOK(m) /\ ReqOK(m.r)
                /\ m.role \in Roles /\ m.idx \in Instances(m.role)
<1>1. results' = results \ {m} /\ m \in Msgs
  BY Zenon DEF Receive, Msgs
<1>2. m \notin work
  BY OneWay, Zenon DEF Flow
<1>3. m.kind # "register" =>
                /\ m.kind \in ResultKinds /\ m.r \in Requests
                /\ m.role \in Roles /\ m.idx \in Instances(m.role)
  BY <1>1, Zenon DEF Flow, Addressed
<1>4. m.kind # "register" => ReqOK(m.r) /\ MsgOK(m)
  BY <1>1, <1>3, Zenon DEF Flow, ReqOK
<1>5. /\ work' = work => Msgs' = Msgs \ {m}
      /\ \A n : work' = work \cup {n} => Msgs' = (Msgs \ {m}) \cup {n}
  BY <1>1, <1>2, Zenon DEF Msgs
<1> QED
  BY <1>1, <1>2, <1>3, <1>4, <1>5, Zenon

\* Fewer messages are as well addressed.
LEMMA FewerAddressed ==
    ASSUME Addressed, work' \subseteq work, results' \subseteq results
    PROVE  Addressed'
BY Zenon DEF Addressed, Msgs

\* A registration concerns no request.
LEMMA RegisterFlows ==
    ASSUME Flow, NEW m \in results, HandleRegister(m)
    PROVE  Flow'
<1>1. /\ Receive(m) /\ work' = work /\ rec' = rec /\ p2p' = p2p /\ log' = log /\ tta' = tta
      /\ staged' = staged /\ m.kind = "register"
  BY Zenon DEF HandleRegister, instances
<1>2. m.r = NoRequest
  BY <1>1, Zenon DEF Flow, Addressed, ResultKinds
<1>3. Msgs' = Msgs \ {m} /\ results' \subseteq results
  BY <1>1, Received, Zenon
<1>4. Tables'
  BY <1>1, Zenon DEF Flow, Tables
<1>5. Addressed'
  BY <1>1, <1>3, FewerAddressed, Zenon DEF Flow
<1>6. ASSUME NEW q \in Requests PROVE ReqOK(q)'
  <2>1. q # m.r
    BY <1>2, ConstantsAssumption, Zenon
  <2>2. Same(q)
    BY <1>1, <1>3, <2>1, Zenon DEF Same, SameTables, InLog, Queued
  <2> QED
    BY <2>2, SameRequest, Zenon DEF Flow
<1> QED
  BY <1>4, <1>5, <1>6, Zenon DEF Flow

\* A request that leaves the tracker takes its record with it.
LEMMA ForgetsRecord ==
    ASSUME Tables, NEW r, rec' = Forget(rec, r), log' = log, tta' = tta,
           DOMAIN p2p' \subseteq DOMAIN p2p, \A q \in DOMAIN p2p' : p2p'[q] \in Transfer
    PROVE  /\ Tables' /\ ~Tracked(r)'
           /\ \A q : q # r => (q \in DOMAIN rec' <=> q \in DOMAIN rec)
           /\ \A q : q # r /\ q \in DOMAIN rec => rec'[q] = rec[q]
<1>1. DOMAIN rec' = DOMAIN rec \ {r} /\ \A q \in DOMAIN rec \ {r} : rec'[q] = rec[q]
  BY Zenon DEF Forget
<1>2. DOMAIN rec' \subseteq Requests /\ \A q \in DOMAIN rec' : rec'[q] \in Record
  BY <1>1, Zenon DEF Tables
<1>3. DOMAIN p2p' \subseteq Requests
  BY Zenon DEF Tables
<1>4. Tables'
  BY <1>2, <1>3, Zenon DEF Tables
<1> QED
  BY <1>1, <1>4, Zenon DEF Tracked

\* An encoder's error ends its request.
LEMMA RoleErrorFlows ==
    ASSUME Flow, NEW m \in results, HandleRoleError(m)
    PROVE  Flow'
<1>1. /\ Receive(m) /\ work' = work /\ rec' = Forget(rec, m.r) /\ p2p' = p2p
      /\ log' = log /\ tta' = tta /\ staged' = staged /\ m.kind = "error"
  BY Zenon DEF HandleRoleError, Answer, instances
<1>2. m \in Msgs /\ m.r \in Requests /\ Msgs' = Msgs \ {m} /\ results' \subseteq results
  BY <1>1, Received, Zenon
<1>3. /\ Tables' /\ ~Tracked(m.r)'
      /\ \A q : q # m.r => (q \in DOMAIN rec' <=> q \in DOMAIN rec)
      /\ \A q : q # m.r /\ q \in DOMAIN rec => rec'[q] = rec[q]
  BY <1>1, ForgetsRecord DEF Flow, Tables
<1>4. \A q \in Requests \ {m.r} : SameTables(q)
  BY <1>1, <1>3, Zenon DEF SameTables
<1>5. \A q \in Requests : ReqOK(q)'
  BY <1>1, <1>2, <1>3, <1>4, MessageHandled, Zenon
<1>6. Addressed'
  BY <1>1, <1>2, FewerAddressed, Zenon DEF Flow
<1> QED
  BY <1>3, <1>5, <1>6, Zenon DEF Flow

\* A denoiser's error ends its request.
LEMMA FailedFlows ==
    ASSUME Flow, NEW m \in results, HandleFailed(m)
    PROVE  Flow'
<1>1. /\ Receive(m) /\ work' = work /\ rec' = Forget(rec, m.r)
      /\ p2p' = IF m.r \in DOMAIN p2p THEN [p2p EXCEPT ![m.r].slot = None] ELSE p2p
      /\ log' = log /\ tta' = tta /\ staged' = staged /\ m.kind = "failed"
  BY Zenon DEF HandleFailed, Answer, instances
<1>2. m \in Msgs /\ m.r \in Requests /\ Msgs' = Msgs \ {m} /\ results' \subseteq results
  BY <1>1, Received, Zenon
<1>3. DOMAIN p2p' = DOMAIN p2p /\ \A q : q # m.r /\ q \in DOMAIN p2p => p2p'[q] = p2p[q]
  BY <1>1, Zenon
<1>4. \A q \in DOMAIN p2p' : p2p'[q] \in Transfer
  <2>1. \A q \in DOMAIN p2p : p2p[q] \in Transfer
    BY Zenon DEF Flow, Tables
  <2>2. m.r \in DOMAIN p2p => p2p'[m.r] \in Transfer
    <3>1. ASSUME m.r \in DOMAIN p2p PROVE p2p'[m.r] = [p2p[m.r] EXCEPT !.slot = None]
      BY <1>1, <3>1, Zenon
    <3> QED
      BY <2>1, <3>1 DEF Transfer, None
  <2> QED
    BY <1>3, <2>1, <2>2, Zenon
<1>5. /\ Tables' /\ ~Tracked(m.r)'
      /\ \A q : q # m.r => (q \in DOMAIN rec' <=> q \in DOMAIN rec)
      /\ \A q : q # m.r /\ q \in DOMAIN rec => rec'[q] = rec[q]
  BY <1>1, <1>3, <1>4, ForgetsRecord DEF Flow
<1>6. \A q \in Requests \ {m.r} : SameTables(q)
  BY <1>1, <1>3, <1>5, Zenon DEF SameTables
<1>7. \A q \in Requests : ReqOK(q)'
  BY <1>1, <1>2, <1>3, <1>5, <1>6, MessageHandled, Zenon
<1>8. Addressed'
  BY <1>1, <1>2, FewerAddressed, Zenon DEF Flow
<1> QED
  BY <1>5, <1>7, <1>8, Zenon DEF Flow

\* The answer of a decoder, an output or an error, ends its request.
LEMMA OutputFlows ==
    ASSUME Flow, NEW m \in results, HandleOutput(m)
    PROVE  Flow'
<1>1. /\ Receive(m) /\ work' = work /\ rec' = Forget(rec, m.r)
      /\ p2p' = IF m.r \in pending THEN Forget(p2p, m.r) ELSE p2p
      /\ log' = log /\ tta' = tta /\ staged' = staged /\ m.kind \in {"output", "output_error"}
  BY Zenon DEF HandleOutput, Answer, instances
<1>2. m \in Msgs /\ m.r \in Requests /\ Msgs' = Msgs \ {m} /\ results' \subseteq results
  BY <1>1, Received, Zenon
<1>3. DOMAIN p2p' \subseteq DOMAIN p2p /\ \A q : q # m.r /\ q \in DOMAIN p2p => q \in DOMAIN p2p' /\ p2p'[q] = p2p[q]
  BY <1>1, Zenon DEF Forget
<1>4. \A q \in DOMAIN p2p' : p2p'[q] \in Transfer
  BY <1>1, Zenon DEF Flow, Tables, Forget
<1>5. /\ Tables' /\ ~Tracked(m.r)'
      /\ \A q : q # m.r => (q \in DOMAIN rec' <=> q \in DOMAIN rec)
      /\ \A q : q # m.r /\ q \in DOMAIN rec => rec'[q] = rec[q]
  BY <1>1, <1>3, <1>4, ForgetsRecord DEF Flow
<1>6. \A q \in Requests \ {m.r} : SameTables(q)
  BY <1>1, <1>3, <1>5, Zenon DEF SameTables
<1>7. \A q \in Requests : ReqOK(q)'
  BY <1>1, <1>2, <1>3, <1>5, <1>6, MessageHandled, Zenon
<1>8. Addressed'
  BY <1>1, <1>2, FewerAddressed, Zenon DEF Flow
<1> QED
  BY <1>5, <1>7, <1>8, Zenon DEF Flow
-----------------------------------------------------------------------------
\* Two steps of the tracker through a state that no handler ever sees.
LEMMA MovesOn ==
    ASSUME Tables, NEW r, NEW a, NEW b, NEW c \in {"denoising_waiting", "decoder_waiting"},
           rec' = Move(Move(rec, r, b), r, c), Tracked(r) => rec[r].state = a,
           b \in ValidTransitions[a], c \in ValidTransitions[b]
    PROVE  /\ DOMAIN rec' = DOMAIN rec /\ \A q \in DOMAIN rec : rec'[q] \in Record
           /\ \A q : q # r /\ q \in DOMAIN rec => rec'[q] = rec[q]
           /\ Tracked(r) => /\ rec'[r].state = c /\ rec'[r].enc = rec[r].enc
                            /\ rec'[r].den = rec[r].den /\ rec'[r].dec = rec[r].dec
<1>1. \A q \in DOMAIN rec : rec[q] \in Record
  BY Zenon DEF Tables
<1>2. CASE ~Tracked(r)
  <2>1. Move(rec, r, b) = rec /\ Move(rec, r, c) = rec
    BY <1>2, Zenon DEF Move, Tracked
  <2> QED
    BY <1>1, <1>2, <2>1, Zenon
<1>3. CASE Tracked(r)
  <2>1. PICK t : t = Move(rec, r, b)
    BY Zenon
  <2>2. t = [rec EXCEPT ![r].state = b]
    BY <1>3, <2>1, Zenon DEF Move, Tracked
  <2>3. r \in DOMAIN rec /\ rec[r] \in Record
    BY <1>1, <1>3, Zenon DEF Tracked
  <2>4. /\ DOMAIN t = DOMAIN rec /\ t[r] = [rec[r] EXCEPT !.state = b]
        /\ \A q : q # r /\ q \in DOMAIN rec => t[q] = rec[q]
    BY <2>2, <2>3, Zenon
  <2>5. t[r].state = b
    BY <2>3, <2>4, Zenon DEF Record
  <2>6. rec' = [t EXCEPT ![r].state = c]
    BY <2>1, <2>3, <2>4, <2>5, Zenon DEF Move
  <2>7. /\ DOMAIN rec' = DOMAIN rec /\ rec'[r] = [t[r] EXCEPT !.state = c]
        /\ \A q : q # r /\ q \in DOMAIN rec => rec'[q] = rec[q]
    BY <2>3, <2>4, <2>6, Zenon
  <2>8. rec'[r] = [rec[r] EXCEPT !.state = c]
    BY <2>3, <2>4, <2>7, Zenon DEF Record
  <2>9. /\ rec'[r] \in Record /\ rec'[r].state = c /\ rec'[r].enc = rec[r].enc
        /\ rec'[r].den = rec[r].den /\ rec'[r].dec = rec[r].dec
    BY <2>3, <2>8, Zenon DEF Record
  <2>10. \A q \in DOMAIN rec : rec'[q] \in Record
    BY <1>1, <2>7, <2>9, Zenon
  <2> QED
    BY <2>7, <2>9, <2>10, Zenon
<1> QED
  BY <1>2, <1>3, Zenon

\* What an encoder has staged waits for a denoiser.
LEMMA StagedFlows ==
    ASSUME Flow, NEW m \in results, HandleStaged(m)
    PROVE  Flow'
<1>1. /\ Receive(m) /\ work' = work /\ log' = log /\ staged' = staged /\ m.kind = "staged"
      /\ p2p' = Put(p2p, m.r, [sender   |-> IF m.r \in DOMAIN rec THEN rec[m.r].enc ELSE 0,
                               receiver |-> None, slot |-> None, size |-> m.size])
      /\ rec' = Move(Move(rec, m.r, "encoder_done"), m.r, "denoising_waiting")
      /\ tta' = [tta EXCEPT !["den"] = Append(@, m.r)]
  BY Zenon DEF HandleStaged, instances
<1>2. /\ m \in Msgs /\ m.r \in Requests /\ Msgs' = Msgs \ {m} /\ results' \subseteq results
      /\ m.idx \in Instances(m.role) /\ MsgOK(m) /\ ReqOK(m.r)
  BY <1>1, Received, Zenon
<1>3. /\ m.role = "enc" /\ At(m.r, "enc", m.idx) /\ m.size \in Sizes
      /\ Tracked(m.r) => <<"enc", m.idx, m.r>> \in staged
  BY <1>1, <1>2, Zenon DEF MsgOK, EncodeOK
<1>4. /\ Tracked(m.r) => rec[m.r].state = "encoder_running" /\ rec[m.r].enc = m.idx
      /\ "encoder_done" \in ValidTransitions["encoder_running"]
      /\ "denoising_waiting" \in ValidTransitions["encoder_done"]
  BY <1>3, Zenon DEF At, On, Run, ValidTransitions
<1>5. /\ DOMAIN rec' = DOMAIN rec /\ \A q \in DOMAIN rec : rec'[q] \in Record
      /\ \A q : q # m.r /\ q \in DOMAIN rec => rec'[q] = rec[q]
      /\ Tracked(m.r) => rec'[m.r].state = "denoising_waiting" /\ rec'[m.r].enc = rec[m.r].enc
  <2>1. Tables /\ "denoising_waiting" \in {"denoising_waiting", "decoder_waiting"}
    BY Zenon DEF Flow
  <2>2. Tracked(m.r) => rec[m.r].state = "encoder_running"
    BY <1>4, Zenon
  <2> QED
    BY <1>1, <1>4, <2>1, <2>2, MovesOn, Zenon
<1>6. PICK s : s = IF m.r \in DOMAIN rec THEN rec[m.r].enc ELSE 0
  BY Zenon
<1>7. s \in Instances("enc") /\ s \in Int /\ (Tracked(m.r) => s = rec'[m.r].enc /\ s = m.idx)
  BY <1>2, <1>3, <1>4, <1>5, <1>6, InstancesInt, Zenon DEF Tracked, Roles
<1>8. /\ DOMAIN p2p' = DOMAIN p2p \cup {m.r} /\ \A q \in DOMAIN p2p : q # m.r => p2p'[q] = p2p[q]
      /\ p2p'[m.r] = [sender |-> s, receiver |-> None, slot |-> None, size |-> m.size]
  BY <1>1, <1>6, Zenon DEF Put
<1>9. p2p'[m.r] \in Transfer
  <2>1. m.size \in Nat
    BY <1>3, ConstantsAssumption, Zenon
  <2> QED
    BY <1>7, <1>8, <2>1 DEF Transfer, None
<1>10. "den" \in Roles /\ \A role \in Roles : ~Queued(m.r, role)
  BY <1>2, Zenon DEF ReqOK, OneToken, Roles
<1>11. tta' \in [Roles -> Seq(Requests)] /\ \A role \in Roles : IsInjective(tta'[role])
  BY <1>1, <1>2, <1>10, Enqueues, Zenon DEF Flow
<1>12. Tables'
  BY <1>1, <1>2, <1>5, <1>8, <1>9, <1>11, Zenon DEF Flow, Tables
<1>13. QueueOK(m.r, "den")'
  <2>1. Tracked(m.r)' => Tracked(m.r)
    BY <1>5, Zenon DEF Tracked
  <2>2. Tracked(m.r)' => StagedFor(m.r, "den")'
    BY <1>1, <1>3, <1>5, <1>7, <1>8, <2>1 DEF StagedFor, From
  <2> QED
    BY <1>3, <1>5, <1>7, <1>8, <2>1, <2>2 DEF QueueOK, Wait, From
<1>14. \A q \in Requests \ {m.r} : SameTables(q)
  BY <1>1, <1>5, <1>8, Zenon DEF SameTables
<1>15. \A q \in Requests : ReqOK(q)'
  BY <1>1, <1>2, <1>5, <1>10, <1>13, <1>14, MessageQueued, Zenon DEF Tracked
<1>16. Addressed'
  BY <1>1, <1>2, FewerAddressed, Zenon DEF Flow
<1> QED
  BY <1>12, <1>15, <1>16, Zenon DEF Flow

\* What a denoiser has staged waits for a decoder.
LEMMA DoneFlows ==
    ASSUME Flow, NEW m \in results, HandleDone(m)
    PROVE  Flow'
<1>1. /\ Receive(m) /\ work' = work /\ log' = log /\ staged' = staged /\ m.kind = "done"
  BY Zenon DEF HandleDone, instances
<1>2. /\ m \in Msgs /\ m.r \in Requests /\ Msgs' = Msgs \ {m} /\ results' \subseteq results
      /\ m.idx \in Instances(m.role) /\ MsgOK(m) /\ ReqOK(m.r)
  BY <1>1, Received, Zenon
<1>3. /\ m.role = "den" /\ At(m.r, "den", m.idx) /\ m.size \in Sizes /\ m.r \in DOMAIN p2p
      /\ Tracked(m.r) => <<"den", m.idx, m.r>> \in staged
  BY <1>1, <1>2, Zenon DEF MsgOK, DoneOK
<1>4. /\ p2p' = [p2p EXCEPT ![m.r].slot = None, ![m.r].size = m.size,
                   ![m.r].sender = IF m.r \in DOMAIN rec THEN rec[m.r].den ELSE 0]
      /\ rec' = Move(Move(rec, m.r, "denoising_done"), m.r, "decoder_waiting")
      /\ tta' = [tta EXCEPT !["dec"] = Append(@, m.r)]
  BY <1>3, Zenon DEF HandleDone
<1>5. /\ Tracked(m.r) => rec[m.r].state = "denoising_running" /\ rec[m.r].den = m.idx
      /\ "denoising_done" \in ValidTransitions["denoising_running"]
      /\ "decoder_waiting" \in ValidTransitions["denoising_done"]
  BY <1>3, Zenon DEF At, On, Run, ValidTransitions
<1>6. /\ DOMAIN rec' = DOMAIN rec /\ \A q \in DOMAIN rec : rec'[q] \in Record
      /\ \A q : q # m.r /\ q \in DOMAIN rec => rec'[q] = rec[q]
      /\ Tracked(m.r) => rec'[m.r].state = "decoder_waiting" /\ rec'[m.r].den = rec[m.r].den
  <2>1. Tables /\ "decoder_waiting" \in {"denoising_waiting", "decoder_waiting"}
    BY Zenon DEF Flow
  <2>2. Tracked(m.r) => rec[m.r].state = "denoising_running"
    BY <1>5, Zenon
  <2> QED
    BY <1>4, <1>5, <2>1, <2>2, MovesOn, Zenon
<1>7. PICK s : s = IF m.r \in DOMAIN rec THEN rec[m.r].den ELSE 0
  BY Zenon
<1>8. s \in Instances("den") /\ s \in Int /\ (Tracked(m.r) => s = rec'[m.r].den /\ s = m.idx)
  BY <1>2, <1>3, <1>5, <1>6, <1>7, InstancesInt, Zenon DEF Tracked, Roles
<1>9. p2p[m.r] \in Transfer
  BY <1>3, Zenon DEF Flow, Tables
<1>10. /\ DOMAIN p2p' = DOMAIN p2p /\ \A q \in DOMAIN p2p : q # m.r => p2p'[q] = p2p[q]
       /\ p2p'[m.r] = [p2p[m.r] EXCEPT !.slot = None, !.size = m.size, !.sender = s]
  BY <1>3, <1>4, <1>7, Zenon
<1>11. /\ p2p'[m.r] \in Transfer /\ p2p'[m.r].slot = None /\ p2p'[m.r].size = m.size
       /\ p2p'[m.r].sender = s
  <2>1. m.size \in Nat
    BY <1>3, ConstantsAssumption, Zenon
  <2>2. p2p'[m.r] = [sender |-> s, receiver |-> p2p[m.r].receiver, slot |-> None, size |-> m.size]
    BY <1>9, <1>10, Zenon DEF Transfer
  <2>3. p2p[m.r].receiver \in Int
    BY <1>9, Zenon DEF Transfer
  <2> QED
    BY <1>8, <2>1, <2>2, <2>3 DEF Transfer, None
<1>12. "dec" \in Roles /\ \A role \in Roles : ~Queued(m.r, role)
  BY <1>2, Zenon DEF ReqOK, OneToken, Roles
<1>13. tta' \in [Roles -> Seq(Requests)] /\ \A role \in Roles : IsInjective(tta'[role])
  BY <1>2, <1>4, <1>12, Enqueues, Zenon DEF Flow
<1>14. Tables'
  BY <1>1, <1>2, <1>6, <1>10, <1>11, <1>13, Zenon DEF Flow, Tables
<1>15. QueueOK(m.r, "dec")'
  <2>1. Tracked(m.r)' => Tracked(m.r)
    BY <1>6, Zenon DEF Tracked
  <2>2. Tracked(m.r)' => StagedFor(m.r, "dec")'
    BY <1>1, <1>3, <1>8, <1>11, <2>1, Zenon DEF StagedFor, From
  <2> QED
    BY <1>3, <1>6, <1>8, <1>10, <1>11, <2>1, <2>2, Zenon DEF QueueOK, Wait, From
<1>16. \A q \in Requests \ {m.r} : SameTables(q)
  BY <1>1, <1>6, <1>10, Zenon DEF SameTables
<1>17. \A q \in Requests : ReqOK(q)'
  BY <1>1, <1>2, <1>4, <1>6, <1>12, <1>15, <1>16, MessageQueued, Zenon DEF Tracked
<1>18. Addressed'
  BY <1>1, <1>2, FewerAddressed, Zenon DEF Flow
<1> QED
  BY <1>14, <1>17, <1>18, Zenon DEF Flow

\* The fields of a message to an instance.
LEMMA WorkFields ==
    \A kind, role, i, r, place :
        LET n == Work(kind, role, i, r, place)
        IN n.kind = kind /\ n.role = role /\ n.idx = i /\ n.r = r /\ n.place = place
BY DEF Work

\* The sender is asked to push into the slot that was allocated.
LEMMA AllocatedFlows ==
    ASSUME Flow, NEW m \in results, HandleAllocated(m)
    PROVE  Flow'
<1>1. /\ Receive(m) /\ log' = log /\ tta' = tta /\ staged' = staged /\ rec' = rec /\ p2p' = p2p
      /\ m.kind = "allocated"
  BY Zenon DEF HandleAllocated, instances
<1>2. /\ m \in Msgs /\ m.r \in Requests /\ results' \subseteq results /\ MsgOK(m) /\ ReqOK(m.r)
      /\ m.role \in Roles /\ m.idx \in Instances(m.role)
      /\ work' = work => Msgs' = Msgs \ {m}
      /\ \A n : work' = work \cup {n} => Msgs' = (Msgs \ {m}) \cup {n}
  BY <1>1, Received, Zenon
<1>3. /\ m.role \in Receivers /\ At(m.r, m.role, m.idx) /\ m.r \in DOMAIN p2p
      /\ p2p[m.r].receiver = m.idx /\ p2p[m.r].slot = None
      /\ Tracked(m.r) => StagedFor(m.r, m.role)
  BY <1>1, <1>2, Zenon DEF MsgOK, AllocOK
<1>4. Tables'
  BY <1>1, Zenon DEF Flow, Tables
<1>5. \A q \in Requests \ {m.r} : SameTables(q)
  BY <1>1, Zenon DEF SameTables
<1>6. PICK role, i : role = SenderRole(m.r) /\ i = p2p[m.r].sender
  BY Zenon
<1>7. CASE i \notin Instances(role)
  <2>1. work' = work
    BY <1>6, <1>7, Zenon DEF HandleAllocated
  <2>2. \A q \in Requests : ReqOK(q)'
    BY <1>1, <1>2, <1>5, <2>1, MessageHandled, Zenon DEF Tracked
  <2>3. Addressed'
    BY <1>2, <2>1, FewerAddressed, Zenon DEF Flow
  <2> QED
    BY <1>4, <2>2, <2>3, Zenon DEF Flow
<1>8. CASE i \in Instances(role)
  <2>1. PICK n : n = Work("push", role, i, m.r, Place(m.role, m.idx, m.r, None))
    BY Zenon
  <2>2. /\ n.kind = "push" /\ n.role = role /\ n.idx = i /\ n.r = m.r
        /\ n.place = Place(m.role, m.idx, m.r, None)
    BY <2>1, WorkFields
  <2>3. work' = work \cup {n}
    BY <1>3, <1>6, <1>8, <2>1, Zenon DEF HandleAllocated
  <2>4. role \in {"enc", "den"}
    BY <1>6, Zenon DEF SenderRole
  <2>5. Tracked(m.r) => role = From[m.role]
    BY <1>3, <1>6 DEF SenderRole, StateIn, Decoding, At, On, Tracked, Run, From, Receivers
  <2>6. PushOK(n)'
    <3>1. At(m.r, m.role, m.idx)' /\ (Tracked(m.r)' => Tracked(m.r) /\ StagedFor(m.r, m.role)')
      BY <1>1, <1>3, Zenon DEF At, On, Tracked, StagedFor
    <3> QED
      BY <1>1, <1>2, <1>3, <1>6, <2>2, <2>4, <2>5, <3>1, Zenon DEF PushOK
  <2>7. MsgOK(n)'
    BY <2>2, <2>6, Zenon DEF MsgOK, EncodeOK, AllocOK, PushedOK, ReadyOK, DoneOK, OutputOK
  <2>8. \A q \in Requests : ReqOK(q)'
    BY <1>1, <1>2, <1>5, <2>2, <2>3, <2>7, MessageAnswered, Zenon DEF Tracked
  <2>9. Addressed'
    BY <1>2, <1>8, <2>2, <2>3, <2>4, WorkAddressed DEF Flow, WorkKinds, Roles
  <2> QED
    BY <1>4, <2>8, <2>9, Zenon DEF Flow
<1> QED
  BY <1>7, <1>8, Zenon

\* The receiver is told to start, unless the request is no longer tracked.
LEMMA PushedFlows ==
    ASSUME Flow, NEW m \in results, HandlePushed(m)
    PROVE  Flow'
<1>1. /\ Receive(m) /\ log' = log /\ tta' = tta /\ staged' = staged /\ rec' = rec /\ p2p' = p2p
      /\ m.kind = "pushed"
  BY Zenon DEF HandlePushed, instances
<1>2. /\ m \in Msgs /\ m.r \in Requests /\ results' \subseteq results /\ MsgOK(m) /\ ReqOK(m.r)
      /\ m.role \in Roles
      /\ work' = work => Msgs' = Msgs \ {m}
      /\ \A n : work' = work \cup {n} => Msgs' = (Msgs \ {m}) \cup {n}
  BY <1>1, Received, Zenon
<1>3. /\ m.r \in DOMAIN p2p /\ m.role # "dec"
      /\ Tracked(m.r) => /\ On(m.r, To[m.role], p2p[m.r].receiver)
                         /\ p2p[m.r].receiver \in Instances(To[m.role])
  BY <1>1, <1>2, Zenon DEF MsgOK, PushedOK
<1>4. Tables'
  BY <1>1, Zenon DEF Flow, Tables
<1>5. \A q \in Requests \ {m.r} : SameTables(q)
  BY <1>1, Zenon DEF SameTables
<1>6. PICK to, i : to = To[m.role] /\ i = p2p[m.r].receiver
  BY Zenon
<1>7. CASE ~Tracked(m.r)
  <2>1. work' = work
    BY <1>7, Zenon DEF HandlePushed, StateIn, Tracked
  <2>2. \A q \in Requests : ReqOK(q)'
    BY <1>1, <1>2, <1>5, <2>1, MessageHandled, Zenon DEF Tracked
  <2>3. Addressed'
    BY <1>2, <2>1, FewerAddressed, Zenon DEF Flow
  <2> QED
    BY <1>4, <2>2, <2>3, Zenon DEF Flow
<1>8. CASE Tracked(m.r)
  <2>1. PICK n : n = Work("ready", to, i, m.r, Place(to, i, m.r, p2p[m.r].slot))
    BY Zenon
  <2>2. /\ n.kind = "ready" /\ n.role = to /\ n.idx = i /\ n.r = m.r
        /\ n.place = Place(to, i, m.r, p2p[m.r].slot)
    BY <2>1, WorkFields
  <2>3. to \in Receivers /\ (to = "den" <=> StateIn(m.r, Denoising)) /\ StateIn(m.r, Denoising \cup Decoding)
    BY <1>2, <1>3, <1>6, <1>8
       DEF To, Receivers, Roles, StateIn, Tracked, On, Run, Denoising, Decoding
  <2>4. work' = work \cup {n}
    BY <1>3, <1>6, <2>1, <2>3, Zenon DEF HandlePushed, Receivers
  <2>5. ReadyOK(n)'
    BY <1>1, <1>3, <1>6, <1>8, <2>2, <2>3, Zenon DEF ReadyOK, At, On, Tracked
  <2>6. MsgOK(n)'
    BY <2>2, <2>5, Zenon DEF MsgOK, EncodeOK, AllocOK, PushOK, PushedOK, DoneOK, OutputOK
  <2>7. \A q \in Requests : ReqOK(q)'
    BY <1>1, <1>2, <1>5, <2>2, <2>4, <2>6, MessageAnswered, Zenon DEF Tracked
  <2>8. Addressed'
    BY <1>2, <1>3, <1>6, <1>8, <2>2, <2>3, <2>4, WorkAddressed
       DEF Flow, WorkKinds, Roles, Receivers
  <2> QED
    BY <1>4, <2>7, <2>8, Zenon DEF Flow
<1> QED
  BY <1>7, <1>8, Zenon

\* A request that expires is no longer tracked and waits no more; a message that
\* is on its way stays on its way.
LEMMA TimeoutFlows ==
    ASSUME Flow, NEW r \in Requests, HandleTimeout(r)
    PROVE  Flow'
<1>1. /\ rec' = Forget(rec, r) /\ tta' = [a \in Roles |-> Without(tta[a], r)] /\ Timeouts /\ r \in DOMAIN rec
      /\ log' = log /\ p2p' = p2p /\ work' = work /\ results' = results /\ staged' = staged
  BY Zenon DEF HandleTimeout, Answer, instances, Expirable
<1>2. /\ DOMAIN rec' = DOMAIN rec \ {r} /\ \A q \in DOMAIN rec \ {r} : rec'[q] = rec[q]
  BY <1>1, Zenon DEF Forget
<1>3. ASSUME NEW a \in Roles
      PROVE  /\ tta'[a] \in Seq(Requests) /\ IsInjective(tta'[a])
             /\ Range(tta'[a]) = Range(tta[a]) \ {r}
  <2>1. tta[a] \in Seq(Requests) /\ IsInjective(tta[a]) /\ tta'[a] = Without(tta[a], r)
    BY <1>1, Zenon DEF Flow, Tables
  <2> QED
    BY <2>1, WithoutIs
<1>4. Tables'
  <2>1. tta' \in [Roles -> Seq(Requests)]
    BY <1>1, <1>3, Zenon
  <2> QED
    BY <1>1, <1>2, <1>3, <2>1, Zenon DEF Flow, Tables
<1>5. Addressed'
  BY <1>1, FewerAddressed, Zenon DEF Flow
<1>6. Msgs' = Msgs /\ \A q : InLog(q)' <=> InLog(q)
  BY <1>1, Zenon DEF Msgs, InLog
<1>7. ASSUME NEW q \in Requests \ {r} PROVE ReqOK(q)'
  <2>1. SameTables(q)
    BY <1>1, <1>2, Zenon DEF SameTables
  <2>2. \A a \in Roles : Queued(q, a)' <=> Queued(q, a)
    BY <1>3, Zenon DEF Queued
  <2>3. Same(q)
    BY <1>6, <2>1, <2>2, Zenon DEF Same
  <2> QED
    BY <2>3, SameRequest, Zenon DEF Flow
<1>8. ReqOK(r)'
  <2>1. ReqOK(r) /\ ~Tracked(r)'
    BY <1>2, Zenon DEF Flow, Tracked
  <2>2. \A a \in Roles : ~Queued(r, a)'
    BY <1>3, Zenon DEF Queued
  <2>3. OneToken(r)'
    BY <1>6, <2>1, <2>2, Zenon DEF ReqOK, OneToken
  <2>4. ASSUME NEW m \in Msgs, m.r = r PROVE MsgOK(m)'
    <3>1. MsgOK(m) /\ ~Tracked(m.r)'
      BY <2>1, <2>4, Zenon DEF ReqOK
    <3>2. \A role, i : At(m.r, role, i)'
      BY <3>1, Zenon DEF At
    <3>3. EncodeOK(m)' /\ AllocOK(m)' /\ PushedOK(m)'
      BY <1>1, <3>1, <3>2, Zenon DEF MsgOK, EncodeOK, AllocOK, PushedOK
    <3>4. PushOK(m)'
      BY <1>1, <3>1, <3>2, Zenon DEF MsgOK, PushOK
    <3>5. ReadyOK(m)' /\ DoneOK(m)' /\ OutputOK(m)'
      BY <1>1, <3>1, <3>2, Zenon DEF MsgOK, ReadyOK, DoneOK, OutputOK
    <3> QED
      BY <3>3, <3>4, <3>5, Zenon DEF MsgOK
  <2>5. InLog(r)'
    BY <1>1, <1>6, <2>1, Zenon DEF ReqOK, Tracked
  <2> QED
    BY <1>1, <1>6, <2>2, <2>3, <2>4, <2>5, Zenon DEF ReqOK
<1> QED
  BY <1>4, <1>5, <1>7, <1>8, Zenon DEF Flow

\* A request that comes has left no trace before.
LEMMA SubmitFlows ==
    ASSUME Flow, NEW r \in Requests, HandleClientRequest(r)
    PROVE  Flow'
<1>1. /\ ~InLog(r) /\ log' = Append(log, r) /\ p2p' = p2p /\ work' = work /\ results' = results
      /\ staged' = staged /\ tta' = [tta EXCEPT !["enc"] = Append(@, r)]
      /\ rec' = Put(rec, r, [state |-> "encoder_waiting", enc |-> None, den |-> None, dec |-> None])
  BY Zenon DEF HandleClientRequest, instances
<1>2. /\ DOMAIN rec' = DOMAIN rec \cup {r} /\ \A q \in DOMAIN rec : q # r => rec'[q] = rec[q]
      /\ rec'[r] = [state |-> "encoder_waiting", enc |-> None, den |-> None, dec |-> None]
  BY <1>1, Zenon DEF Put
<1>3. rec'[r] \in Record /\ rec'[r].state = "encoder_waiting"
  BY <1>2 DEF Record, None
<1>4. ReqOK(r) /\ ~Token(r) /\ "enc" \in Roles
  BY <1>1, Zenon DEF Flow, ReqOK, Roles
<1>5. (\A m \in Msgs : m.r # r) /\ \A a \in Roles : ~Queued(r, a)
  BY <1>4, Zenon DEF Token
<1>6. /\ \A q : \A a \in Roles : Queued(q, a)' <=> Queued(q, a) \/ (a = "enc" /\ q = r)
      /\ tta' \in [Roles -> Seq(Requests)] /\ \A a \in Roles : IsInjective(tta'[a])
  BY <1>1, <1>4, <1>5, Enqueues, Zenon DEF Flow
<1>7. log' \in Seq(Requests) /\ \A q : InLog(q)' <=> InLog(q) \/ q = r
  <2>1. PICK k \in Nat : k = Len(log) /\ log \in Seq(Requests)
    BY DEF Flow, Tables
  <2>2. /\ Len(log') = k + 1 /\ log'[k + 1] = r /\ \A i \in 1..k : log'[i] = log[i]
        /\ log' \in Seq(Requests)
    BY <1>1, <2>1
  <2> QED
    BY <2>1, <2>2 DEF InLog
<1>8. Tables'
  BY <1>1, <1>2, <1>3, <1>6, <1>7, Zenon DEF Flow, Tables
<1>9. Addressed' /\ Msgs' = Msgs
  BY <1>1, FewerAddressed, Zenon DEF Flow, Msgs
<1>10. ASSUME NEW q \in Requests \ {r} PROVE ReqOK(q)'
  <2>1. SameTables(q)
    BY <1>1, <1>2, Zenon DEF SameTables
  <2>2. Same(q)
    BY <1>6, <1>7, <1>9, <2>1, Zenon DEF Same
  <2> QED
    BY <2>2, SameRequest, Zenon DEF Flow
<1>11. QueueOK(r, "enc")'
  BY <1>2, <1>3, Zenon DEF QueueOK, Tracked, Wait
<1>12. Tracked(r)'
  BY <1>2, Zenon DEF Tracked
<1>13. ReqOK(r)'
  BY <1>4, <1>5, <1>6, <1>7, <1>9, <1>11, <1>12, NowQueued, Zenon
<1> QED
  BY <1>8, <1>9, <1>10, <1>13, Zenon DEF Flow

-----------------------------------------------------------------------------
(***************************************************************************)
(* The dispatches, and the lists of preallocated slots.                    *)
(***************************************************************************)
\* An entry of a list of preallocated slots.
Cells == [slot : 1..PreallocSlots, size : Nat]

\* The lists have their shape: what is on them is a slot that was registered, and
\* so is what a transfer has taken from them.
Lists ==
    /\ DOMAIN prealloc = Receivers
    /\ \A role \in Receivers : prealloc[role] \in [Instances(role) -> Seq(Cells)]
    /\ \A r \in DOMAIN p2p : p2p[r].slot \in (1..PreallocSlots) \cup {None}

\* What every dispatch does to the tables, as it concerns the request.
LEMMA Claims ==
    ASSUME Flow, Slots, NEW role \in Roles, Claim(role, Run[role])
    PROVE  \E r \in Requests, i \in Instances(role) :
             /\ r = Head(tta[role]) /\ i = Selected(role) /\ tta[role] # <<>>
             /\ free_slots[role][i] > 0
             /\ tta' = [tta EXCEPT ![role] = Tail(@)]
             /\ tta' \in [Roles -> Seq(Requests)] /\ \A a \in Roles : IsInjective(tta'[a])
             /\ Queued(r, role) /\ QueueOK(r, role) /\ ReqOK(r)
             /\ DOMAIN rec' = DOMAIN rec /\ \A q \in DOMAIN rec : rec'[q] \in Record
             /\ \A q : q # r /\ q \in DOMAIN rec => rec'[q] = rec[q]
             /\ Tracked(r) => /\ rec'[r].state = Run[role] /\ rec'[r][role] = i
                              /\ \A a \in Roles \ {role} : rec'[r][a] = rec[r][a]
<1>1. /\ tta[role] # <<>> /\ HasCapacity(role) /\ tta' = [tta EXCEPT ![role] = Tail(@)]
      /\ rec' = MoveTo(rec, Head(tta[role]), Run[role], role, Selected(role))
  BY Zenon DEF Claim, Drainable
<1>2. PICK r \in Requests, i \in Instances(role) :
        r = Head(tta[role]) /\ i = Selected(role) /\ free_slots[role][i] > 0
  BY <1>1, Dequeues, SelectedHasSlot, Zenon DEF Flow
<1>3. /\ Queued(r, role) /\ tta' \in [Roles -> Seq(Requests)]
      /\ \A a \in Roles : IsInjective(tta'[a])
  BY <1>1, <1>2, Dequeues, Zenon DEF Flow
<1>4. ReqOK(r) /\ QueueOK(r, role)
  BY <1>3, Zenon DEF Flow, ReqOK
<1>5. i \in Int /\ \A q \in DOMAIN rec : rec[q] \in Record
  BY InstancesInt, Zenon DEF Flow, Tables
<1>6. CASE ~Tracked(r)
  <2>1. rec' = rec
    BY <1>1, <1>2, <1>6, Zenon DEF MoveTo, Tracked
  <2> QED
    BY <1>1, <1>2, <1>3, <1>4, <1>5, <1>6, <2>1, Zenon
<1>7. CASE Tracked(r)
  <2>1. r \in DOMAIN rec /\ rec[r] \in Record /\ rec[r].state = Wait[role]
    BY <1>4, <1>5, <1>7, Zenon DEF Tracked, QueueOK
  <2>2. Run[role] \in ValidTransitions[rec[r].state]
    BY <2>1 DEF Run, Wait, ValidTransitions, Roles
  <2>3. rec' = [rec EXCEPT ![r].state = Run[role], ![r][role] = i]
    BY <1>1, <1>2, <2>1, <2>2, Zenon DEF MoveTo
  <2>4. /\ DOMAIN rec' = DOMAIN rec /\ rec'[r] = [rec[r] EXCEPT !.state = Run[role], ![role] = i]
        /\ \A q : q # r /\ q \in DOMAIN rec => rec'[q] = rec[q]
    BY <2>1, <2>3, Zenon
  <2>5. /\ rec'[r].state = Run[role] /\ rec'[r][role] = i
        /\ \A a \in Roles \ {role} : rec'[r][a] = rec[r][a]
        /\ rec'[r] \in Record
    <3>1. CASE role = "enc"
      BY <1>5, <2>1, <2>4, <3>1, Zenon DEF Record, Run, Roles
    <3>2. CASE role = "den"
      BY <1>5, <2>1, <2>4, <3>2, Zenon DEF Record, Run, Roles
    <3>3. CASE role = "dec"
      BY <1>5, <2>1, <2>4, <3>3, Zenon DEF Record, Run, Roles
    <3> QED
      BY <3>1, <3>2, <3>3, Zenon DEF Roles
  <2>6. \A q \in DOMAIN rec : rec'[q] \in Record
    BY <1>5, <2>4, <2>5, Zenon
  <2> QED
    BY <1>1, <1>2, <1>3, <1>4, <2>4, <2>5, <2>6, ZenonT(30)
<1> QED
  BY <1>6, <1>7, Zenon

\* A request is given to an encoder.
LEMMA ToEncoderFlows ==
    ASSUME Flow, Slots, DispatchToEncoder
    PROVE  Flow'
<1>1. /\ Claim("enc", Run["enc"]) /\ "enc" \in Roles /\ results' = results
      /\ work' = work \cup {Work("encode", "enc", Selected("enc"), Head(tta["enc"]), <<>>)}
      /\ log' = log /\ p2p' = p2p /\ staged' = staged
  BY Zenon DEF DispatchToEncoder, Run, Roles, instances
<1>2. PICK r \in Requests, i \in Instances("enc") :
             /\ r = Head(tta["enc"]) /\ i = Selected("enc") /\ tta["enc"] # <<>>
             /\ tta' = [tta EXCEPT !["enc"] = Tail(@)]
             /\ tta' \in [Roles -> Seq(Requests)] /\ \A a \in Roles : IsInjective(tta'[a])
             /\ Queued(r, "enc") /\ QueueOK(r, "enc") /\ ReqOK(r)
             /\ DOMAIN rec' = DOMAIN rec /\ \A q \in DOMAIN rec : rec'[q] \in Record
             /\ \A q : q # r /\ q \in DOMAIN rec => rec'[q] = rec[q]
             /\ Tracked(r) => /\ rec'[r].state = Run["enc"] /\ rec'[r]["enc"] = i
  BY <1>1, Claims
<1>3. PICK n : n = Work("encode", "enc", i, r, <<>>)
  BY Zenon
<1>4. n.kind = "encode" /\ n.role = "enc" /\ n.idx = i /\ n.r = r /\ work' = work \cup {n}
  BY <1>1, <1>2, <1>3, WorkFields
<1>5. Tables'
  BY <1>1, <1>2, Zenon DEF Flow, Tables
<1>6. Addressed' /\ Msgs' = Msgs \cup {n}
  BY <1>1, <1>4, WorkAddressed DEF Flow, WorkKinds, Msgs
<1>7. \A q \in Requests \ {r} : SameTables(q)
  BY <1>1, <1>2, Zenon DEF SameTables
<1>8. MsgOK(n)'
  <2>1. At(r, "enc", i)'
    BY <1>2, Zenon DEF At, On, Tracked
  <2> QED
    BY <1>4, <2>1, Zenon DEF MsgOK, EncodeOK, AllocOK, PushOK, PushedOK, ReadyOK, DoneOK,
           OutputOK
<1>9. \A q \in Requests : ReqOK(q)'
  BY <1>1, <1>2, <1>4, <1>6, <1>7, <1>8, QueuedSent, Zenon DEF Tracked
<1> QED
  BY <1>5, <1>6, <1>9, Zenon DEF Flow

\* What a dispatch to a receiver sends and what it records of the transfer, when
\* the first preallocated slot will do ...
FastSent(r, role, i, n) ==
    /\ prealloc[role][i] # <<>> /\ Head(prealloc[role][i]).size >= p2p[r].size
    /\ prealloc' = [prealloc EXCEPT ![role][i] = Tail(@)]
    /\ p2p' = [p2p EXCEPT ![r].receiver = i, ![r].slot = Head(prealloc[role][i]).slot]
    /\ n = Work("push", From[role], p2p[r].sender, r, Place(role, i, r, Head(prealloc[role][i]).slot))

\* ... and when no preallocated slot will do.
SlowSent(r, role, i, n) ==
    /\ prealloc' = prealloc /\ p2p' = [p2p EXCEPT ![r].receiver = i]
    /\ n = Work("alloc", role, i, r, <<>>)

\* A dispatch to a receiver goes one of the two ways.
LEMMA Dispatched ==
    ASSUME NEW role \in Receivers, DispatchTransfer(role, From[role])
    PROVE  /\ \E n : /\ work' = work \cup {n}
                     /\ FastSent(Head(tta[role]), role, Selected(role), n)
                        \/ SlowSent(Head(tta[role]), role, Selected(role), n)
           /\ results' = results /\ log' = log /\ staged' = staged
BY Zenon DEF DispatchTransfer, FastPath, Pop, FastSent, SlowSent, instances

\* A request is given to a denoiser or to a decoder.
LEMMA ToReceiverFlows ==
    ASSUME Flow, Slots, Lists, NEW role \in Receivers,
           Claim(role, Run[role]), DispatchTransfer(role, From[role])
    PROVE  Flow'
<1>1. role \in Roles /\ From[role] \in Roles /\ From[role] # "dec" /\ From[role] # role /\ role # "enc"
  BY DEF Roles, Receivers, From
<1>2. PICK r \in Requests, i \in Instances(role) :
             /\ r = Head(tta[role]) /\ i = Selected(role) /\ tta[role] # <<>>
             /\ tta' = [tta EXCEPT ![role] = Tail(@)]
             /\ tta' \in [Roles -> Seq(Requests)] /\ \A a \in Roles : IsInjective(tta'[a])
             /\ Queued(r, role) /\ QueueOK(r, role) /\ ReqOK(r)
             /\ DOMAIN rec' = DOMAIN rec /\ \A q \in DOMAIN rec : rec'[q] \in Record
             /\ \A q : q # r /\ q \in DOMAIN rec => rec'[q] = rec[q]
             /\ Tracked(r) => /\ rec'[r].state = Run[role] /\ rec'[r][role] = i
                              /\ \A a \in Roles \ {role} : rec'[r][a] = rec[r][a]
  BY <1>1, Claims
<1>3. PICK n : work' = work \cup {n} /\ (FastSent(r, role, i, n) \/ SlowSent(r, role, i, n))
  BY <1>2, Dispatched, Zenon
<1>4. results' = results /\ log' = log /\ staged' = staged
  BY Dispatched, Zenon
<1>5. /\ r \in DOMAIN p2p /\ p2p[r] \in Transfer /\ p2p[r].slot = None /\ i \in Int
      /\ p2p[r].sender \in Instances(From[role]) /\ (Tracked(r) => StagedFor(r, role))
  BY <1>1, <1>2, InstancesInt, Zenon DEF QueueOK, Flow, Tables
<1>6. PICK s \in Int : /\ DOMAIN p2p' = DOMAIN p2p /\ \A q \in DOMAIN p2p : q # r => p2p'[q] = p2p[q]
                       /\ p2p'[r] = [p2p[r] EXCEPT !.receiver = i, !.slot = s]
                       /\ SlowSent(r, role, i, n) => s = None
                       /\ FastSent(r, role, i, n) => s = Head(prealloc[role][i]).slot
  <2>1. CASE FastSent(r, role, i, n)
    <3>1. prealloc[role][i] \in Seq(Cells) /\ prealloc[role][i] # <<>>
      BY <2>1, Zenon DEF Lists, FastSent
    <3>2. Head(prealloc[role][i]) \in Cells
      BY <3>1
    <3>3. Head(prealloc[role][i]).slot \in Int /\ Head(prealloc[role][i]).slot # None
      BY <3>2, ConstantsAssumption DEF Cells, None
    <3>4. ~SlowSent(r, role, i, n)
      BY <2>1, WorkFields DEF FastSent, SlowSent
    <3>5. p2p'[r] = [p2p[r] EXCEPT !.receiver = i, !.slot = Head(prealloc[role][i]).slot]
      BY <1>5, <2>1, Zenon DEF FastSent
    <3> QED
      BY <2>1, <3>3, <3>4, <3>5, Zenon DEF FastSent
  <2>2. CASE SlowSent(r, role, i, n)
    <3>1. p2p'[r] = [p2p[r] EXCEPT !.receiver = i]
      BY <1>5, <2>2, Zenon DEF SlowSent
    <3>2. p2p'[r] = [p2p[r] EXCEPT !.receiver = i, !.slot = None]
      BY <1>5, <3>1, Zenon DEF Transfer
    <3>3. ~FastSent(r, role, i, n)
      BY <2>2, WorkFields DEF FastSent, SlowSent
    <3>4. None \in Int
      BY DEF None
    <3>5. DOMAIN p2p' = DOMAIN p2p /\ \A q \in DOMAIN p2p : q # r => p2p'[q] = p2p[q]
      BY <2>2, Zenon DEF SlowSent
    <3> QED
      BY <3>2, <3>3, <3>4, <3>5, Zenon
  <2> QED
    BY <1>3, <2>1, <2>2, Zenon
<1>7. /\ p2p'[r] \in Transfer /\ p2p'[r].receiver = i /\ p2p'[r].slot = s
      /\ p2p'[r].sender = p2p[r].sender
  BY <1>5, <1>6, Zenon DEF Transfer
<1>8. Tables'
  BY <1>2, <1>4, <1>6, <1>7, Zenon DEF Flow, Tables
<1>9. Tracked(r)' => Tracked(r) /\ On(r, role, i)' /\ StagedFor(r, role)'
  BY <1>1, <1>2, <1>4, <1>5, <1>7, Zenon DEF Tracked, On, StagedFor
<1>10. \A q \in Requests \ {r} : SameTables(q)
  BY <1>2, <1>4, <1>6, Zenon DEF SameTables
<1>11. n.r = r /\ n.role \in Roles /\ n.idx \in Instances(n.role) /\ n.kind \in WorkKinds /\ MsgOK(n)'
  <2>1. CASE FastSent(r, role, i, n)
    <3>1. /\ n.kind = "push" /\ n.role = From[role] /\ n.idx = p2p[r].sender /\ n.r = r
          /\ n.place = Place(role, i, r, s)
      BY <1>6, <2>1, WorkFields DEF FastSent
    <3>2. PushOK(n)'
      BY <1>1, <1>5, <1>6, <1>7, <1>9, <3>1, Zenon DEF PushOK, At
    <3> QED
      BY <1>1, <1>5, <3>1, <3>2, Zenon
         DEF MsgOK, EncodeOK, AllocOK, PushedOK, ReadyOK, DoneOK, OutputOK, WorkKinds
  <2>2. CASE SlowSent(r, role, i, n)
    <3>1. n.kind = "alloc" /\ n.role = role /\ n.idx = i /\ n.r = r /\ s = None
      BY <1>6, <2>2, WorkFields DEF SlowSent
    <3>2. AllocOK(n)'
      BY <1>5, <1>6, <1>7, <1>9, <3>1, Zenon DEF AllocOK, At
    <3> QED
      BY <1>1, <3>1, <3>2, Zenon
         DEF MsgOK, EncodeOK, PushOK, PushedOK, ReadyOK, DoneOK, OutputOK, WorkKinds
  <2> QED
    BY <1>3, <2>1, <2>2, Zenon
<1>12. Addressed' /\ Msgs' = Msgs \cup {n}
  BY <1>3, <1>4, <1>11, WorkAddressed, Zenon DEF Flow, Msgs
<1>13. \A q \in Requests : ReqOK(q)'
  BY <1>1, <1>2, <1>4, <1>10, <1>11, <1>12, QueuedSent, Zenon DEF Tracked
<1> QED
  BY <1>8, <1>12, <1>13, Zenon DEF Flow

\* The lists say the same when a step changes neither them nor a transfer.
LEMMA ListsSame ==
    ASSUME Lists, prealloc' = prealloc, NEW r,
           \A q \in DOMAIN p2p' : q # r => q \in DOMAIN p2p /\ p2p'[q] = p2p[q],
           r \in DOMAIN p2p' => p2p'[r].slot \in (1..PreallocSlots) \cup {None}
    PROVE  Lists'
BY Zenon DEF Lists

\* A slot is given back to the end of its receiver's list.
LEMMA RecycleLists ==
    ASSUME Flow, Lists, NEW r, Recycle(r)
    PROVE  /\ DOMAIN prealloc' = Receivers
           /\ \A role \in Receivers : prealloc'[role] \in [Instances(role) -> Seq(Cells)]
<1>1. CASE prealloc' = prealloc
  BY <1>1, Zenon DEF Lists
<1>2. CASE prealloc' # prealloc
  <2>1. /\ r \in DOMAIN p2p /\ p2p[r].slot # None
        /\ prealloc' = [prealloc EXCEPT !["den"][p2p[r].receiver] =
                          Append(@, [slot |-> p2p[r].slot, size |-> p2p[r].size])]
    BY <1>2, Zenon DEF Recycle
  <2>2. [slot |-> p2p[r].slot, size |-> p2p[r].size] \in Cells
    BY <2>1, Zenon DEF Lists, Flow, Tables, Transfer, Cells
  <2>3. prealloc["den"] \in [Instances("den") -> Seq(Cells)] /\ DOMAIN prealloc = Receivers
    BY Zenon DEF Lists, Receivers
  <2>4. prealloc'["den"] \in [Instances("den") -> Seq(Cells)]
    <3>1. PICK c \in Cells : c = [slot |-> p2p[r].slot, size |-> p2p[r].size]
      BY <2>2, Zenon
    <3>2. prealloc'["den"] = [prealloc["den"] EXCEPT ![p2p[r].receiver] = Append(@, c)]
      BY <2>1, <2>3, <3>1, Zenon DEF Receivers
    <3>3. PICK f \in [Instances("den") -> Seq(Cells)] : f = prealloc["den"]
      BY <2>3, Zenon
    <3>4. \A j \in Instances("den") : Append(f[j], c) \in Seq(Cells)
      OBVIOUS
    <3>5. [f EXCEPT ![p2p[r].receiver] = Append(@, c)] \in [Instances("den") -> Seq(Cells)]
      BY <3>4, Zenon
    <3> QED
      BY <3>2, <3>3, <3>5, Zenon
  <2>5. prealloc'["dec"] = prealloc["dec"] /\ DOMAIN prealloc' = DOMAIN prealloc
    BY <2>1, <2>3, Zenon DEF Receivers
  <2> QED
    BY <2>3, <2>4, <2>5, Zenon DEF Lists, Receivers
<1> QED
  BY <1>1, <1>2, Zenon

\* A dispatch takes a slot off the head of a list, or takes none.
LEMMA DispatchLists ==
    ASSUME Flow, Slots, Lists, NEW role \in Receivers,
           Claim(role, Run[role]), DispatchTransfer(role, From[role])
    PROVE  Lists'
<1>1. role \in Roles
  BY Zenon DEF Roles, Receivers
<1>2. PICK r \in Requests, i \in Instances(role) : r = Head(tta[role]) /\ i = Selected(role)
  BY <1>1, Claims, Zenon
<1>3. PICK n : FastSent(r, role, i, n) \/ SlowSent(r, role, i, n)
  BY <1>2, Dispatched, Zenon
<1>4. CASE SlowSent(r, role, i, n)
  <2>1. \A q \in DOMAIN p2p' : q \in DOMAIN p2p /\ p2p'[q].slot = p2p[q].slot
    <3>1. p2p' = [p2p EXCEPT ![r].receiver = i]
      BY <1>4, Zenon DEF SlowSent
    <3>2. ASSUME NEW q \in DOMAIN p2p' PROVE q \in DOMAIN p2p /\ p2p'[q].slot = p2p[q].slot
      <4>1. q \in DOMAIN p2p /\ p2p[q] \in Transfer
        BY <3>1, <3>2, Zenon DEF Flow, Tables
      <4> QED
        BY <3>1, <4>1, Zenon DEF Transfer
    <3> QED
      BY <3>2, Zenon
  <2> QED
    BY <1>4, <2>1, Zenon DEF Lists, SlowSent
<1>5. CASE FastSent(r, role, i, n)
  <2>1. prealloc[role] \in [Instances(role) -> Seq(Cells)] /\ DOMAIN prealloc = Receivers
    BY Zenon DEF Lists
  <2>2. prealloc[role][i] \in Seq(Cells) /\ prealloc[role][i] # <<>>
    BY <1>5, <2>1, Zenon DEF FastSent
  <2>3. Head(prealloc[role][i]) \in Cells /\ Tail(prealloc[role][i]) \in Seq(Cells)
    BY <2>2
  <2>4. prealloc'[role] = [prealloc[role] EXCEPT ![i] = Tail(@)]
    BY <1>5, <2>1, Zenon DEF FastSent
  <2>5. prealloc'[role] \in [Instances(role) -> Seq(Cells)]
    BY <2>1, <2>3, <2>4, Zenon
  <2>6. DOMAIN prealloc' = Receivers /\ \A a \in Receivers : a # role => prealloc'[a] = prealloc[a]
    BY <1>5, <2>1, Zenon DEF FastSent
  <2>7. \A q \in DOMAIN p2p' : p2p'[q].slot \in (1..PreallocSlots) \cup {None}
    <3>1. /\ p2p' = [p2p EXCEPT ![r].receiver = i, ![r].slot = Head(prealloc[role][i]).slot]
          /\ Head(prealloc[role][i]).slot \in 1..PreallocSlots
      BY <1>5, <2>3, Zenon DEF FastSent, Cells
    <3>2. ASSUME NEW q \in DOMAIN p2p' PROVE p2p'[q].slot \in (1..PreallocSlots) \cup {None}
      <4>1. q \in DOMAIN p2p /\ p2p[q] \in Transfer /\ p2p[q].slot \in (1..PreallocSlots) \cup {None}
        BY <3>1, <3>2, Zenon DEF Flow, Tables, Lists
      <4> QED
        BY <3>1, <4>1, Zenon DEF Transfer
    <3> QED
      BY <3>2, Zenon
  <2> QED
    BY <2>5, <2>6, <2>7, Zenon DEF Lists
<1> QED
  BY <1>3, <1>4, <1>5, Zenon

\* Every step keeps the shape of the lists.
LEMMA ListsNext == Flow /\ Slots /\ Lists /\ [Next]_vars => Lists'
<1> SUFFICES ASSUME Flow, Slots, Lists, [Next]_vars PROVE Lists'
  BY Zenon
<1>1. ASSUME prealloc' = prealloc, p2p' = p2p PROVE Lists'
  BY <1>1, Zenon DEF Lists
<1>2. ASSUME NEW m \in results, HandleRegister(m) PROVE Lists'
  <2>1. m.role \in Receivers /\ m.idx \in Instances(m.role)
    BY <1>2, Zenon DEF HandleRegister, Flow, Addressed, ResultKinds, Msgs
  <2>2. RegisteredSlots \in Seq(Cells)
    BY ConstantsAssumption DEF RegisteredSlots, Cells
  <2>3. prealloc' = [prealloc EXCEPT ![m.role][m.idx] = RegisteredSlots] /\ p2p' = p2p
    BY <1>2, Zenon DEF HandleRegister
  <2>4. \A a \in Receivers : prealloc'[a] \in [Instances(a) -> Seq(Cells)]
    BY <2>1, <2>2, <2>3, Zenon DEF Lists
  <2> QED
    BY <2>3, <2>4, Zenon DEF Lists
<1>3. ASSUME NEW m \in results, HandleStaged(m) PROVE Lists'
  <2>1. PICK t : t = [sender   |-> IF m.r \in DOMAIN rec THEN rec[m.r].enc ELSE 0,
                      receiver |-> None, slot |-> None, size |-> m.size]
    BY Zenon
  <2>2. prealloc' = prealloc /\ p2p' = Put(p2p, m.r, t)
    BY <1>3, <2>1, Zenon DEF HandleStaged
  <2>3. t.slot = None
    BY <2>1, Zenon
  <2>4. /\ \A q \in DOMAIN p2p' : q # m.r => q \in DOMAIN p2p /\ p2p'[q] = p2p[q]
        /\ m.r \in DOMAIN p2p' => p2p'[m.r] = t
    BY <2>2, Zenon DEF Put
  <2> QED
    BY <2>2, <2>3, <2>4, ListsSame, Zenon
<1>4. ASSUME NEW m \in results, HandleDone(m) \/ HandleFailed(m) PROVE Lists'
  <2>1. Recycle(m.r)
    BY <1>4, Zenon DEF HandleDone, HandleFailed
  <2>2. ASSUME NEW q \in DOMAIN p2p' PROVE p2p'[q].slot \in (1..PreallocSlots) \cup {None}
    <3>1. m.r \in DOMAIN p2p => p2p[m.r] \in Transfer
      BY Zenon DEF Flow, Tables
    <3>2. /\ DOMAIN p2p' = DOMAIN p2p /\ \A x \in DOMAIN p2p : x # m.r => p2p'[x] = p2p[x]
          /\ m.r \in DOMAIN p2p => p2p'[m.r].slot = None
      <4>1. CASE HandleDone(m)
        BY <3>1, <4>1 DEF HandleDone, Transfer
      <4>2. CASE HandleFailed(m)
        BY <3>1, <4>2, Zenon DEF HandleFailed, Transfer
      <4> QED
        BY <1>4, <4>1, <4>2, Zenon
    <3> QED
      BY <2>2, <3>2, Zenon DEF Lists
  <2> QED
    BY <2>1, <2>2, RecycleLists, Zenon DEF Lists
<1>5. ASSUME NEW m \in results, HandleOutput(m) PROVE Lists'
  BY <1>5, Zenon DEF HandleOutput, Forget, Lists
<1>6. CASE DispatchToDenoiser
  BY <1>6, DispatchLists, Zenon DEF DispatchToDenoiser, Receivers, Run, From
<1>7. CASE DispatchToDecoder
  BY <1>7, DispatchLists, Zenon DEF DispatchToDecoder, Receivers, Run, From
<1>8. ASSUME NEW m \in results, HandleRoleError(m) \/ HandleAllocated(m) \/ HandlePushed(m) PROVE Lists'
  BY <1>1, <1>8, Zenon DEF HandleRoleError, HandleAllocated, HandlePushed
<1>9. ASSUME NEW r \in Requests, HandleTimeout(r) \/ HandleClientRequest(r) PROVE Lists'
  BY <1>1, <1>9, Zenon DEF HandleTimeout, HandleClientRequest
<1>10. CASE DispatchToEncoder \/ EndOfTurn \/ InstanceNext \/ UNCHANGED vars
  BY <1>1, <1>10, Zenon DEF DispatchToEncoder, EndOfTurn, InstanceNext, Encode, Allocate,
         Push, Denoise, Decode, server, vars
<1> QED
  BY <1>2, <1>3, <1>4, <1>5, <1>6, <1>7, <1>8, <1>9, <1>10, Zenon
     DEF Next, ServerNext, HandleResult, AllServed

\* A step that moves no message and changes no table.
LEMMA StutterFlows ==
    ASSUME Flow, work' = work, results' = results, rec' = rec, p2p' = p2p, tta' = tta,
           log' = log, staged' = staged
    PROVE  Flow'
<1>1. Tables' /\ Addressed' /\ Msgs' = Msgs
  BY Zenon DEF Flow, Tables, Addressed, Msgs
<1>2. ASSUME NEW q \in Requests PROVE ReqOK(q)'
  <2>1. Same(q)
    BY <1>1, Zenon DEF Same, SameTables, InLog, Queued
  <2> QED
    BY <2>1, SameRequest, Zenon DEF Flow
<1> QED
  BY <1>1, <1>2, Zenon DEF Flow

\* At the start there are only the receivers' registrations.
LEMMA InitFlow == Init => Flow /\ Lists
<1> SUFFICES ASSUME Init PROVE Flow /\ Lists
  BY Zenon
<1>1. /\ log = <<>> /\ rec = <<>> /\ p2p = <<>> /\ work = {} /\ \A role \in Roles : tta[role] = <<>>
      /\ tta \in [Roles -> Seq(Requests)]
  BY DEF Init
<1>2. \A m \in results : /\ m.kind = "register" /\ m.r = NoRequest /\ m.role \in Receivers
                         /\ m.idx \in Instances(m.role)
  BY DEF Init, Result
<1>3. Tables
  <2>1. DOMAIN rec = {} /\ DOMAIN p2p = {}
    BY <1>1
  <2>2. \A role \in Roles : IsInjective(tta[role])
    BY <1>1 DEF IsInjective
  <2> QED
    BY <1>1, <2>1, <2>2 DEF Tables
<1>4. Addressed
  BY <1>1, <1>2, Zenon DEF Addressed, Msgs, Roles, Receivers
<1>5. ASSUME NEW r \in Requests PROVE ReqOK(r)
  <2>1. \A m \in Msgs : m.r # r
    BY <1>1, <1>2, ConstantsAssumption, Zenon DEF Msgs
  <2>2. \A role \in Roles : ~Queued(r, role)
    BY <1>1 DEF Queued, Range
  <2>3. ~Tracked(r) /\ r \notin DOMAIN p2p
    BY <1>1 DEF Tracked
  <2> QED
    BY <2>1, <2>2, <2>3, Zenon DEF ReqOK, OneToken, Token
<1>6. Lists
  <2>1. DOMAIN p2p = {}
    BY <1>1
  <2>2. prealloc = [role \in Receivers |-> [i \in Instances(role) |-> <<>>]]
    BY Zenon DEF Init
  <2> QED
    BY <2>1, <2>2 DEF Lists
<1> QED
  BY <1>3, <1>4, <1>5, <1>6, Zenon DEF Flow

\* Every step keeps the flow of requests in order.
LEMMA FlowNext == Flow /\ Slots /\ Lists /\ [Next]_vars => Flow'
<1> SUFFICES ASSUME Flow, Slots, Lists, [Next]_vars PROVE Flow'
  BY Zenon
<1>1. ASSUME NEW m \in results, HandleResult(m) PROVE Flow'
  BY <1>1, RegisterFlows, RoleErrorFlows, StagedFlows, AllocatedFlows, PushedFlows, DoneFlows,
     FailedFlows, OutputFlows, Zenon DEF HandleResult
<1>2. CASE InstanceNext
  BY <1>2, EncodeFlows, AllocateFlows, PushFlows, DenoiseFlows, DecodeFlows, Zenon
     DEF InstanceNext
<1>3. CASE DispatchToDenoiser
  BY <1>3, ToReceiverFlows, Zenon DEF DispatchToDenoiser, Receivers, Run, From
<1>4. CASE DispatchToDecoder
  BY <1>4, ToReceiverFlows, Zenon DEF DispatchToDecoder, Receivers, Run, From
<1>5. CASE EndOfTurn \/ UNCHANGED vars
  BY <1>5, StutterFlows, Zenon DEF EndOfTurn, instances, vars, server
<1> QED
  BY <1>1, <1>2, <1>3, <1>4, <1>5, TimeoutFlows, SubmitFlows, ToEncoderFlows, Zenon
     DEF Next, ServerNext, AllServed

-----------------------------------------------------------------------------
(***************************************************************************)
(* Every step concerns one request.                                        *)
(***************************************************************************)
\* A table that differs from another one at most in what it says of r.
SameBut(u, t, r) ==
    \A q : q # r => (q \in DOMAIN u <=> q \in DOMAIN t) /\ (q \in DOMAIN t => u[q] = t[q])

\* A step concerns request r and no other.
Concerns(r) ==
    /\ \A q \in Requests \ {r} : Same(q)
    /\ \A x \in Msgs' : x.r # r => x \in Msgs

\* The tables are written at one request.
LEMMA TablesWritten ==
    /\ \A t, r : SameBut(t, t, r) /\ SameBut(Forget(t, r), t, r)
    /\ \A t, r, v : SameBut(Put(t, r, v), t, r)
    /\ \A t, r, s : SameBut(Move(t, r, s), t, r)
    /\ \A t, r, s, role, i : SameBut(MoveTo(t, r, s, role, i), t, r)
    /\ \A t, u, v, r : SameBut(u, t, r) /\ SameBut(v, u, r) => SameBut(v, t, r)
<1>1. \A t, r : SameBut(t, t, r) /\ SameBut(Forget(t, r), t, r)
  BY Zenon DEF SameBut, Forget
<1>2. \A t, r, v : SameBut(Put(t, r, v), t, r)
  BY Zenon DEF SameBut, Put
<1>3. \A t, r, s : SameBut(Move(t, r, s), t, r)
  BY Zenon DEF SameBut, Move
<1>4. \A t, r, s, role, i : SameBut(MoveTo(t, r, s, role, i), t, r)
  BY DEF SameBut, MoveTo
<1>5. \A t, u, v, r : SameBut(u, t, r) /\ SameBut(v, u, r) => SameBut(v, t, r)
  BY Zenon DEF SameBut
<1> QED
  BY <1>1, <1>2, <1>3, <1>4, <1>5, Zenon

\* A step that writes the tables, the queues, the messages and the buffers only
\* for r concerns only r.
LEMMA ConcernsOne ==
    ASSUME NEW r, SameBut(rec', rec, r), SameBut(p2p', p2p, r),
           \A q \in Requests \ {r} : InLog(q)' <=> InLog(q),
           \A t : t[3] # r => (t \in staged' <=> t \in staged),
           \A x : x.r # r => (x \in Msgs' <=> x \in Msgs),
           \A q \in Requests \ {r} : \A role \in Roles : Queued(q, role)' <=> Queued(q, role)
    PROVE  Concerns(r)
<1>1. ASSUME NEW q \in Requests \ {r} PROVE Same(q)
  <2>1. \A role \in Roles, i \in Int : <<role, i, q>> \in staged' <=> <<role, i, q>> \in staged
    BY <1>1, Zenon
  <2>2. SameTables(q)
    BY <1>1, <2>1, Zenon DEF SameTables, SameBut
  <2> QED
    BY <1>1, <2>2, Zenon DEF Same
<1> QED
  BY <1>1, Zenon DEF Concerns

\* What the orchestrator does with a result concerns the request of the result.
LEMMA HandlerConcerns ==
    ASSUME Flow, NEW m \in results, HandleResult(m)
    PROVE  /\ Concerns(m.r) /\ results' = results \ {m} /\ staged' = staged /\ log' = log
           /\ progress' = progress /\ mem' = mem /\ receives' = receives
<1>1. /\ results' = results \ {m} /\ log' = log /\ staged' = staged
      /\ progress' = progress /\ mem' = mem /\ receives' = receives
  BY Zenon DEF HandleResult, HandleRegister, HandleRoleError, HandleStaged, HandleAllocated,
         HandlePushed,
         HandleDone, HandleFailed, HandleOutput, Receive, instances
<1>2. work' = work \/ \E n : n.r = m.r /\ work' = work \cup {n}
  <2>1. CASE HandleAllocated(m)
    <3>1. ASSUME NEW role, NEW i, NEW place PROVE Work("push", role, i, m.r, place).r = m.r
      BY Zenon DEF Work
    <3> QED
      BY <2>1, <3>1, Zenon DEF HandleAllocated
  <2>2. CASE HandlePushed(m)
    <3>1. ASSUME NEW role, NEW i, NEW place PROVE Work("ready", role, i, m.r, place).r = m.r
      BY Zenon DEF Work
    <3> QED
      BY <2>2, <3>1, Zenon DEF HandlePushed
  <2>3. CASE ~HandleAllocated(m) /\ ~HandlePushed(m)
    BY <2>3, Zenon DEF HandleResult, HandleRegister, HandleRoleError, HandleStaged,
         HandleDone, HandleFailed, HandleOutput
  <2> QED
    BY <2>1, <2>2, <2>3, Zenon
<1>3. \A x : x.r # m.r => (x \in Msgs' <=> x \in Msgs)
  BY <1>1, <1>2, Zenon DEF Msgs
<1>4. SameBut(rec', rec, m.r)
  <2>1. \/ rec' = rec \/ rec' = Forget(rec, m.r) \/ \E s : rec' = Move(rec, m.r, s)
        \/ \E s, u : rec' = Move(Move(rec, m.r, s), m.r, u)
    BY Zenon DEF HandleResult, HandleRegister, HandleRoleError, HandleStaged, HandleAllocated,
         HandlePushed, HandleDone, HandleFailed, HandleOutput, Answer
  <2>2. ASSUME NEW s, rec' = Move(rec, m.r, s) PROVE SameBut(rec', rec, m.r)
    BY <2>2, TablesWritten, Zenon
  <2>3. ASSUME NEW s, NEW u, rec' = Move(Move(rec, m.r, s), m.r, u) PROVE SameBut(rec', rec, m.r)
    <3>1. PICK t : t = Move(rec, m.r, s)
      BY Zenon
    <3>2. SameBut(t, rec, m.r) /\ SameBut(rec', t, m.r)
      BY <2>3, <3>1, TablesWritten, Zenon
    <3> QED
      BY <3>2, TablesWritten, Zenon
  <2> QED
    BY <2>1, <2>2, <2>3, TablesWritten, Zenon
<1>5. SameBut(p2p', p2p, m.r)
  <2>1. CASE HandleStaged(m)
    <3>1. \E v : p2p' = Put(p2p, m.r, v)
      BY <2>1, Zenon DEF HandleStaged
    <3> QED
      BY <3>1, TablesWritten, Zenon
  <2>2. CASE HandleDone(m)
    BY <2>2, Zenon DEF HandleDone, SameBut
  <2>3. CASE HandleFailed(m)
    BY <2>3, Zenon DEF HandleFailed, SameBut
  <2>4. CASE HandleOutput(m)
    <3>1. p2p' = p2p \/ p2p' = Forget(p2p, m.r)
      BY <2>4, Zenon DEF HandleOutput
    <3> QED
      BY <3>1, TablesWritten, Zenon
  <2>5. CASE HandleRegister(m) \/ HandleRoleError(m) \/ HandleAllocated(m) \/ HandlePushed(m)
    <3>1. p2p' = p2p
      BY <2>5, Zenon DEF HandleRegister, HandleRoleError, HandleAllocated, HandlePushed
    <3> QED
      BY <3>1, TablesWritten, Zenon
  <2> QED
    BY <2>1, <2>2, <2>3, <2>4, <2>5, Zenon DEF HandleResult
<1>6. \A q \in Requests \ {m.r} : \A role \in Roles : Queued(q, role)' <=> Queued(q, role)
  <2>1. CASE tta' = tta
    BY <2>1, Zenon DEF Queued
  <2>2. CASE tta' # tta
    <3>1. PICK role \in Roles : tta' = [tta EXCEPT ![role] = Append(@, m.r)] /\ m.kind \in ResultKinds
      BY <2>2, Zenon DEF HandleResult, HandleRegister, HandleRoleError, HandleStaged,
             HandleAllocated,
         HandlePushed, HandleDone, HandleFailed, HandleOutput, Roles, ResultKinds
    <3>2. m.r \in Requests
      BY <3>1, Zenon DEF Flow, Addressed, ResultKinds
    <3> QED
      BY <3>1, <3>2, Enqueues, Zenon DEF Flow
  <2> QED
    BY <2>1, <2>2, Zenon
<1> QED
  BY <1>1, <1>3, <1>4, <1>5, <1>6, ConcernsOne, Zenon DEF InLog

\* What an instance does with a message concerns the request of the message.
LEMMA InstanceConcerns ==
    ASSUME Flow, NEW m \in work, Encode(m) \/ Allocate(m) \/ Push(m) \/ Denoise(m) \/ Decode(m)
    PROVE  Concerns(m.r) /\ UNCHANGED server /\ replies' = replies
<1>1. UNCHANGED server /\ work' = work \ {m} /\ replies' = replies
  BY Zenon DEF Encode, Allocate, Push, PushRequested, Denoise, Decode, Load
<1>2. results' = results \/ \E n : n.r = m.r /\ results' = results \cup {n}
  <2>1. \A kind, role, i, n : Result(kind, role, i, m.r, n).r = m.r
    BY Zenon DEF Result
  <2>2. CASE Encode(m)
    BY <2>1, <2>2, Zenon DEF Encode
  <2>3. CASE Allocate(m)
    BY <2>1, <2>3, Zenon DEF Allocate
  <2>4. CASE Push(m)
    BY <2>1, <2>4, Zenon DEF Push
  <2>5. CASE Denoise(m)
    BY <2>1, <2>5, Zenon DEF Denoise
  <2>6. CASE Decode(m)
    BY <2>1, <2>6, Zenon DEF Decode
  <2> QED
    BY <2>2, <2>3, <2>4, <2>5, <2>6, Zenon
<1>3. \A x : x.r # m.r => (x \in Msgs' <=> x \in Msgs)
  BY <1>1, <1>2, Zenon DEF Msgs
<1>4. \A t : t[3] # m.r => (t \in staged' <=> t \in staged)
  <2>1. CASE Encode(m)
    <3>1. staged' = staged \/ staged' = staged \cup {<<"enc", m.idx, m.r>>}
      BY <2>1, Zenon DEF Encode, Stage
    <3> QED
      BY <3>1
  <2>2. CASE Allocate(m)
    BY <2>2, Zenon DEF Allocate
  <2>3. CASE Push(m)
    BY <2>3 DEF Push, PushToPeer
  <2>4. CASE Denoise(m)
    <3>1. staged' = staged \/ staged' = staged \cup {<<"den", m.idx, m.r>>}
      BY <2>4, Zenon DEF Denoise, Stage
    <3> QED
      BY <3>1
  <2>5. CASE Decode(m)
    BY <2>5, Zenon DEF Decode
  <2> QED
    BY <2>1, <2>2, <2>3, <2>4, <2>5, Zenon
<1>5. rec' = rec /\ p2p' = p2p /\ log' = log /\ tta' = tta
  BY <1>1, Zenon DEF server
<1>6. SameBut(rec', rec, m.r) /\ SameBut(p2p', p2p, m.r)
  BY <1>5, TablesWritten, Zenon
<1> QED
  BY <1>1, <1>3, <1>4, <1>5, <1>6, ConcernsOne, Zenon DEF InLog, Queued

\* A request that expires concerns no other request.
LEMMA TimeoutConcerns ==
    ASSUME Flow, NEW r \in Requests, HandleTimeout(r)
    PROVE  Concerns(r)
<1>1. /\ rec' = Forget(rec, r) /\ tta' = [a \in Roles |-> Without(tta[a], r)]
      /\ log' = log /\ p2p' = p2p /\ work' = work /\ results' = results /\ staged' = staged
  BY Zenon DEF HandleTimeout, Answer, instances
<1>2. ASSUME NEW a \in Roles PROVE Range(tta'[a]) = Range(tta[a]) \ {r}
  <2>1. tta[a] \in Seq(Requests) /\ IsInjective(tta[a]) /\ tta'[a] = Without(tta[a], r)
    BY <1>1, Zenon DEF Flow, Tables
  <2> QED
    BY <2>1, WithoutIs, Zenon
<1>3. SameBut(rec', rec, r) /\ SameBut(p2p', p2p, r)
  BY <1>1, TablesWritten, Zenon
<1> QED
  BY <1>1, <1>2, <1>3, ConcernsOne, Zenon DEF Msgs, InLog, Queued

\* Nor does a request that comes.
LEMMA SubmitConcerns ==
    ASSUME Flow, NEW r \in Requests, HandleClientRequest(r)
    PROVE  Concerns(r)
<1>1. /\ log' = Append(log, r) /\ p2p' = p2p /\ work' = work /\ results' = results
      /\ staged' = staged /\ tta' = [tta EXCEPT !["enc"] = Append(@, r)] /\ "enc" \in Roles
  BY Zenon DEF HandleClientRequest, instances, Roles
<1>2. SameBut(rec', rec, r)
  <2>1. \E v : rec' = Put(rec, r, v)
    BY Zenon DEF HandleClientRequest
  <2> QED
    BY <2>1, TablesWritten, Zenon
<1>3. SameBut(p2p', p2p, r)
  BY <1>1, TablesWritten, Zenon
<1>4. \A q : \A a \in Roles : Queued(q, a)' <=> Queued(q, a) \/ (a = "enc" /\ q = r)
  BY <1>1, Enqueues, Zenon DEF Flow
<1>5. \A q : InLog(q)' <=> InLog(q) \/ q = r
  <2>1. PICK k \in Nat : k = Len(log) /\ log \in Seq(Requests)
    BY DEF Flow, Tables
  <2>2. Len(log') = k + 1 /\ log'[k + 1] = r /\ \A i \in 1..k : log'[i] = log[i]
    BY <1>1, <2>1
  <2> QED
    BY <2>1, <2>2 DEF InLog
<1> QED
  BY <1>1, <1>2, <1>3, <1>4, <1>5, ConcernsOne, Zenon DEF Msgs

\* A dispatch concerns the request at the head of the queue.
LEMMA DispatchConcerns ==
    ASSUME Flow, Slots, NEW role \in Roles, Claim(role, Run[role]),
           IF role = "enc" THEN DispatchToEncoder ELSE DispatchTransfer(role, From[role])
    PROVE  \E r \in Requests : r = Head(tta[role]) /\ Concerns(r)
<1>1. PICK r \in Requests : /\ r = Head(tta[role]) /\ tta[role] # <<>>
                            /\ tta' = [tta EXCEPT ![role] = Tail(@)]
  BY Claims, Zenon
<1>2. \A q : \A a \in Roles : Queued(q, a)' <=> Queued(q, a) /\ ~(a = role /\ q = r)
  BY <1>1, Dequeues, Zenon DEF Flow
<1>3. SameBut(rec', rec, r)
  BY <1>1, TablesWritten, Zenon DEF Claim
<1>4. /\ results' = results /\ log' = log /\ staged' = staged
      /\ (\E n : n.r = r /\ work' = work \cup {n}) /\ SameBut(p2p', p2p, r)
  <2>1. CASE role = "enc"
    <3>1. /\ work' = work \cup {Work("encode", "enc", Selected("enc"), r, <<>>)}
          /\ results' = results /\ log' = log /\ staged' = staged /\ p2p' = p2p
      BY <1>1, <2>1, Zenon DEF DispatchToEncoder, instances
    <3>2. SameBut(p2p', p2p, r)
      BY <3>1, TablesWritten, Zenon
    <3> QED
      BY <3>1, <3>2, WorkFields
  <2>2. CASE role # "enc"
    <3>1. role \in Receivers
      BY <2>2, Zenon DEF Roles, Receivers
    <3>2. PICK n : /\ work' = work \cup {n}
                   /\ FastSent(r, role, Selected(role), n) \/ SlowSent(r, role, Selected(role), n)
      BY <1>1, <2>2, <3>1, Dispatched, Zenon
    <3>3. n.r = r
      BY <3>2, WorkFields DEF FastSent, SlowSent
    <3>4. SameBut(p2p', p2p, r)
      BY <3>2, Zenon DEF FastSent, SlowSent, SameBut
    <3> QED
      BY <2>2, <3>1, <3>2, <3>3, <3>4, Dispatched, Zenon
  <2> QED
    BY <2>1, <2>2, Zenon
<1>5. \A x : x.r # r => (x \in Msgs' <=> x \in Msgs)
  BY <1>4, Zenon DEF Msgs
<1> QED
  BY <1>1, <1>2, <1>3, <1>4, <1>5, ConcernsOne, Zenon DEF InLog

\* What an instance sends after what it was asked.
Follows(m, n) ==
    \/ m.kind = "encode" /\ n.kind = "staged"
    \/ m.kind = "encode" /\ n.kind = "error" /\ "encode" \in Faults
    \/ m.kind = "alloc" /\ n.kind = "allocated"
    \/ m.kind = "push" /\ n.kind = "pushed"
    \/ m.kind = "ready" /\ m.role = "den" /\ n.kind \in {"done", "failed"}
    \/ m.kind = "ready" /\ m.role = "dec" /\ n.kind \in {"output", "output_error"}

\* The only message of request r in flight after the step is n.
Alone(n, r) == n \in Msgs' /\ n.r = r /\ \A x \in Msgs' : x.r = r => x = n

\* No message of request r is in flight after the step.
Silent(r) == \A x \in Msgs' : x.r # r

\* An instance answers the message it handles; an allocation that fails is not
\* answered.
LEMMA InstanceAnswers ==
    ASSUME Flow, NEW m \in work, Encode(m) \/ Allocate(m) \/ Push(m) \/ Denoise(m) \/ Decode(m)
    PROVE  \/ \E n : /\ Alone(n, m.r) /\ n.role = m.role /\ n.idx = m.idx /\ Follows(m, n)
                     /\ results' = results \cup {n}
           \/ Silent(m.r) /\ m.kind = "alloc" /\ "alloc" \in Faults /\ results' = results
<1>1. m \in Msgs /\ m.r \in Requests /\ ReqOK(m.r) /\ MsgOK(m) /\ m \notin results
  BY OneWay, Zenon DEF Flow, Addressed, ReqOK, Msgs
<1>2. work' = work \ {m}
  BY Zenon DEF Encode, Allocate, Push, PushRequested, Denoise, Decode, Load
<1>3. ASSUME NEW n, n.r = m.r, results' = results \cup {n} PROVE Alone(n, m.r)
  BY <1>1, <1>2, <1>3, Zenon DEF Alone, Msgs, ReqOK, OneToken
<1>4. ASSUME NEW kind, NEW k
      PROVE  LET n == Result(kind, m.role, m.idx, m.r, k)
             IN n.kind = kind /\ n.role = m.role /\ n.idx = m.idx /\ n.r = m.r
  BY Zenon DEF Result
<1>5. CASE Encode(m)
  <2>1. m.kind = "encode" /\ m.role = "enc"
    BY <1>1, <1>5, Zenon DEF Encode, MsgOK, EncodeOK
  <2>2. PICK kind \in {"staged", "error"}, k \in Sizes \cup {0} :
          /\ results' = results \cup {Result(kind, m.role, m.idx, m.r, k)}
          /\ kind = "error" => "encode" \in Faults
    BY <1>5, <2>1, Zenon DEF Encode, MayFail
  <2> QED
    BY <1>3, <1>4, <2>1, <2>2 DEF Follows
<1>6. CASE Allocate(m)
  <2>1. CASE results' = results \cup {Result("allocated", m.role, m.idx, m.r, 0)}
    BY <1>3, <1>4, <1>6, <2>1 DEF Follows, Allocate
  <2>2. CASE results' = results /\ "alloc" \in Faults
    BY <1>1, <1>2, <1>6, <2>2, Zenon DEF Silent, Msgs, ReqOK, OneToken, Allocate
  <2> QED
    BY <1>6, <2>1, <2>2, Zenon DEF Allocate, MayFail
<1>7. CASE Push(m)
  BY <1>3, <1>4, <1>7 DEF Follows, Push, PushRequested
<1>8. CASE Denoise(m)
  <2>1. m.kind = "ready" /\ m.role = "den"
    BY <1>8, Zenon DEF Denoise, Load
  <2>2. PICK kind \in {"done", "failed"}, k \in Sizes \cup {0} : results' = results \cup {Result(kind, m.role, m.idx, m.r, k)}
    BY <1>8, <2>1, Zenon DEF Denoise
  <2> QED
    BY <1>3, <1>4, <2>1, <2>2 DEF Follows
<1>9. CASE Decode(m)
  <2>1. m.kind = "ready" /\ m.role = "dec"
    BY <1>9, Zenon DEF Decode, Load
  <2>2. PICK kind \in {"output", "output_error"} : results' = results \cup {Result(kind, m.role, m.idx, m.r, 0)}
    BY <1>9, <2>1, Zenon DEF Decode
  <2> QED
    BY <1>3, <1>4, <2>1, <2>2 DEF Follows
<1> QED
  BY <1>5, <1>6, <1>7, <1>8, <1>9, Zenon

\* A handler that asks an instance for nothing leaves no message of its request.
LEMMA HandlerSilent ==
    ASSUME Flow, NEW m \in results, Receive(m), work' = work, m.kind # "register"
    PROVE  Silent(m.r)
<1>1. Msgs' = Msgs \ {m} /\ m \in Msgs /\ ReqOK(m.r)
  BY Received, Zenon
<1> QED
  BY <1>1, Zenon DEF Silent, ReqOK, OneToken

\* One that asks leaves what it asked.
LEMMA HandlerAlone ==
    ASSUME Flow, NEW m \in results, Receive(m), NEW n, n.r = m.r, work' = work \cup {n}, m.kind # "register"
    PROVE  Alone(n, m.r)
<1>1. Msgs' = (Msgs \ {m}) \cup {n} /\ m \in Msgs /\ ReqOK(m.r)
  BY Received, Zenon
<1> QED
  BY <1>1, Zenon DEF Alone, ReqOK, OneToken

\* So does a dispatch.
LEMMA DispatchAlone ==
    ASSUME Flow, NEW r \in Requests, NEW role \in Roles, Queued(r, role), NEW n, n.r = r,
           work' = work \cup {n}, results' = results
    PROVE  Alone(n, r)
<1>1. Msgs' = Msgs \cup {n} /\ ReqOK(r)
  BY Zenon DEF Msgs, Flow
<1> QED
  BY <1>1, Zenon DEF Alone, ReqOK, OneToken

\* Message m is on the way of a transfer to role that may use a preallocated slot.
Into(m, role) ==
    \/ m.kind = "push" /\ m.place[1] = role
    \/ m.kind = "ready" /\ m.role = role
    \/ m.kind \in {"done", "failed"} /\ role = "den"
    \/ m.kind = "pushed" /\ Tracked(m.r) /\ To[m.role] = role

\* Request r uses preallocated slot s of instance i.
Uses(r, role, i, s) ==
    /\ r \in DOMAIN p2p /\ p2p[r].receiver = i /\ p2p[r].slot = s /\ s # None
    /\ \E m \in Msgs : m.r = r /\ Into(m, role)

\* Slot s of instance i is listed as free.
Listed(role, i, s) ==
    \E a \in 1..Len(prealloc[role][i]) : prealloc[role][i][a].slot = s

\* A list names a slot once, and never as larger than it is.
ListsSound ==
    \A role \in Receivers : \A i \in Instances(role) :
        \A a, b \in 1..Len(prealloc[role][i]) :
            /\ prealloc[role][i][a].size <= PreallocSize
            /\ prealloc[role][i][a].slot = prealloc[role][i][b].slot => a = b

\* A slot that is used has one user, which fits, and is not listed.
UsesSound ==
    \A role \in Receivers : \A i \in Instances(role) : \A s : \A r, q \in Requests :
        Uses(r, role, i, s) =>
            /\ p2p[r].size <= PreallocSize /\ ~Listed(role, i, s)
            /\ Uses(q, role, i, s) => q = r

\* The registration of a receiver is the only one, and comes before any use.
RegistersSound ==
    \A g \in results : g.kind = "register" =>
        /\ g = Result("register", g.role, g.idx, NoRequest, 0)
        /\ prealloc[g.role][g.idx] = <<>>
        /\ \A r \in Requests : \A s : ~Uses(r, g.role, g.idx, s)

\* The invariant of the preallocated slots.
SlotsOnce == ListsSound /\ UsesSound /\ RegistersSound

\* The request that a step concerns uses no more slots than before.
UsesLess(r) ==
    r \in Requests => \A role \in Receivers : \A i, s :
        Uses(r, role, i, s)' => Uses(r, role, i, s) /\ p2p'[r].size = p2p[r].size

\* The others use what they used.
LEMMA OthersUse ==
    ASSUME NEW r, Concerns(r), NEW q \in Requests \ {r}
    PROVE  UsesLess(q)
<1>1. SameTables(q) /\ (Tracked(q)' <=> Tracked(q)) /\ Same(q)
  BY Zenon DEF Concerns, Same, SameTables, Tracked
<1>2. ASSUME NEW role \in Receivers, NEW i, NEW s, Uses(q, role, i, s)'
      PROVE  Uses(q, role, i, s) /\ p2p'[q].size = p2p[q].size
  <2>1. q \in DOMAIN p2p /\ p2p'[q] = p2p[q]
    BY <1>1, <1>2, Zenon DEF Uses, SameTables
  <2>2. PICK m \in Msgs' : m.r = q /\ Into(m, role)'
    BY <1>2, Zenon DEF Uses
  <2>3. m \in Msgs /\ Into(m, role)
    BY <1>1, <2>2, Zenon DEF Same, Into
  <2> QED
    BY <1>2, <2>1, <2>2, <2>3, Zenon DEF Uses
<1> QED
  BY <1>2, Zenon DEF UsesLess

\* No new registration comes.
LEMMA NoNewRegister ==
    ASSUME Flow, Flow', NEW r, Concerns(r), r \in Requests \/ results' \subseteq results
    PROVE  \A g \in results' : g.kind = "register" => g \in results
<1> SUFFICES ASSUME NEW g \in results', g.kind = "register", r \in Requests PROVE g \in results
  BY Zenon
<1>1. g.r = NoRequest /\ g \in Msgs'
  BY Zenon DEF Flow, Addressed, ResultKinds, Msgs
<1>2. g \in Msgs
  BY <1>1, ConstantsAssumption, Zenon DEF Concerns
<1> QED
  BY <1>2, Zenon DEF Msgs, Flow, Addressed, WorkKinds

\* A step that takes no slot and gives none back.
LEMMA SlotsKept ==
    ASSUME Flow, Flow', SlotsOnce, NEW r, Concerns(r), prealloc' = prealloc, UsesLess(r),
           r \in Requests \/ results' \subseteq results
    PROVE  SlotsOnce'
<1>1. ASSUME NEW q \in Requests PROVE UsesLess(q)
  BY OthersUse, Zenon
<1>2. ListsSound'
  BY DEF SlotsOnce, ListsSound
<1>3. \A role, i, s : Listed(role, i, s)' <=> Listed(role, i, s)
  BY Zenon DEF Listed
<1>4. UsesSound'
  BY <1>1, <1>3 DEF SlotsOnce, UsesSound, UsesLess
<1>5. RegistersSound'
  <2> SUFFICES ASSUME NEW g \in results', g.kind = "register"
               PROVE  /\ g = Result("register", g.role, g.idx, NoRequest, 0)
                      /\ prealloc'[g.role][g.idx] = <<>>
                      /\ \A q \in Requests : \A s : ~Uses(q, g.role, g.idx, s)'
    BY Zenon DEF RegistersSound
  <2>1. g \in results /\ g.role \in Receivers
    BY NoNewRegister, Zenon DEF Flow, Addressed, ResultKinds
  <2> QED
    BY <1>1, <2>1, Zenon DEF SlotsOnce, RegistersSound, UsesLess
<1> QED
  BY <1>2, <1>4, <1>5, Zenon DEF SlotsOnce

\* A request without messages uses no slot.
LEMMA SilentUsesLess == \A r : Silent(r) => UsesLess(r)
BY Zenon DEF Silent, UsesLess, Uses

\* One with a message uses what the message says.
LEMMA AloneUsesLess ==
    ASSUME NEW r, NEW n, Alone(n, r), NEW m \in Msgs, m.r = r,
           r \in DOMAIN p2p' => r \in DOMAIN p2p /\ p2p'[r] = p2p[r],
           r \in DOMAIN p2p' /\ p2p'[r].slot # None => \A role \in Receivers : Into(n, role)' => Into(m, role)
    PROVE  UsesLess(r)
<1> SUFFICES ASSUME NEW role \in Receivers, NEW i, NEW s, Uses(r, role, i, s)'
             PROVE  Uses(r, role, i, s) /\ p2p'[r].size = p2p[r].size
  BY Zenon DEF UsesLess
<1>1. Into(n, role)' /\ r \in DOMAIN p2p' /\ p2p'[r].slot # None
  BY Zenon DEF Uses, Alone
<1> QED
  BY <1>1, Zenon DEF Uses

\* What an instance sends is on the way of the same transfer as what it was asked.
LEMMA InstanceUses ==
    ASSUME Flow, NEW m \in work, Encode(m) \/ Allocate(m) \/ Push(m) \/ Denoise(m) \/ Decode(m)
    PROVE  UsesLess(m.r)
<1>1. m \in Msgs /\ m.r \in Requests /\ MsgOK(m) /\ m.role \in Roles
  BY Zenon DEF Flow, Addressed, ReqOK, Msgs
<1>2. rec' = rec /\ p2p' = p2p /\ (Tracked(m.r)' <=> Tracked(m.r))
  BY InstanceConcerns, Zenon DEF server, Tracked
<1>3. CASE Silent(m.r)
  BY <1>3, SilentUsesLess, Zenon
<1>4. ASSUME NEW n, Alone(n, m.r), n.role = m.role, Follows(m, n) PROVE UsesLess(m.r)
  <2>1. ASSUME NEW role \in Receivers, Into(n, role)' PROVE Into(m, role)
    <3>1. CASE n.kind = "pushed"
      <4>1. m.kind = "push" /\ Tracked(m.r) /\ To[m.role] = role
        BY <1>2, <1>4, <2>1, <3>1, Zenon DEF Follows, Into, Alone
      <4>2. PICK to \in Receivers : /\ m.place = Place(to, p2p[m.r].receiver, m.r, p2p[m.r].slot)
                                    /\ m.role = From[to]
        BY <1>1, <4>1, Zenon DEF MsgOK, PushOK
      <4>3. m.place[1] = to /\ To[From[to]] = to
        BY <4>2 DEF Place, To, From, Receivers
      <4> QED
        BY <4>1, <4>2, <4>3, Zenon DEF Into
    <3>2. CASE n.kind \in {"done", "failed"}
      BY <1>4, <2>1, <3>2, Zenon DEF Follows, Into
    <3> QED
      BY <1>4, <2>1, <3>1, <3>2, Zenon DEF Follows, Into
  <2> QED
    BY <1>1, <1>2, <1>4, <2>1, AloneUsesLess, Zenon
<1> QED
  BY <1>3, <1>4, InstanceAnswers, Zenon

\* A handler that gives no slot back.
LEMMA HandlerSlots ==
    ASSUME Flow, Flow', SlotsOnce, NEW m \in results, HandleResult(m),
           HandleRoleError(m) \/ HandleStaged(m) \/ HandleAllocated(m) \/ HandlePushed(m) \/ HandleOutput(m)
    PROVE  SlotsOnce'
<1>1. m.kind # "register" /\ Receive(m) /\ prealloc' = prealloc
  BY Zenon DEF HandleRoleError, HandleStaged, HandleAllocated, HandlePushed, HandleOutput
<1> USE <1>1
<1>2. m \in Msgs /\ m.r \in Requests /\ MsgOK(m)
  BY Received, Zenon
<1> SUFFICES UsesLess(m.r)
  BY <1>2, HandlerConcerns, SlotsKept, Zenon
<1>3. CASE work' = work
  BY <1>3, HandlerSilent, SilentUsesLess, Zenon
<1>4. CASE HandleAllocated(m) /\ work' # work
  <2>1. PICK n : n.r = m.r /\ work' = work \cup {n} /\ p2p' = p2p
    BY <1>4, WorkFields DEF HandleAllocated
  <2>2. m.r \in DOMAIN p2p /\ p2p[m.r].slot = None
    BY <1>2, <1>4, Zenon DEF MsgOK, AllocOK, HandleAllocated
  <2> QED
    BY <1>2, <2>1, <2>2, HandlerAlone, AloneUsesLess, Zenon
<1>5. CASE HandlePushed(m) /\ work' # work
  <2>1. /\ m.kind = "pushed" /\ p2p' = p2p /\ rec' = rec
        /\ StateIn(m.r, Denoising \cup Decoding)
        /\ \E role, i, place : /\ work' = work \cup {Work("ready", role, i, m.r, place)}
                               /\ role = IF StateIn(m.r, Denoising) THEN "den" ELSE "dec"
    BY <1>5, Zenon DEF HandlePushed
  <2>2. PICK n : /\ work' = work \cup {n} /\ n.kind = "ready" /\ n.r = m.r
                 /\ n.role = IF StateIn(m.r, Denoising) THEN "den" ELSE "dec"
    BY <2>1, WorkFields
  <2>3. /\ Tracked(m.r) /\ m.role \in {"enc", "den"} /\ On(m.r, To[m.role], p2p[m.r].receiver)
    BY <1>2, <2>1, Zenon DEF StateIn, Tracked, MsgOK, PushedOK, Addressed, Flow, Roles, Msgs
  <2>4. n.role = To[m.role]
    <3>1. To = [enc |-> "den", den |-> "dec"] /\ To["enc"] = "den" /\ To["den"] = "dec"
      BY DEF To
    <3>2. CASE m.role = "enc"
      <4>1. rec[m.r].state = "denoising_running" /\ m.r \in DOMAIN rec
        BY <2>3, <3>1, <3>2 DEF Tracked, On, Run
      <4> QED
        BY <2>2, <3>1, <3>2, <4>1, Zenon DEF StateIn, Denoising
    <3>3. CASE m.role = "den"
      <4>1. rec[m.r].state = "decoder_running"
        BY <2>3, <3>1, <3>3 DEF Tracked, On, Run
      <4>2. ~StateIn(m.r, Denoising)
        BY <4>1 DEF StateIn, Denoising
      <4> QED
        BY <2>2, <3>1, <3>3, <4>2, Zenon
    <3> QED
      BY <2>3, <3>2, <3>3, Zenon
  <2>5. \A role \in Receivers : Into(n, role)' => Into(m, role)
    BY <2>1, <2>2, <2>3, <2>4, Zenon DEF Into
  <2> QED
    BY <1>2, <2>1, <2>2, <2>5, HandlerAlone, AloneUsesLess, Zenon
<1> QED
  BY <1>3, <1>4, <1>5, Zenon DEF HandleRoleError, HandleStaged, HandleOutput

\* A registration lists the slots of a receiver for the first time.
LEMMA RegisterSlots ==
    ASSUME Flow, Flow', Lists, SlotsOnce, NEW m \in results, HandleRegister(m)
    PROVE  SlotsOnce'
<1>1. /\ m.kind = "register" /\ Receive(m) /\ results' = results \ {m} /\ m.r = NoRequest
      /\ m.role \in Receivers /\ m.idx \in Instances(m.role)
      /\ prealloc' = [prealloc EXCEPT ![m.role][m.idx] = RegisteredSlots]
  BY Zenon DEF HandleRegister, Receive, Flow, Addressed, ResultKinds, Msgs
<1> USE <1>1
<1>2. ASSUME NEW q \in Requests PROVE UsesLess(q)
  BY HandlerConcerns, OthersUse, ConstantsAssumption, Zenon DEF HandleResult
<1>3. \A role \in Receivers : \A i \in Instances(role) :
         prealloc'[role][i] = IF role = m.role /\ i = m.idx THEN RegisteredSlots ELSE prealloc[role][i]
  BY Zenon DEF Lists
<1>4. /\ Len(RegisteredSlots) = PreallocSlots
      /\ \A a \in 1..PreallocSlots : RegisteredSlots[a] = [slot |-> a, size |-> PreallocSize]
  BY ConstantsAssumption DEF RegisteredSlots
<1>5. ListsSound'
  BY <1>3, <1>4, ConstantsAssumption DEF SlotsOnce, ListsSound
<1>6. \A r \in Requests : \A s : ~Uses(r, m.role, m.idx, s)
  BY Zenon DEF SlotsOnce, RegistersSound
<1>7. \A role \in Receivers : \A i \in Instances(role) : \A s :
         Listed(role, i, s)' => Listed(role, i, s) \/ (role = m.role /\ i = m.idx)
  BY <1>3 DEF Listed
<1>8. UsesSound'
  BY <1>2, <1>6, <1>7 DEF SlotsOnce, UsesSound, UsesLess
<1>9. RegistersSound'
  <2> SUFFICES ASSUME NEW g \in results', g.kind = "register"
               PROVE  /\ g = Result("register", g.role, g.idx, NoRequest, 0)
                      /\ prealloc'[g.role][g.idx] = <<>>
                      /\ \A q \in Requests : \A s : ~Uses(q, g.role, g.idx, s)'
    BY Zenon DEF RegistersSound
  <2>1. g \in results /\ g # m /\ g.role \in Receivers /\ g.idx \in Instances(g.role)
    BY Zenon DEF Flow, Addressed, ResultKinds, Msgs
  <2>2. /\ g = Result("register", g.role, g.idx, NoRequest, 0)
        /\ m = Result("register", m.role, m.idx, NoRequest, 0)
        /\ prealloc[g.role][g.idx] = <<>> /\ \A q \in Requests : \A s : ~Uses(q, g.role, g.idx, s)
    BY <2>1, Zenon DEF SlotsOnce, RegistersSound
  <2>3. ~(g.role = m.role /\ g.idx = m.idx)
    BY <2>1, <2>2, Zenon
  <2> QED
    BY <1>2, <1>3, <2>1, <2>2, <2>3 DEF UsesLess
<1> QED
  BY <1>5, <1>8, <1>9, Zenon DEF SlotsOnce

\* A slot is listed again when its user is done with it.
LEMMA RecycleSlots ==
    ASSUME Flow, Flow', Lists, SlotsOnce, NEW m \in results, HandleDone(m) \/ HandleFailed(m)
    PROVE  SlotsOnce'
<1>1. /\ m.kind \in {"done", "failed"} /\ Receive(m) /\ Recycle(m.r) /\ work' = work
  BY Zenon DEF HandleDone, HandleFailed
<1> USE <1>1
<1>2. m \in Msgs /\ m.r \in Requests /\ MsgOK(m) /\ results' \subseteq results /\ m.idx \in Instances("den")
  BY Received, Zenon DEF MsgOK, DoneOK
<1>3. Silent(m.r) /\ Concerns(m.r)
  BY HandlerSilent, HandlerConcerns, Zenon DEF HandleResult
<1>4. ASSUME NEW q \in Requests PROVE UsesLess(q) /\ (\A role, i, s : Uses(q, role, i, s)' => q # m.r)
  BY <1>3, OthersUse, SilentUsesLess, Zenon DEF Silent, Uses
<1>5. CASE prealloc' = prealloc
  BY <1>2, <1>3, <1>4, <1>5, SlotsKept, Zenon
<1>6. CASE prealloc' # prealloc
  <2>1. PICK i \in Instances("den"), s \in 1..PreallocSlots, k \in Nat :
          /\ i = p2p[m.r].receiver /\ s = p2p[m.r].slot /\ k = p2p[m.r].size
          /\ m.r \in DOMAIN p2p /\ s # None
    <3>1. m.r \in DOMAIN p2p /\ p2p[m.r].receiver = m.idx /\ p2p[m.r].slot # None /\ p2p[m.r] \in Transfer
      BY <1>2, <1>6, Zenon DEF MsgOK, DoneOK, Recycle, Flow, Tables
    <3> QED
      BY <1>2, <3>1, Zenon DEF Lists, Transfer
  <2>2. PICK c : c = [slot |-> s, size |-> k]
    BY Zenon
  <2>3. prealloc' = [prealloc EXCEPT !["den"][i] = Append(@, c)]
    BY <2>1, <2>2, Zenon DEF Recycle
  <2>4. c.slot = s /\ c.size = k
    BY <2>2, Zenon
  <2>a. Uses(m.r, "den", i, s)
    BY <1>2, <2>1, Zenon DEF Uses, Into
  <2>5. k <= PreallocSize /\ ~Listed("den", i, s) /\ \A q \in Requests : Uses(q, "den", i, s) => q = m.r
    BY <1>2, <2>1, <2>a DEF SlotsOnce, UsesSound, Receivers
  <2>6. PICK L \in Seq(Cells), n \in Nat : L = prealloc["den"][i] /\ n = Len(L)
    BY <2>1 DEF Lists, Receivers
  <2>7. /\ Len(Append(L, c)) = n + 1 /\ Append(L, c)[n + 1] = c
        /\ \A a \in 1..n : Append(L, c)[a] = L[a]
    BY <2>6
  <2>8. \A role \in Receivers : \A j \in Instances(role) :
           prealloc'[role][j] = IF role = "den" /\ j = i THEN Append(L, c) ELSE prealloc[role][j]
    BY <2>3, <2>6, Zenon DEF Lists, Receivers
  <2>9. ASSUME NEW role \in Receivers, NEW j \in Instances(role), NEW x, Listed(role, j, x)'
        PROVE  Listed(role, j, x) \/ (role = "den" /\ j = i /\ x = s)
    <3>1. PICK a \in 1..Len(prealloc'[role][j]) : prealloc'[role][j][a].slot = x
      BY <2>9, Zenon DEF Listed
    <3>2. CASE role = "den" /\ j = i
      <4>1. a \in 1..(n + 1) /\ Append(L, c)[a].slot = x
        BY <2>7, <2>8, <3>1, <3>2, Zenon
      <4>2. a = n + 1 \/ a \in 1..n
        BY <2>6, <4>1
      <4> QED
        BY <2>4, <2>6, <2>7, <3>2, <4>1, <4>2, Zenon DEF Listed
    <3>3. CASE ~(role = "den" /\ j = i)
      BY <2>8, <3>1, <3>3, Zenon DEF Listed
    <3> QED
      BY <3>2, <3>3, Zenon
  <2>10. ASSUME NEW role \in Receivers, NEW j \in Instances(role),
                NEW a \in 1..Len(prealloc'[role][j]), NEW b \in 1..Len(prealloc'[role][j])
         PROVE  /\ prealloc'[role][j][a].size <= PreallocSize
                /\ prealloc'[role][j][a].slot = prealloc'[role][j][b].slot => a = b
    <3>1. CASE role = "den" /\ j = i
      <4>1. \A x \in 1..n : L[x].size <= PreallocSize /\ L[x].slot # s
        BY <2>5, <2>6, <3>1, Zenon DEF SlotsOnce, ListsSound, Listed
      <4>2. \A x, y \in 1..n : L[x].slot = L[y].slot => x = y
        BY <2>6, <3>1 DEF SlotsOnce, ListsSound
      <4>3. prealloc'[role][j] = Append(L, c) /\ a \in 1..(n + 1) /\ b \in 1..(n + 1)
        BY <2>7, <2>8, <2>10, <3>1, Zenon
      <4>4. /\ (a = n + 1 /\ Append(L, c)[a] = c) \/ (a \in 1..n /\ Append(L, c)[a] = L[a])
            /\ (b = n + 1 /\ Append(L, c)[b] = c) \/ (b \in 1..n /\ Append(L, c)[b] = L[b])
        BY <2>6, <2>7, <4>3
      <4>5. prealloc'[role][j][a].size <= PreallocSize
        BY <2>5, <2>4, <4>1, <4>3, <4>4, Zenon
      <4>6. prealloc'[role][j][a].slot = prealloc'[role][j][b].slot => a = b
        BY <2>4, <4>1, <4>2, <4>3, <4>4, Zenon
      <4> QED
        BY <4>5, <4>6, Zenon
    <3>2. CASE ~(role = "den" /\ j = i)
      BY <2>8, <2>10, <3>2 DEF SlotsOnce, ListsSound
    <3> QED
      BY <3>1, <3>2, Zenon
  <2>11. ListsSound'
    BY <2>10, Zenon DEF ListsSound
  <2>12. UsesSound'
    BY <1>4, <2>5, <2>9 DEF SlotsOnce, UsesSound, UsesLess
  <2>13. RegistersSound'
    <3> SUFFICES ASSUME NEW g \in results, g.kind = "register"
                 PROVE  /\ g = Result("register", g.role, g.idx, NoRequest, 0)
                        /\ prealloc'[g.role][g.idx] = <<>>
                        /\ \A q \in Requests : \A x : ~Uses(q, g.role, g.idx, x)'
      BY <1>2, Zenon DEF RegistersSound
    <3>1. g.role \in Receivers /\ g.idx \in Instances(g.role)
      BY Zenon DEF Flow, Addressed, ResultKinds, Msgs
    <3>2. /\ g = Result("register", g.role, g.idx, NoRequest, 0)
          /\ prealloc[g.role][g.idx] = <<>> /\ \A q \in Requests : \A x : ~Uses(q, g.role, g.idx, x)
      BY Zenon DEF SlotsOnce, RegistersSound
    <3> QED
      BY <1>2, <1>4, <2>a, <2>8, <3>1, <3>2 DEF UsesLess
  <2> QED
    BY <2>11, <2>12, <2>13, Zenon DEF SlotsOnce
<1> QED
  BY <1>5, <1>6, Zenon

\* A message that asks for no transfer uses no slot.
LEMMA AloneNoUse ==
    ASSUME NEW r, NEW n, Alone(n, r), n.kind \in {"encode", "alloc"}
    PROVE  UsesLess(r)
BY Zenon DEF Alone, UsesLess, Uses, Into

\* The first slot of a list, once taken, is used by the request it is taken for.
LEMMA FastSlots ==
    ASSUME Flow, Flow', Lists, SlotsOnce, NEW role \in Receivers, NEW i \in Instances(role),
           NEW r \in Requests, NEW n, Concerns(r), Alone(n, r), FastSent(r, role, i, n), r \in DOMAIN p2p,
           results' = results
    PROVE  SlotsOnce'
<1>1. PICK L \in Seq(Cells) : L = prealloc[role][i] /\ L # <<>>
  BY Zenon DEF Lists, FastSent
<1>2. PICK k \in Nat : Len(L) = k + 1
  <2>1. PICK j \in Nat : j = Len(L) /\ j # 0
    BY <1>1
  <2> QED
    BY <2>1, j - 1 \in Nat
<1>3. /\ Head(L) = L[1] /\ Len(Tail(L)) = k /\ \A a \in 1..k : Tail(L)[a] = L[a + 1] /\ a + 1 \in 1..(k + 1)
      /\ 1 \in 1..(k + 1)
  BY <1>1, <1>2
<1>4. PICK s \in 1..PreallocSlots : s = L[1].slot /\ s # None /\ L[1].size \in Nat
  <2>1. L[1] \in Cells
    BY <1>1, <1>2, <1>3
  <2> QED
    BY <2>1, ConstantsAssumption DEF Cells, None
<1>5. \A a, b \in 1..(k + 1) : L[a].size <= PreallocSize /\ (L[a].slot = L[b].slot => a = b)
  BY <1>1, <1>2 DEF SlotsOnce, ListsSound
<1>6. /\ L[1].size >= p2p[r].size /\ p2p[r] \in Transfer /\ n.kind = "push"
      /\ prealloc' = [prealloc EXCEPT ![role][i] = Tail(@)] /\ n.place[1] = role
      /\ p2p'[r] = [p2p[r] EXCEPT !.receiver = i, !.slot = s]
  BY <1>1, <1>3, <1>4, WorkFields DEF FastSent, Flow, Tables, Place
<1>7. p2p'[r].receiver = i /\ p2p'[r].slot = s /\ p2p'[r].size <= PreallocSize
  <2>1. p2p'[r].receiver = i /\ p2p'[r].slot = s /\ p2p'[r].size = p2p[r].size /\ p2p[r].size \in Nat
    BY <1>6, Zenon DEF Transfer
  <2>2. L[1].size \in Nat /\ L[1].size <= PreallocSize
    BY <1>3, <1>4, <1>5, Zenon
  <2> QED
    BY <1>6, <2>1, <2>2, ConstantsAssumption
<1>8. \A a \in Receivers : \A j \in Instances(a) :
        prealloc'[a][j] = IF a = role /\ j = i THEN Tail(L) ELSE prealloc[a][j]
  BY <1>1, <1>6, Zenon DEF Lists
<1>9. Listed(role, i, s) /\ ~Listed(role, i, s)'
  <2>1. ASSUME NEW a \in 1..k PROVE Tail(L)[a].slot # s
    <3>1. L[a + 1].slot # L[1].slot
      BY <1>3, <1>5, a + 1 # 1, Zenon
    <3> QED
      BY <1>3, <1>4, <3>1, Zenon
  <2> QED
    BY <1>1, <1>2, <1>3, <1>4, <1>8, <2>1, Zenon DEF Listed
<1>10. \A a \in Receivers : \A j \in Instances(a) : \A x : Listed(a, j, x)' => Listed(a, j, x)
  <2> SUFFICES ASSUME NEW a \in Receivers, NEW j \in Instances(a), NEW x, Listed(a, j, x)'
               PROVE  Listed(a, j, x)
    BY Zenon
  <2>1. CASE a = role /\ j = i
    <3>1. PICK b \in 1..k : Tail(L)[b].slot = x
      BY <1>3, <1>8, <2>1, Zenon DEF Listed
    <3> QED
      BY <1>1, <1>2, <1>3, <2>1, <3>1, Zenon DEF Listed
  <2>2. CASE ~(a = role /\ j = i)
    BY <1>8, <2>2, Zenon DEF Listed
  <2> QED
    BY <2>1, <2>2, Zenon
<1>11. ListsSound'
  <2> SUFFICES ASSUME NEW x \in Receivers, NEW j \in Instances(x),
                      NEW a \in 1..Len(prealloc'[x][j]), NEW b \in 1..Len(prealloc'[x][j])
               PROVE  /\ prealloc'[x][j][a].size <= PreallocSize
                      /\ prealloc'[x][j][a].slot = prealloc'[x][j][b].slot => a = b
    BY Zenon DEF ListsSound
  <2>1. CASE x = role /\ j = i
    <3>1. a \in 1..k /\ b \in 1..k /\ prealloc'[x][j] = Tail(L)
      BY <1>3, <1>8, <2>1, Zenon
    <3>2. L[a + 1].size <= PreallocSize /\ (L[a + 1].slot = L[b + 1].slot => a + 1 = b + 1)
      BY <1>3, <1>5, <3>1, Zenon
    <3> QED
      BY <1>3, <3>1, <3>2
  <2>2. CASE ~(x = role /\ j = i)
    BY <1>8, <2>2 DEF SlotsOnce, ListsSound
  <2> QED
    BY <2>1, <2>2, Zenon
<1>12. ASSUME NEW q \in Requests, q # r PROVE UsesLess(q)
  BY <1>12, OthersUse, Zenon
<1>13. \A a \in Receivers : \A j, x : Uses(r, a, j, x)' => a = role /\ j = i /\ x = s
  BY <1>6, <1>7, Zenon DEF Uses, Alone, Into
<1>14. \A q \in Requests : ~Uses(q, role, i, s)
  BY <1>9, Zenon DEF SlotsOnce, UsesSound
<1>15. UsesSound'
  BY <1>7, <1>9, <1>10, <1>12, <1>13, <1>14 DEF SlotsOnce, UsesSound, UsesLess
<1>16. RegistersSound'
  <2> SUFFICES ASSUME NEW g \in results, g.kind = "register"
               PROVE  /\ g = Result("register", g.role, g.idx, NoRequest, 0)
                      /\ prealloc'[g.role][g.idx] = <<>>
                      /\ \A q \in Requests : \A x : ~Uses(q, g.role, g.idx, x)'
    BY Zenon DEF RegistersSound
  <2>1. g.role \in Receivers /\ g.idx \in Instances(g.role)
    BY Zenon DEF Flow, Addressed, ResultKinds, Msgs
  <2>2. /\ g = Result("register", g.role, g.idx, NoRequest, 0)
        /\ prealloc[g.role][g.idx] = <<>> /\ \A q \in Requests : \A x : ~Uses(q, g.role, g.idx, x)
    BY Zenon DEF SlotsOnce, RegistersSound
  <2>3. ~(g.role = role /\ g.idx = i)
    BY <1>1, <2>2, Zenon
  <2> QED
    BY <1>8, <1>12, <1>13, <2>1, <2>2, <2>3 DEF UsesLess
<1> QED
  BY <1>11, <1>15, <1>16, Zenon DEF SlotsOnce

\* A dispatch to a receiver takes a slot that nobody uses, or none.
LEMMA DispatchSlots ==
    ASSUME Flow, Flow', Slots, Lists, SlotsOnce, NEW role \in Receivers,
           Claim(role, Run[role]), DispatchTransfer(role, From[role])
    PROVE  SlotsOnce'
<1>1. role \in Roles /\ role # "enc"
  BY Zenon DEF Roles, Receivers
<1>2. PICK r \in Requests, i \in Instances(role) :
        r = Head(tta[role]) /\ i = Selected(role) /\ Queued(r, role) /\ QueueOK(r, role)
  BY <1>1, Claims, Zenon
<1>3. Concerns(r) /\ r \in DOMAIN p2p
  BY <1>1, <1>2, DispatchConcerns, Zenon DEF QueueOK
<1>4. PICK n : /\ work' = work \cup {n} /\ (FastSent(r, role, i, n) \/ SlowSent(r, role, i, n))
               /\ results' = results
  BY <1>2, Dispatched, Zenon
<1>5. Alone(n, r)
  <2>1. n.r = r
    BY <1>4, WorkFields DEF FastSent, SlowSent
  <2> QED
    BY <1>1, <1>2, <1>4, <2>1, DispatchAlone, Zenon
<1>6. CASE SlowSent(r, role, i, n)
  <2>1. n.kind = "alloc" /\ prealloc' = prealloc
    BY <1>6, WorkFields DEF SlowSent
  <2> QED
    BY <1>3, <1>5, <2>1, AloneNoUse, SlotsKept, Zenon
<1> QED
  BY <1>3, <1>4, <1>5, <1>6, FastSlots, Zenon

\* Every step keeps preallocated slots to one user.
LEMMA SlotsOnceNext == Flow /\ Flow' /\ Slots /\ Lists /\ SlotsOnce /\ [Next]_vars => SlotsOnce'
<1> SUFFICES ASSUME Flow, Flow', Slots, Lists, SlotsOnce, [Next]_vars PROVE SlotsOnce'
  BY Zenon
<1>1. ASSUME NEW m \in results, HandleResult(m) PROVE SlotsOnce'
  BY <1>1, HandlerSlots, RegisterSlots, RecycleSlots, Zenon DEF HandleResult
<1>2. CASE InstanceNext
  <2>1. PICK m \in work : Encode(m) \/ Allocate(m) \/ Push(m) \/ Denoise(m) \/ Decode(m)
    BY <1>2, Zenon DEF InstanceNext
  <2>2. prealloc' = prealloc /\ m.r \in Requests
    BY <2>1, InstanceConcerns, Zenon DEF server, Flow, Addressed
  <2> QED
    BY <2>1, <2>2, InstanceConcerns, InstanceUses, SlotsKept, Zenon
<1>3. CASE DispatchToDenoiser
  BY <1>3, DispatchSlots, Zenon DEF DispatchToDenoiser, Receivers, Run, From
<1>4. CASE DispatchToDecoder
  BY <1>4, DispatchSlots, Zenon DEF DispatchToDecoder, Receivers, Run, From
<1>5. CASE DispatchToEncoder
  <2>1. "enc" \in Roles /\ Claim("enc", Run["enc"])
    BY <1>5, Zenon DEF DispatchToEncoder, Roles, Run
  <2>2. PICK r \in Requests : r = Head(tta["enc"]) /\ Queued(r, "enc") /\ Concerns(r)
    BY <1>5, <2>1, Claims, DispatchConcerns
  <2>3. PICK n : n.r = r /\ n.kind = "encode" /\ work' = work \cup {n}
    BY <1>5, <2>2, WorkFields DEF DispatchToEncoder
  <2>4. results' = results /\ prealloc' = prealloc
    BY <1>5, Zenon DEF DispatchToEncoder
  <2> QED
    BY <2>1, <2>2, <2>3, <2>4, DispatchAlone, AloneNoUse, SlotsKept, Zenon
<1>6. ASSUME NEW r \in Requests, HandleTimeout(r) PROVE SlotsOnce'
  <2>1. p2p' = p2p /\ Msgs' = Msgs /\ DOMAIN rec' \subseteq DOMAIN rec /\ prealloc' = prealloc
    BY <1>6, Zenon DEF HandleTimeout, Answer, Forget, Msgs
  <2>2. UsesLess(r)
    BY <2>1, Zenon DEF UsesLess, Uses, Into, Tracked
  <2> QED
    BY <1>6, <2>1, <2>2, TimeoutConcerns, SlotsKept, Zenon
<1>7. ASSUME NEW r \in Requests, HandleClientRequest(r) PROVE SlotsOnce'
  <2>1. Msgs' = Msgs /\ prealloc' = prealloc /\ ~InLog(r)
    BY <1>7, Zenon DEF HandleClientRequest, Msgs
  <2>2. Silent(r)
    BY <2>1, Zenon DEF Silent, Flow, ReqOK, Token
  <2> QED
    BY <1>7, <2>1, <2>2, SubmitConcerns, SilentUsesLess, SlotsKept, Zenon
<1>8. CASE EndOfTurn \/ UNCHANGED vars
  <2>1. prealloc' = prealloc /\ p2p' = p2p /\ rec' = rec /\ work' = work /\ results' = results
    BY <1>8, Zenon DEF EndOfTurn, vars, server
  <2>2. \A r, role, i, s : Uses(r, role, i, s)' <=> Uses(r, role, i, s)
    BY <2>1 DEF Uses, Into, Msgs, Tracked
  <2>3. \A role, i, s : Listed(role, i, s)' <=> Listed(role, i, s)
    BY <2>1, Zenon DEF Listed
  <2>4. ListsSound'
    BY <2>1 DEF SlotsOnce, ListsSound
  <2>5. UsesSound'
    BY <2>1, <2>2, <2>3, Zenon DEF SlotsOnce, UsesSound
  <2>6. RegistersSound'
    BY <2>1, <2>2, Zenon DEF SlotsOnce, RegistersSound
  <2> QED
    BY <2>4, <2>5, <2>6, Zenon DEF SlotsOnce
<1> QED
  BY <1>1, <1>2, <1>3, <1>4, <1>5, <1>6, <1>7, <1>8, Zenon DEF Next, ServerNext, AllServed

\* No slot is used when the instances start.
LEMMA InitSlotsOnce == Init => SlotsOnce
<1> SUFFICES ASSUME Init PROVE SlotsOnce
  BY Zenon
<1>1. \A role \in Receivers : \A i \in Instances(role) : prealloc[role][i] = <<>>
  BY Zenon DEF Init
<1>2. \A r, role, i, s : ~Uses(r, role, i, s)
  BY DEF Init, Uses
<1>3. ListsSound /\ UsesSound
  BY <1>1, <1>2 DEF ListsSound, UsesSound
<1>4. ASSUME NEW g \in results
      PROVE  g = Result("register", g.role, g.idx, NoRequest, 0) /\ prealloc[g.role][g.idx] = <<>>
  <2>1. PICK role \in Receivers :
          g \in {Result("register", role, i, NoRequest, 0) : i \in Instances(role)}
    BY Zenon DEF Init
  <2>2. PICK i \in Instances(role) : g = Result("register", role, i, NoRequest, 0)
    BY <2>1, Zenon
  <2>3. g.role = role /\ g.idx = i
    BY <2>2, Zenon DEF Result
  <2> QED
    BY <1>1, <2>2, <2>3, Zenon
<1> QED
  BY <1>2, <1>3, <1>4, Zenon DEF SlotsOnce, RegistersSound

\* The target of a transfer into a preallocated slot is used by its request.
LEMMA TargetUsed ==
    ASSUME Flow, NEW m \in work, m.kind \in {"push", "ready"}, m.place[3] \in Nat
    PROVE  /\ m.r \in Requests /\ m.place[1] \in Receivers /\ m.place[2] \in Instances(m.place[1])
           /\ Uses(m.r, m.place[1], m.place[2], m.place[3])
<1>1. m \in Msgs /\ m.r \in Requests /\ MsgOK(m) /\ m.r \notin Nat /\ m.idx \in Instances(m.role)
  BY ConstantsAssumption DEF Flow, Addressed, Msgs, ReqOK
<1> USE <1>1
<1>2. PICK to \in Receivers :
        /\ m.place = Place(to, p2p[m.r].receiver, m.r, p2p[m.r].slot) /\ m.r \in DOMAIN p2p
        /\ p2p[m.r].receiver \in Instances(to) /\ (m.kind = "ready" => m.role = to)
  BY Zenon DEF MsgOK, PushOK, ReadyOK
<1>3. m.place[1] = to /\ m.place[2] = p2p[m.r].receiver /\ m.place[3] = p2p[m.r].slot /\ p2p[m.r].slot # None
  BY <1>2 DEF Place
<1>4. Into(m, to)
  BY <1>2, <1>3, Zenon DEF Into
<1> QED
  BY <1>2, <1>3, <1>4, Zenon DEF Uses

\* The inductive invariant gives the property.
LEMMA SlotsOnceSound == Flow /\ SlotsOnce => PreallocSlotsSound
<1> SUFFICES ASSUME Flow, SlotsOnce PROVE PreallocSlotsSound
  BY Zenon
<1> DEFINE Targeted == {m \in work : m.kind \in {"push", "ready"} /\ m.place[3] \in Nat}
<1>1. ASSUME NEW m \in Targeted
      PROVE  /\ p2p[m.r].size <= PreallocSize /\ ~Listed(m.place[1], m.place[2], m.place[3])
             /\ \A n \in Targeted : n.place = m.place => n = m
  <2>1. ASSUME NEW n \in Targeted, n.place = m.place PROVE n = m
    <3>1. n.r = m.r
      BY <2>1, TargetUsed DEF SlotsOnce, UsesSound
    <3> QED
      BY <3>1, TargetUsed, Zenon DEF Flow, ReqOK, OneToken, Msgs
  <2> QED
    BY <2>1, TargetUsed, Zenon DEF SlotsOnce, UsesSound
<1> QED
  BY <1>1, Zenon DEF PreallocSlotsSound, SlotsOnce, ListsSound, Listed

\* At no time do two transfers use one preallocated slot, is a slot used that the
\* orchestrator lists as free, or is a transfer larger than its slot: whatever
\* the number of instances and requests, with expiring requests and every fault.
THEOREM PreallocatedSlotsStaySound == Spec => []PreallocSlotsSound
<1> DEFINE Inv == Flow /\ Slots /\ Lists /\ SlotsOnce
<1>1. Init => Inv
  BY InitFlow, InitSlots, InitSlotsOnce, Zenon
<1>2. Inv /\ [Next]_vars => Inv'
  BY FlowNext, SlotsNext, ListsNext, SlotsOnceNext, Zenon
<1>3. Inv => PreallocSlotsSound
  BY SlotsOnceSound, Zenon
<1> QED
  BY <1>1, <1>2, <1>3, PTL DEF Spec

-----------------------------------------------------------------------------
(***************************************************************************)
(* The whole system: where pushes go, and the types.                       *)
(***************************************************************************)
\* The state of the whole system.
LEMMA FlowAlways == Spec => [](Flow /\ Slots /\ Lists)
<1>1. Flow /\ Slots /\ Lists /\ [Next]_vars => (Flow /\ Slots /\ Lists)'
  BY FlowNext, SlotsNext, ListsNext, Zenon
<1> QED
  BY <1>1, InitFlow, InitSlots, PTL DEF Spec

\* Without expiring requests, a push is always asked of the instance that holds
\* the staged tensors, so that _rdma_push_loop finds them.
THEOREM PushesFindTheirTensors ==
    ASSUME ~Timeouts
    PROVE  Spec => []PushGoesToStager
<1>1. ASSUME Flow PROVE PushGoesToStager
  <2> SUFFICES ASSUME NEW m \in work, m.kind = "push" PROVE <<m.role, m.idx, m.r>> \in staged
    BY Zenon DEF PushGoesToStager
  <2>1. m \in Msgs /\ m.r \in Requests
    BY <1>1, Zenon DEF Flow, Addressed, Msgs
  <2>2. ReqOK(m.r) /\ Tracked(m.r) /\ PushOK(m)
    BY <1>1, <2>1, Zenon DEF Flow, ReqOK, Token, MsgOK
  <2> QED
    BY <2>2, Zenon DEF PushOK, StagedFor
<1> QED
  BY <1>1, FlowAlways, PTL

\* Where the event loop is, and how far the requests are.
LoopTypes == stage \in 0..5 /\ running \in BOOLEAN /\ progress \in [Requests -> 0..3]

\* An instance brings its request one role further, or nothing.
LEMMA Computes ==
    ASSUME NEW m \in work, Encode(m) \/ Allocate(m) \/ Push(m) \/ Denoise(m) \/ Decode(m)
    PROVE  \/ progress' = progress
           \/ \E k \in 0..2 : progress[m.r] = k /\ progress' = [progress EXCEPT ![m.r] = k + 1]
<1>1. \/ progress' = progress \/ Computed(m.r, TRUE, 0)
      \/ Computed(m.r, OwnData(m), 1) \/ Computed(m.r, OwnData(m), 2)
  BY Zenon DEF Encode, Allocate, Push, Denoise, Decode
<1> QED
  BY <1>1 DEF Computed

\* Every step keeps these types.
LEMMA LoopTypesNext == Flow /\ LoopTypes /\ [Next]_vars => LoopTypes'
<1> SUFFICES ASSUME Flow, LoopTypes, [Next]_vars PROVE LoopTypes'
  BY Zenon
<1>1. CASE InstanceNext
  <2>1. PICK m \in work : Encode(m) \/ Allocate(m) \/ Push(m) \/ Denoise(m) \/ Decode(m)
    BY <1>1, Zenon DEF InstanceNext
  <2>2. stage' = stage /\ running' = running
    BY <2>1, InstanceConcerns, Zenon DEF server
  <2>3. PICK k \in 1..3 : progress' = progress \/ progress' = [progress EXCEPT ![m.r] = k]
    BY <2>1, Computes
  <2>4. progress' \in [Requests -> 0..3]
    BY <2>3 DEF LoopTypes
  <2> QED
    BY <2>2, <2>4, Zenon DEF LoopTypes
<1>2. ASSUME NEW m \in results, HandleResult(m) PROVE LoopTypes'
  <2>1. m.role \in Roles /\ progress' = progress
    BY <1>2, HandlerConcerns, Zenon DEF Flow, Addressed, Msgs
  <2>2. Receive(m) /\ (running' = running \/ running' \in BOOLEAN)
    BY <1>2, Zenon DEF HandleResult, HandleRegister, HandleRoleError, HandleStaged,
           HandleAllocated, HandlePushed,
                HandleDone, HandleFailed, HandleOutput
  <2>3. stage' \in 0..5
    BY <2>1, <2>2 DEF Receive, Turn, Socket, Roles
  <2> QED
    BY <2>1, <2>2, <2>3, Zenon DEF LoopTypes
<1>3. CASE UNCHANGED vars \/ EndOfTurn
  BY <1>3 DEF vars, server, instances, LoopTypes, EndOfTurn
<1>4. ASSUME NEW r \in Requests, HandleTimeout(r) \/ HandleClientRequest(r) PROVE LoopTypes'
  BY <1>4 DEF HandleTimeout, HandleClientRequest, Turn, instances, LoopTypes
<1>5. CASE DispatchToEncoder \/ DispatchToDenoiser \/ DispatchToDecoder
  <2>1. stage' = 5 /\ running' = running /\ progress' = progress
    BY <1>5, Zenon DEF DispatchToEncoder, DispatchToDenoiser, DispatchToDecoder, Claim,
           DispatchTransfer, instances
  <2> QED
    BY <2>1 DEF LoopTypes
<1> QED
  BY <1>1, <1>2, <1>3, <1>4, <1>5, Zenon DEF Next, ServerNext, AllServed

\* Every variable of the orchestrator, the network and the instances keeps its
\* type: free slots stay integers of existing instances, a message in flight is
\* always to or from an instance that exists.
THEOREM ServerTypes == Spec => []TypeOK
<1> DEFINE Inv == Flow /\ Slots /\ Lists /\ LoopTypes /\ Clients
<1>1. Init => Clients /\ LoopTypes
  BY DEF Init, Clients, ClientsAccounted, InLog, LoopTypes
<1>2. Init => Inv
  BY <1>1, InitFlow, InitSlots, Zenon
<1>3. Inv /\ [Next]_vars => Inv'
  BY FlowNext, SlotsNext, ListsNext, LoopTypesNext, ClientsNext, Zenon
<1>4. Inv => TypeOK
  <2> SUFFICES ASSUME Inv PROVE TypeOK
    BY Zenon
  <2>1. /\ pending \subseteq Requests /\ replies \in [Requests -> {"none", "ok", "error"}]
        /\ \A m \in work \cup results : m.kind \in Kinds /\ m.r \in Requests \cup {NoRequest}
    BY Zenon DEF Clients, Flow, Tables, Addressed, Kinds, WorkKinds, ResultKinds
  <2> QED
    BY <2>1, Zenon DEF TypeOK, LoopTypes, Flow, Tables, Addressed, Msgs, Slots
<1> QED
  BY <1>2, <1>3, <1>4, PTL DEF Spec
=============================================================================
