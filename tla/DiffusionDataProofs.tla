------------------------ MODULE DiffusionDataProofs ------------------------
(***************************************************************************)
(* What the roles compute on.  Data says, for every request, how many roles*)
(* have computed it, given where it is, and that the tensors an instance is*)
(* told to load are in the place it is told.  From it follow that every role*)
(* computes on the tensors of the request it is asked for, and that the    *)
(* server implements Pipeline: a result that a client gets has been through*)
(* all three roles, in order.                                              *)
(***************************************************************************)
EXTENDS DiffusionServerProofs

\* How many roles have computed a request that is given to a role.
Before == [enc |-> 0, den |-> 1, dec |-> 2]

\* How many have when m is in flight: p.
Stepped(m, p) ==
    /\ m.kind = "encode" => p = 0
    /\ m.kind = "staged" => p = 1
    /\ m.kind \in {"alloc", "allocated", "ready"} => p = Before[m.role]
    /\ m.kind = "push" => p = Before[m.place[1]]
    /\ m.kind = "pushed" /\ Tracked(m.r) => p = Before[To[m.role]]
    /\ m.kind = "done" => p = 2
    /\ m.kind = "output" => p = 3

\* m says that the tensors of its request have landed, and where.
Landing(m) == m.kind = "ready" \/ (m.kind = "pushed" /\ Tracked(m.r))
Target(m)  == Place(IF m.kind = "ready" THEN m.role ELSE To[m.role], p2p[m.r].receiver, m.r, p2p[m.r].slot)
Holds(m)   == Landing(m) => Target(m) \in DOMAIN mem /\ mem[Target(m)] = m.r

\* What has been computed of a request, and where it is.
DataOf(r) ==
    /\ \A m \in Msgs : m.r = r => Stepped(m, progress[r]) /\ Holds(m)
    /\ \A role \in Roles : Queued(r, role) => progress[r] = Before[role]
    /\ ~InLog(r) => progress[r] = 0

\* Slots allocated on demand are named for their requests.
Data == (\A r \in Requests : DataOf(r)) /\ \A p \in receives : p[3] \in Requests

\* The places of two requests differ.
LEMMA Apart ==
    ASSUME Flow, SlotsOnce, NEW m \in Msgs, NEW n \in Msgs, n.r \in Requests, m.r \in Requests, m.r # n.r,
           Landing(n), NEW a \in Receivers, Into(m, a), m.r \in DOMAIN p2p,
           p2p[m.r].receiver \in Instances(a)
    PROVE  Place(a, p2p[m.r].receiver, m.r, p2p[m.r].slot) # Target(n)
<1>1. PICK b \in Receivers : /\ Into(n, b) /\ n.r \in DOMAIN p2p
                             /\ Target(n) = Place(b, p2p[n.r].receiver, n.r, p2p[n.r].slot)
  <2>1. MsgOK(n) /\ n.role \in Roles
    BY Zenon DEF Flow, ReqOK, Addressed
  <2> QED
    BY <2>1 DEF MsgOK, ReadyOK, PushedOK, Landing, Into, Target, Roles, Receivers, To
<1>2. p2p[m.r].slot \in Int /\ p2p[n.r].slot \in Int /\ m.r \notin Int /\ n.r \notin Int
  BY <1>1, ConstantsAssumption, Zenon DEF Flow, Tables, Transfer
<1>3. ASSUME a = b, p2p[m.r].receiver = p2p[n.r].receiver, p2p[m.r].slot # None,
             p2p[m.r].slot = p2p[n.r].slot
      PROVE  FALSE
  <2>1. /\ Uses(m.r, a, p2p[m.r].receiver, p2p[m.r].slot)
        /\ Uses(n.r, a, p2p[m.r].receiver, p2p[m.r].slot)
    BY <1>1, <1>3, Zenon DEF Uses
  <2> QED
    BY <2>1, Zenon DEF SlotsOnce, UsesSound
<1> QED
  BY <1>1, <1>2, <1>3 DEF Place

\* A step that keeps the tensors of another request keeps what is known of it.
LEMMA OthersData ==
    ASSUME Flow, Data, NEW r, Concerns(r), NEW q \in Requests \ {r}, progress'[q] = progress[q],
           ASSUME NEW m \in Msgs, m.r = q, Landing(m), Target(m) \in DOMAIN mem
           PROVE  Target(m) \in DOMAIN mem' /\ mem'[Target(m)] = mem[Target(m)]
    PROVE  DataOf(q)'
<1>1. Same(q) /\ DataOf(q) /\ SameTables(q) /\ (Tracked(q)' <=> Tracked(q))
  BY Zenon DEF Data, Concerns, Same, SameTables, Tracked
<1> USE <1>1
<1>2. ASSUME NEW m \in Msgs', m.r = q PROVE Stepped(m, progress[q])' /\ Holds(m)'
  <2>1. m \in Msgs /\ Stepped(m, progress[q]) /\ Holds(m)
    BY <1>2, Zenon DEF Same, DataOf
  <2>2. Stepped(m, progress[q])' /\ (Landing(m)' <=> Landing(m))
    BY <1>2, <2>1, Zenon DEF Stepped, Landing
  <2>3. ASSUME Landing(m) PROVE Target(m)' = Target(m)
    <3>1. q \in DOMAIN p2p
      BY <1>2, <2>1, <2>3, ZenonT(30) DEF Flow, ReqOK, MsgOK, ReadyOK, PushedOK, Landing
    <3> QED
      BY <1>2, <3>1, Zenon DEF Target, SameTables
  <2> QED
    BY <1>2, <2>1, <2>2, <2>3, Zenon DEF Holds
<1> QED
  BY <1>2, Zenon DEF DataOf, Same

\* A request that one message stands for.
LEMMA MessageData ==
    ASSUME Flow', NEW r \in Requests, NEW n, Alone(n, r), Stepped(n, progress[r])', Holds(n)'
    PROVE  DataOf(r)'
BY Zenon DEF Flow, ReqOK, OneToken, Token, Alone, DataOf

\* A request that no message stands for.
LEMMA QueueData ==
    ASSUME NEW r, Silent(r), InLog(r)',
           \A role \in Roles : Queued(r, role)' => progress'[r] = Before[role]
    PROVE  DataOf(r)'
BY Zenon DEF Silent, DataOf

\* The orchestrator computes nothing, and moves no tensors.
LEMMA ServerData ==
    ASSUME Flow, Data, NEW r, Concerns(r), UNCHANGED <<progress, mem, receives>>,
           r \in Requests => DataOf(r)'
    PROVE  Data'
<1>1. ASSUME NEW q \in Requests \ {r} PROVE DataOf(q)'
  BY <1>1, OthersData, Zenon
<1> QED
  BY <1>1, Zenon DEF Data

\* A handler that sends nothing on and queues nothing.
LEMMA DroppedData ==
    ASSUME Flow, NEW m \in results, Receive(m), work' = work, tta' = tta, log' = log, m.kind # "register"
    PROVE  DataOf(m.r)'
<1>1. m \in Msgs /\ ReqOK(m.r)
  BY Received, Zenon
<1>2. \A role \in Roles : ~Queued(m.r, role)'
  BY <1>1, Zenon DEF ReqOK, OneToken, Queued
<1>3. InLog(m.r)'
  BY <1>1, Zenon DEF ReqOK, Token, InLog
<1> QED
  BY <1>2, <1>3, HandlerSilent, QueueData, Zenon

\* A request that is put in the queue of a role when its turn has come.
LEMMA QueuedData ==
    ASSUME Flow', NEW r \in Requests, Silent(r), NEW role \in Roles, Queued(r, role)', progress'[r] = Before[role]
    PROVE  DataOf(r)'
<1>1. InLog(r)' /\ \A a \in Roles : Queued(r, a)' => a = role
  BY Zenon DEF Flow, ReqOK, OneToken, Token
<1> QED
  BY <1>1, QueueData, Zenon

\* What the orchestrator does with a result.
LEMMA HandlerData ==
    ASSUME Flow, Flow', Data, NEW m \in results, HandleResult(m)
    PROVE  Data'
<1>1. Concerns(m.r) /\ UNCHANGED <<progress, mem, receives>> /\ log' = log
  BY HandlerConcerns, Zenon
<1> SUFFICES ASSUME m.r \in Requests PROVE DataOf(m.r)'
  BY <1>1, ServerData, Zenon
<1>2. m.kind # "register"
  BY ConstantsAssumption, Zenon DEF Flow, Addressed, ResultKinds
<1>3. ~HandleRegister(m) /\ Receive(m)
  BY <1>2, Zenon DEF HandleResult, HandleRegister, HandleRoleError, HandleStaged,
         HandleAllocated, HandlePushed,
              HandleDone, HandleFailed, HandleOutput
<1>4. m \in Msgs /\ MsgOK(m) /\ DataOf(m.r) /\ m.role \in Roles /\ m.idx \in Instances(m.role)
  BY <1>2, <1>3, Received, ZenonT(30) DEF Data
<1> USE <1>1, <1>2, <1>3, <1>4
<1>5. CASE HandleRoleError(m) \/ HandleFailed(m) \/ HandleOutput(m)
  <2>1. work' = work /\ tta' = tta
    BY <1>5, Zenon DEF HandleRoleError, HandleFailed, HandleOutput
  <2> QED
    BY <2>1, DroppedData, Zenon
<1>6. ASSUME NEW role \in Roles, work' = work, tta' = [tta EXCEPT ![role] = Append(@, m.r)],
             progress[m.r] = Before[role]
      PROVE  DataOf(m.r)'
  <2>1. Queued(m.r, role)'
    BY <1>6, Enqueues, Zenon DEF Flow
  <2> QED
    BY <1>6, <2>1, HandlerSilent, QueuedData, Zenon
<1>7. CASE HandleStaged(m)
  BY <1>6, <1>7, Zenon DEF HandleStaged, DataOf, Stepped, Roles, Before
<1>8. CASE HandleDone(m)
  BY <1>6, <1>8, Zenon DEF HandleDone, DataOf, Stepped, Roles, Before, MsgOK, DoneOK
<1>9. ASSUME NEW n, n.r = m.r, work' = work \cup {n}, Stepped(n, progress[m.r])', Holds(n)'
      PROVE  DataOf(m.r)'
  BY <1>9, HandlerAlone, MessageData, Zenon
<1>10. CASE HandleAllocated(m)
  <2>1. CASE work' = work
    BY <1>10, <2>1, DroppedData, Zenon DEF HandleAllocated
  <2>2. CASE work' # work
    <3>1. PICK n : /\ work' = work \cup {n}
                   /\ n = Work("push", SenderRole(m.r), p2p[m.r].sender, m.r, Place(m.role, m.idx, m.r, None))
      BY <1>10, <2>2, Zenon DEF HandleAllocated
    <3>2. n.kind = "push" /\ n.r = m.r /\ n.place[1] = m.role
      BY <3>1, WorkFields DEF Place
    <3>3. progress[m.r] = Before[m.role]
      BY <1>10, Zenon DEF HandleAllocated, DataOf, Stepped
    <3> QED
      BY <1>9, <3>1, <3>2, <3>3, Zenon DEF Stepped, Holds, Landing
  <2> QED
    BY <2>1, <2>2, Zenon
<1>11. CASE HandlePushed(m)
  <2>1. CASE work' = work
    BY <1>11, <2>1, DroppedData, Zenon DEF HandlePushed
  <2>2. CASE work' # work
    <3>1. Tracked(m.r) /\ p2p' = p2p /\ m.kind = "pushed"
      BY <1>11, <2>2, Zenon DEF HandlePushed, StateIn, Tracked
    <3>2. rec[m.r].state = Run[To[m.role]] /\ m.role # "dec" /\ m.r \in DOMAIN p2p
      BY <3>1, Zenon DEF MsgOK, PushedOK, On
    <3>3. PICK n : /\ work' = work \cup {n}
                   /\ n = Work("ready", To[m.role], p2p[m.r].receiver, m.r,
                               Place(To[m.role], p2p[m.r].receiver, m.r, p2p[m.r].slot))
      BY <1>11, <3>1, <3>2 DEF HandlePushed, StateIn, Tracked, Denoising, Decoding, Run, To,
             Roles
    <3>4. n.kind = "ready" /\ n.r = m.r /\ n.role = To[m.role]
      BY <3>3, WorkFields
    <3>5. Stepped(m, progress[m.r]) /\ Holds(m)
      BY Zenon DEF DataOf
    <3>6. Stepped(n, progress[m.r])'
      BY <3>1, <3>4, <3>5, Zenon DEF Stepped
    <3>7. Holds(n)'
      BY <3>1, <3>4, <3>5, Zenon DEF Holds, Landing, Target
    <3> QED
      BY <1>9, <3>3, <3>4, <3>6, <3>7, Zenon
  <2> QED
    BY <2>1, <2>2, Zenon
<1> QED
  BY <1>5, <1>7, <1>8, <1>10, <1>11, Zenon DEF HandleResult

\* A push, and a load, leave the tensors of other requests where they are.
LEMMA TensorsKept ==
    ASSUME Flow, SlotsOnce, Data, NEW m \in work,
           Encode(m) \/ Allocate(m) \/ Push(m) \/ Denoise(m) \/ Decode(m),
           NEW n \in Msgs, n.r \in Requests, n.r # m.r, Landing(n), Target(n) \in DOMAIN mem
    PROVE  Target(n) \in DOMAIN mem' /\ mem'[Target(n)] = mem[Target(n)]
<1>1. m \in Msgs /\ m.r \in Requests /\ MsgOK(m) /\ m.role \in Roles
  BY Zenon DEF Msgs, Flow, Addressed, ReqOK
<1>2. CASE m.kind = "push"
  <2>1. PICK to \in Receivers :
          /\ m.place = Place(to, p2p[m.r].receiver, m.r, p2p[m.r].slot) /\ m.r \in DOMAIN p2p
          /\ p2p[m.r].receiver \in Instances(to)
    BY <1>1, <1>2, Zenon DEF MsgOK, PushOK
  <2>2. Into(m, to)
    BY <1>2, <2>1 DEF Into, Place
  <2>3. m.place # Target(n)
    BY <1>1, <2>1, <2>2, Apart, ZenonT(30)
  <2>4. mem' = mem \/ mem' = Put(mem, m.place, m.r)
    BY <1>2, Zenon DEF Encode, Allocate, Push, Denoise, Decode, Load, PushToPeer
  <2> QED
    BY <2>3, <2>4, Zenon DEF Put
<1>3. CASE m.kind = "ready"
  <2>1. /\ m.place = Place(m.role, p2p[m.r].receiver, m.r, p2p[m.r].slot) /\ m.r \in DOMAIN p2p
        /\ m.role \in Receivers /\ p2p[m.r].receiver \in Instances(m.role) /\ Into(m, m.role)
    BY <1>1, <1>3, Zenon DEF MsgOK, ReadyOK, Into, Flow, Addressed
  <2>2. m.place # Target(n)
    BY <1>1, <2>1, Apart, Zenon
  <2>3. mem' = mem \/ mem' = Forget(mem, m.place)
    BY <1>3, Zenon DEF Encode, Allocate, Push, PushRequested, Denoise, Decode, Load,
           FreeReceiveSlot
  <2> QED
    BY <2>2, <2>3, Zenon DEF Forget
<1>4. CASE m.kind \notin {"push", "ready"}
  BY <1>4, Zenon DEF Encode, Allocate, Push, PushRequested, Denoise, Decode, Load
<1> QED
  BY <1>2, <1>3, <1>4, Zenon

\* A role computes on the tensors of its request, so that the request is one
\* role further.
LEMMA InstanceData ==
    ASSUME Flow, Flow', SlotsOnce, Data, LoopTypes, "push" \notin Faults, NEW m \in work,
           Encode(m) \/ Allocate(m) \/ Push(m) \/ Denoise(m) \/ Decode(m)
    PROVE  Data'
<1>1. /\ m \in Msgs /\ m.r \in Requests /\ MsgOK(m) /\ DataOf(m.r) /\ progress[m.r] \in 0..3
      /\ Stepped(m, progress[m.r]) /\ Holds(m)
  BY Zenon DEF Msgs, Flow, Addressed, ReqOK, Data, DataOf, LoopTypes
<1>2. Concerns(m.r) /\ rec' = rec /\ p2p' = p2p /\ tta' = tta /\ log' = log
  BY InstanceConcerns, Zenon DEF server
<1> USE <1>1, <1>2
<1>3. m.kind = "ready" => OwnData(m)
  BY Zenon DEF MsgOK, ReadyOK, Holds, Landing, Target, OwnData
<1>4. ASSUME NEW q \in Requests \ {m.r} PROVE DataOf(q)'
  <2>1. progress'[q] = progress[q]
    BY <1>4, Computes, Zenon DEF LoopTypes
  <2> QED
    BY <1>4, <2>1, TensorsKept, OthersData, Zenon
<1>5. \A p \in receives' : p[3] \in Requests
  <2>1. receives' \subseteq receives \cup {<<m.role, m.idx, m.r>>}
    BY Zenon DEF Encode, Allocate, Push, Denoise, Decode, Load, AllocateReceiveSlot,
           FreeReceiveSlot
  <2> QED
    BY <2>1 DEF Data
<1>6. ASSUME NEW n, Alone(n, m.r), n.role = m.role, n.idx = m.idx, Follows(m, n), results' = results \cup {n}
      PROVE  Stepped(n, progress[m.r])' /\ Holds(n)'
  <2>1. n.r = m.r /\ \A kind, role, i, k : Result(kind, role, i, m.r, k) \in results' => n.kind = kind
    BY <1>6 DEF Alone, Msgs, Result
  <2> USE <1>6, <2>1
  <2>2. CASE Encode(m)
    <3>1. n.kind = "staged" => progress' = [progress EXCEPT ![m.r] = 1]
      BY <2>2 DEF Encode, Stepped, Computed
    <3> QED
      BY <2>2, <3>1, Zenon DEF Encode, Follows, Stepped, Holds, Landing, LoopTypes
  <2>3. CASE Allocate(m)
    BY <2>3, Zenon DEF Allocate, Follows, Stepped, Holds, Landing
  <2>4. CASE Push(m)
    <3>1. m.kind = "push" /\ n.kind = "pushed" /\ progress' = progress
      BY <2>4, Zenon DEF Push, PushRequested, Follows
    <3>2. ASSUME Tracked(m.r)
          PROVE  /\ m.place = Place(To[m.role], p2p[m.r].receiver, m.r, p2p[m.r].slot)
                 /\ <<m.role, m.idx, m.r>> \in staged
      BY <3>1, <3>2 DEF MsgOK, PushOK, StagedFor, From, To, Receivers
    <3>3. ASSUME Tracked(m.r) PROVE mem' = Put(mem, m.place, m.r)
      BY <2>4, <3>2, <3>3, Zenon DEF Push, PushToPeer, MayFail
    <3>4. ASSUME Tracked(m.r) PROVE progress[m.r] = Before[To[m.role]]
      BY <3>1, <3>2, <3>4 DEF Stepped, Place
    <3>5. Stepped(n, progress[m.r])'
      BY <3>1, <3>4, Zenon DEF Stepped, Tracked
    <3> QED
      BY <3>1, <3>2, <3>3, <3>5, Zenon DEF Holds, Landing, Target, Put, Tracked
  <2>5. CASE Denoise(m)
    <3>1. n.kind = "done" => progress' = [progress EXCEPT ![m.r] = 2]
      BY <1>3, <2>5 DEF Denoise, Load, Stepped, Computed, Before
    <3> QED
      BY <2>5, <3>1, Zenon DEF Denoise, Load, Follows, Stepped, Holds, Landing, LoopTypes
  <2>6. CASE Decode(m)
    <3>1. n.kind = "output" => progress' = [progress EXCEPT ![m.r] = 3]
      BY <1>3, <2>6 DEF Decode, Load, Stepped, Computed, Before
    <3> QED
      BY <2>6, <3>1, Zenon DEF Decode, Load, Follows, Stepped, Holds, Landing, LoopTypes
  <2> QED
    BY <2>2, <2>3, <2>4, <2>5, <2>6, Zenon
<1>7. ASSUME Silent(m.r), m.kind = "alloc" PROVE DataOf(m.r)'
  <2>1. \A role \in Roles : ~Queued(m.r, role)'
    BY <1>2, Zenon DEF Flow, ReqOK, OneToken, Queued
  <2>2. InLog(m.r)'
    BY <1>2, Zenon DEF Flow, ReqOK, Token, InLog
  <2> QED
    BY <1>7, <2>1, <2>2, QueueData, Zenon
<1>8. DataOf(m.r)'
  BY <1>6, <1>7, InstanceAnswers, MessageData, ZenonT(30)
<1> QED
  BY <1>4, <1>5, <1>8, Zenon DEF Data

\* What a request that expires leaves behind goes on being computed.
LEMMA TimeoutData ==
    ASSUME Flow, Flow', Data, NEW r \in Requests, HandleTimeout(r)
    PROVE  Data'
<1>1. /\ Concerns(r) /\ UNCHANGED <<progress, mem, receives, p2p, work, results, log>>
      /\ DOMAIN rec' \subseteq DOMAIN rec /\ tta' = [q \in Roles |-> Without(tta[q], r)]
  BY TimeoutConcerns, Zenon DEF HandleTimeout, Answer, Forget, instances
<1> USE <1>1
<1>2. ASSUME NEW role \in Roles, Queued(r, role)' PROVE Queued(r, role)
  <2>1. tta[role] \in Seq(Requests) /\ IsInjective(tta[role]) /\ tta'[role] = Without(tta[role], r)
    BY Zenon DEF Flow, Tables
  <2> QED
    BY <1>2, <2>1, WithoutIs DEF Queued
<1>3. ASSUME NEW m \in Msgs', m.r = r PROVE Stepped(m, progress[r])' /\ Holds(m)'
  <2>1. m \in Msgs /\ Stepped(m, progress[r]) /\ Holds(m) /\ (Tracked(r)' => Tracked(r)) /\ Target(m)' = Target(m)
    BY <1>3, Zenon DEF Data, DataOf, Msgs, Tracked, Target
  <2> QED
    BY <1>3, <2>1, Zenon DEF Stepped, Holds, Landing
<1> QED
  BY <1>2, <1>3, ServerData, Zenon DEF Data, DataOf, InLog

\* Nothing has been computed of a request that is submitted.
LEMMA SubmitData ==
    ASSUME Flow, Flow', Data, NEW r \in Requests, HandleClientRequest(r)
    PROVE  Data'
<1>1. /\ Concerns(r) /\ UNCHANGED <<progress, mem, receives>> /\ ~InLog(r) /\ Msgs' = Msgs
      /\ tta' = [tta EXCEPT !["enc"] = Append(@, r)] /\ "enc" \in Roles
  BY SubmitConcerns, Zenon DEF HandleClientRequest, instances, Msgs, Roles
<1>2. Silent(r) /\ progress[r] = 0
  BY <1>1, Zenon DEF Silent, Flow, ReqOK, Token, Data, DataOf
<1>3. Queued(r, "enc")'
  BY <1>1, Enqueues, Zenon DEF Flow
<1> QED
  BY <1>1, <1>2, <1>3, QueuedData, ServerData, Zenon DEF Before

\* A request is given to the role whose turn has come.
LEMMA DispatchData ==
    ASSUME Flow, Flow', Slots, Data, NEW role \in Roles, Claim(role, Run[role]),
           IF role = "enc" THEN DispatchToEncoder ELSE DispatchTransfer(role, From[role])
    PROVE  Data'
<1>1. PICK r \in Requests : r = Head(tta[role]) /\ Concerns(r) /\ Queued(r, role)
  BY Claims, DispatchConcerns, ZenonT(30)
<1>2. UNCHANGED <<progress, mem, receives, results>> /\ progress[r] = Before[role]
  BY <1>1, Zenon DEF DispatchToEncoder, DispatchTransfer, instances, Data, DataOf
<1>3. PICK n : /\ work' = work \cup {n} /\ n.r = r
               /\ \/ n.kind = "encode" /\ role = "enc"
                  \/ n.kind = "alloc" /\ n.role = role
                  \/ n.kind = "push" /\ n.place[1] = role
  <2>1. CASE role = "enc"
    BY <1>1, <2>1, WorkFields DEF DispatchToEncoder
  <2>2. CASE role # "enc"
    <3>1. PICK n : /\ work' = work \cup {n}
                   /\ FastSent(r, role, Selected(role), n) \/ SlowSent(r, role, Selected(role), n)
      BY <1>1, <2>2, Dispatched, Zenon DEF Roles, Receivers
    <3>2. CASE FastSent(r, role, Selected(role), n)
      BY <3>1, <3>2, WorkFields DEF FastSent, Place
    <3>3. CASE SlowSent(r, role, Selected(role), n)
      BY <3>1, <3>3, WorkFields DEF SlowSent
    <3> QED
      BY <3>1, <3>2, <3>3, Zenon
  <2> QED
    BY <2>1, <2>2, Zenon
<1>4. Alone(n, r)
  BY <1>1, <1>2, <1>3, DispatchAlone, Zenon
<1>5. Stepped(n, progress[r])' /\ Holds(n)'
  BY <1>2, <1>3 DEF Stepped, Holds, Landing, Before
<1> QED
  BY <1>1, <1>2, <1>4, <1>5, MessageData, ServerData, Zenon

\* Every step keeps what is known of the tensors.
LEMMA DataNext ==
    ASSUME "push" \notin Faults, Flow, Flow', Slots, SlotsOnce, LoopTypes, Data, [Next]_vars
    PROVE  Data'
<1>1. CASE InstanceNext
  BY <1>1, InstanceData, Zenon DEF InstanceNext
<1>2. CASE DispatchToEncoder \/ DispatchToDenoiser \/ DispatchToDecoder
  BY <1>2, DispatchData, Zenon DEF DispatchToEncoder, DispatchToDenoiser, DispatchToDecoder,
         Roles, Run, From
<1>3. CASE UNCHANGED vars \/ EndOfTurn
  <2>1. UNCHANGED <<progress, mem, receives, p2p, work, results, log, tta, rec>>
    BY <1>3, Zenon DEF vars, server, instances, EndOfTurn
  <2>2. ASSUME NEW r \in Requests PROVE DataOf(r)'
    BY <2>1 DEF Data, DataOf, Stepped, Holds, Landing, Target, Tracked, Msgs, Queued, InLog
  <2> QED
    BY <2>1, <2>2, Zenon DEF Data
<1> QED
  BY <1>1, <1>2, <1>3, HandlerData, TimeoutData, SubmitData, Zenon
     DEF Next, ServerNext, AllServed

\* What holds of the tensors in every state, when no push fails.
Transfers == Flow /\ Slots /\ Lists /\ SlotsOnce /\ LoopTypes /\ Clients /\ Data

\* Nothing has been computed at the start.
LEMMA InitTransfers == Init => Transfers
<1> SUFFICES ASSUME Init PROVE Transfers
  BY Zenon
<1>1. Clients /\ LoopTypes
  BY DEF Init, Clients, ClientsAccounted, InLog, LoopTypes
<1>2. /\ \A m \in Msgs : m.r \notin Requests
      /\ \A r, role : ~(role \in Roles /\ Queued(r, role))
  <2>1. ASSUME NEW m \in results PROVE m.r = NoRequest
    <3>1. PICK role \in Receivers :
            m \in {Result("register", role, i, NoRequest, 0) : i \in Instances(role)}
      BY Zenon DEF Init
    <3> QED
      BY <3>1 DEF Result
  <2> QED
    BY <2>1, ConstantsAssumption DEF Init, Msgs, Queued, Range
<1>3. Data
  BY <1>2, Zenon DEF Init, Data, DataOf
<1> QED
  BY <1>1, <1>3, InitFlow, InitSlots, InitSlotsOnce, Zenon DEF Transfers

\* Every step keeps it all.
LEMMA TransfersNext ==
    ASSUME "push" \notin Faults
    PROVE  Transfers /\ [Next]_vars => Transfers'
BY FlowNext, SlotsNext, ListsNext, SlotsOnceNext, LoopTypesNext, ClientsNext, DataNext,
   Zenon DEF Transfers

\* A role that is told to load from a slot finds the tensors of that request
\* there, unless a push failed: no transfer has been written over them, whether
\* the slot is preallocated or not, and whichever requests have expired.
THEOREM TensorsHaveLanded ==
    ASSUME "push" \notin Faults
    PROVE  Spec => []ReadyDataLanded
<1>1. ASSUME Transfers PROVE ReadyDataLanded
  <2> SUFFICES ASSUME NEW m \in work, m.kind = "ready" PROVE OwnData(m)
    BY Zenon DEF ReadyDataLanded
  <2>1. m \in Msgs /\ m.r \in Requests
    BY <1>1, Zenon DEF Transfers, Flow, Addressed, Msgs
  <2>2. ReadyOK(m) /\ Holds(m)
    BY <1>1, <2>1, Zenon DEF Transfers, Flow, ReqOK, MsgOK, Data, DataOf
  <2> QED
    BY <2>2, Zenon DEF ReadyOK, Holds, Landing, Target, OwnData
<1> QED
  BY <1>1, InitTransfers, TransfersNext, PTL DEF Spec

\* A reply is an abstract success or failure.
LEMMA AnswerRefines ==
    ASSUME Clients, NEW r \in Requests, NEW a \in {"ok", "error"}, Answer(r, a), progress' = progress,
           a = "ok" => progress[r] = 3
    PROVE  [Abstract!Next]_<<progress, replies>>
<1>1. CASE r \in pending
  <2>1. replies[r] = "none" /\ replies' = [replies EXCEPT ![r] = a]
    BY <1>1, Zenon DEF Clients, ClientsAccounted, Answer
  <2> QED
    BY <2>1, Zenon DEF Abstract!Next, Abstract!Succeed, Abstract!Fail
<1>2. CASE r \notin pending
  BY <1>2, Zenon DEF Answer
<1> QED
  BY <1>1, <1>2, Zenon

\* Every step is one of the abstract pipeline's, or none.
LEMMA StepRefines ==
    ASSUME Transfers, [Next]_vars
    PROVE  [Abstract!Next]_<<progress, replies>>
<1> USE DEF Transfers
<1>1. CASE InstanceNext
  <2>1. PICK m \in work : Encode(m) \/ Allocate(m) \/ Push(m) \/ Denoise(m) \/ Decode(m)
    BY <1>1, Zenon DEF InstanceNext
  <2>2. m.r \in Requests /\ replies' = replies
    BY <2>1, InstanceConcerns, Zenon DEF Flow, Addressed
  <2>3. ASSUME NEW k \in 0..2, progress[m.r] = k, progress' = [progress EXCEPT ![m.r] = k + 1]
        PROVE  Abstract!Compute(m.r)
    BY <2>2, <2>3 DEF Abstract!Compute
  <2> QED
    BY <2>1, <2>2, <2>3, Computes, ZenonT(30) DEF Abstract!Next
<1>2. ASSUME NEW m \in results, HandleResult(m) PROVE [Abstract!Next]_<<progress, replies>>
  <2>1. progress' = progress /\ m \in Msgs
    BY <1>2, HandlerConcerns, Zenon DEF Msgs
  <2>2. CASE replies' = replies
    BY <2>1, <2>2, Zenon
  <2>3. ASSUME NEW a \in {"ok", "error"}, Answer(m.r, a), m.r \in Requests, a = "ok" => m.kind = "output"
        PROVE  [Abstract!Next]_<<progress, replies>>
    BY <2>1, <2>3, AnswerRefines, Zenon DEF Data, DataOf, Stepped
  <2>4. CASE HandleRoleError(m) \/ HandleFailed(m) \/ HandleOutput(m)
    <3>1. m.r \in Requests /\ \E a \in {"ok", "error"} : Answer(m.r, a) /\ (a = "ok" => m.kind = "output")
      BY <2>4, Zenon DEF HandleRoleError, HandleFailed, HandleOutput, Flow, Addressed
    <3> QED
      BY <2>3, <3>1, Zenon
  <2> QED
    BY <1>2, <2>2, <2>4, Zenon DEF HandleResult, HandleRegister, HandleStaged,
           HandleAllocated, HandlePushed, HandleDone
<1>3. ASSUME NEW r \in Requests, HandleTimeout(r) PROVE [Abstract!Next]_<<progress, replies>>
  BY <1>3, AnswerRefines, Zenon DEF HandleTimeout, instances
<1>4. ASSUME NEW r \in Requests, HandleClientRequest(r) PROVE UNCHANGED <<progress, replies>>
  BY <1>4, Zenon DEF HandleClientRequest, instances
<1>5. CASE DispatchToEncoder \/ DispatchToDenoiser \/ DispatchToDecoder \/ EndOfTurn \/ UNCHANGED vars
  BY <1>5, Zenon DEF DispatchToEncoder, DispatchToDenoiser, DispatchToDecoder,
         DispatchTransfer, EndOfTurn, instances, vars
<1> QED
  BY <1>1, <1>2, <1>3, <1>4, <1>5, ZenonT(30) DEF Next, ServerNext, AllServed

\* The orchestrator and its instances implement the abstract pipeline: a client is
\* answered once, and with a result only after the encoder, the denoiser and the
\* decoder have computed its request in this order, each on the output of the
\* one before.
THEOREM ServerImplementsPipeline ==
    ASSUME "push" \notin Faults
    PROVE  Spec => ImplementsPipeline
<1>1. Init => Abstract!Init
  BY Zenon DEF Init, Abstract!Init
<1> QED
  BY <1>1, InitTransfers, TransfersNext, StepRefines, PTL
     DEF Spec, ImplementsPipeline, Abstract!Spec
=============================================================================
