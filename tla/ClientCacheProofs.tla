------------------------- MODULE ClientCacheProofs -------------------------
(***************************************************************************)
(* Proofs about ClientCache, for any sets of tasks, clients and loops and  *)
(* for every kind of client (AsyncCreate, HasReadyHook, Validates).        *)
(***************************************************************************)
EXTENDS ClientCache, TLAPS, SequenceTheorems

MaybeClient == Clients \union {NoClient}

\* TypeOK in two halves: what a call changes, and what it changes in the cache.
CallsOK ==
    /\ holder \in Tasks \union {NoTask} /\ queue \in Seq(Tasks)
    /\ lockLoop \in Loops \union {NoLoop}
    /\ pc \in [Tasks -> PCs] /\ held \in [Tasks -> MaybeClient]
    /\ \A t \in Tasks : pc[t] \in {"use", "ready"} => held[t] \in Clients
ClientsOK ==
    /\ client \in MaybeClient /\ clientLoop \in Loops \union {NoLoop}
    /\ conn \in [Clients -> ConnStates]
    /\ connLoop \in [Clients -> Loops \union {NoLoop}]
    /\ started \subseteq Clients

LEMMA TypeSplit == TypeOK <=> CallsOK /\ ClientsOK /\ loop \in Loops
  BY DEF TypeOK, CallsOK, ClientsOK, MaybeClient

LEMMA PCNames ==
    /\ AtRest \subseteq PCs /\ Waiting \subseteq PCs /\ Critical \subseteq PCs
    /\ {"idle", "returned", "failed", "cancelled", "raised", "closeRaised", "use",
        "ensureWait", "invalWait", "closeWait",
        "evict", "create", "ready", "inval", "close"} \subseteq PCs
    /\ {"none", "open", "down", "half", "lost"} = ConnStates
  BY DEF PCs, AtRest, Waiting, Critical, ConnStates

-----------------------------------------------------------------------------
(* The lock operators keep the calls well-typed. *)

LEMMA ReleaseType ==
  ASSUME CallsOK, NEW t \in Tasks, Release(t)
  PROVE  holder' \in Tasks \union {NoTask} /\ queue' \in Seq(Tasks)
<1>1. CASE holder # t
  BY <1>1 DEF Release, CallsOK
<1>2. CASE holder = t /\ queue = <<>>
  BY <1>2 DEF Release, CallsOK
<1>3. CASE holder = t /\ queue # <<>>
  BY <1>3, HeadTailProperties DEF Release, CallsOK
<1> QED  BY <1>1, <1>2, <1>3

LEMMA LeaveType ==
  ASSUME CallsOK, NEW t \in Tasks, NEW at \in PCs, NEW c \in MaybeClient, Leave(t, at, c),
         at \in {"use", "ready"} => c \in Clients
  PROVE  CallsOK'
<1>1. \A u \in Tasks : u # t => pc'[u] = pc[u] /\ held'[u] = held[u]
  BY DEF Leave, CallsOK
<1>2. pc'[t] = at /\ held'[t] = c
  BY DEF Leave, CallsOK
<1> QED  BY <1>1, <1>2, ReleaseType DEF Leave, CallsOK

LEMMA EnterType ==
  ASSUME CallsOK, NEW t \in Tasks, NEW at \in PCs, NEW c \in MaybeClient, Enter(t, at, c),
         at \in {"use", "ready"} => c \in Clients
  PROVE  CallsOK'
<1>1. \A u \in Tasks : u # t => pc'[u] = pc[u] /\ held'[u] = held[u]
  BY DEF Enter, CallsOK
<1>2. pc'[t] = at /\ held'[t] = c
  BY DEF Enter, CallsOK
<1> QED  BY <1>1, <1>2 DEF Enter, CallsOK

LEMMA WaitType ==
  ASSUME CallsOK, loop \in Loops, NEW t \in Tasks, NEW at \in Waiting, Wait(t, at), UNCHANGED held
  PROVE  CallsOK'
<1>0. at \in PCs /\ at \notin {"use", "ready"}
  BY PCNames DEF Waiting
<1>1. CASE holder = t
  <2>1. queue # <<>>
    BY <1>1 DEF Wait, CanTake
  <2>2. Head(queue) \in Tasks /\ Tail(queue) \in Seq(Tasks)
    BY <2>1, HeadTailProperties DEF CallsOK
  <2>3. Append(Tail(queue), t) \in Seq(Tasks)
    BY <2>2, AppendProperties
  <2> QED  BY <1>0, <1>1, <2>2, <2>3 DEF Wait, CallsOK
<1>2. CASE holder # t
  <2>1. Append(queue, t) \in Seq(Tasks)
    BY AppendProperties DEF CallsOK
  <2> QED  BY <1>0, <1>2, <2>1 DEF Wait, CallsOK
<1> QED  BY <1>1, <1>2

-----------------------------------------------------------------------------
(* So do the fragments of the locked blocks. *)

LEMMA InvalidateBlockType ==
  ASSUME CallsOK, NEW t \in Tasks, NEW cached \in MaybeClient,
         NEW connNow \in [Clients -> ConnStates],
         InvalidateBlock(t, cached, connNow)
  PROVE  CallsOK' /\ conn' \in [Clients -> ConnStates]
<1>1. CASE cached = NoClient
  <2>1. Leave(t, "failed", NoClient) /\ conn' = connNow
    BY <1>1 DEF InvalidateBlock
  <2> QED  BY <2>1, LeaveType, PCNames DEF MaybeClient
<1>2. CASE cached # NoClient
  <2>1. Enter(t, "inval", held[t]) /\ conn' = [connNow EXCEPT ![cached] = "half"]
    BY <1>2 DEF InvalidateBlock
  <2>2. held[t] \in MaybeClient
    BY DEF CallsOK
  <2>3. CallsOK'
    BY <2>1, <2>2, EnterType, PCNames
  <2> QED  BY <2>1, <2>3 DEF ConnStates
<1> QED  BY <1>1, <1>2

LEMMA FailingType ==
  ASSUME CallsOK, loop \in Loops, NEW t \in Tasks, NEW cached \in MaybeClient,
         NEW connNow \in [Clients -> ConnStates],
         Failing(t, cached, connNow)
  PROVE  CallsOK' /\ conn' \in [Clients -> ConnStates]
<1>1. CASE InvalidateBlock(t, cached, connNow)
  BY <1>1, InvalidateBlockType
<1>2. CASE Wait(t, "invalWait") /\ conn' = connNow /\ UNCHANGED held
  BY <1>2, WaitType DEF Waiting
<1>3. CASE Leave(t, "raised", NoClient) /\ conn' = connNow
  BY <1>3, LeaveType, PCNames DEF MaybeClient
<1> QED  BY <1>1, <1>2, <1>3 DEF Failing

LEMMA InstallType ==
  ASSUME CallsOK, ClientsOK, loop \in Loops, NEW t \in Tasks, NEW c \in Clients,
         NEW connNow \in [Clients -> ConnStates],
         Install(t, c, connNow)
  PROVE  CallsOK' /\ ClientsOK'
<1>1. CallsOK'
  <2>1. Enter(t, "ready", c) \/ Leave(t, "use", c)
    BY DEF Install
  <2> QED  BY <2>1, EnterType, LeaveType, PCNames DEF MaybeClient
<1>2. ClientsOK'
  <2>1. started' \subseteq Clients
    BY DEF Install, ClientsOK
  <2> QED  BY <2>1 DEF Install, ClientsOK, MaybeClient, ConnStates
<1> QED  BY <1>1, <1>2

LEMMA CreateType ==
  ASSUME CallsOK, ClientsOK, loop \in Loops, NEW t \in Tasks,
         NEW connNow \in [Clients -> ConnStates],
         Create(t, connNow)
  PROVE  CallsOK' /\ ClientsOK'
<1>0. NoClient \in MaybeClient
  BY DEF MaybeClient
<1>1. CASE \E c \in Clients : Fresh(c) /\ Install(t, c, connNow)
  BY <1>1, InstallType
<1>2. CASE /\ Enter(t, "create", NoClient)
           /\ client' = NoClient /\ clientLoop' = loop
           /\ conn' = connNow /\ UNCHANGED <<connLoop, started>>
  BY <1>0, <1>2, EnterType, PCNames DEF ClientsOK
<1>3. CASE /\ Failing(t, NoClient, connNow)
           /\ client' = NoClient /\ clientLoop' = loop
           /\ UNCHANGED <<connLoop, started>>
  BY <1>0, <1>3, FailingType DEF ClientsOK
<1> QED  BY <1>1, <1>2, <1>3 DEF Create

LEMMA EnsureBlockType ==
  ASSUME CallsOK, ClientsOK, loop \in Loops, NEW t \in Tasks, EnsureBlock(t)
  PROVE  CallsOK' /\ ClientsOK'
<1>1. CASE Create(t, conn)
  BY <1>1, CreateType DEF ClientsOK
<1>2. CASE /\ client # NoClient
           /\ Leave(t, "use", client) /\ UNCHANGED <<cacheVars, connVars>>
  <2>1. client \in Clients
    BY <1>2 DEF ClientsOK, MaybeClient
  <2> QED  BY <1>2, <2>1, LeaveType, PCNames DEF ClientsOK, cacheVars, connVars
<1>3. CASE /\ Enter(t, "evict", client)
           /\ conn' = [conn EXCEPT ![client] = "half"]
           /\ UNCHANGED <<cacheVars, connLoop, started>>
  BY <1>3, EnterType, PCNames DEF ClientsOK, cacheVars, ConnStates
<1> QED  BY <1>1, <1>2, <1>3 DEF EnsureBlock

LEMMA CloseBlockType ==
  ASSUME CallsOK, ClientsOK, NEW t \in Tasks, CloseBlock(t)
  PROVE  CallsOK' /\ ClientsOK'
<1>1. CASE Leave(t, "returned", NoClient) /\ UNCHANGED conn
  BY <1>1, LeaveType, PCNames DEF CloseBlock, ClientsOK, MaybeClient, cacheVars
<1>2. CASE Enter(t, "close", client) /\ conn' = [conn EXCEPT ![client] = "half"]
  BY <1>2, EnterType, PCNames DEF CloseBlock, ClientsOK, cacheVars, ConnStates
<1> QED  BY <1>1, <1>2 DEF CloseBlock

LEMMA RemoveAtType ==
  ASSUME NEW S, NEW q \in Seq(S), NEW i \in 1..Len(q)
  PROVE  RemoveAt(q, i) \in Seq(S)
<1>1. SubSeq(q, 1, i-1) \in Seq(S) /\ SubSeq(q, i+1, Len(q)) \in Seq(S)
  BY SubSeqProperties, ElementOfSeq, LenProperties
<1> QED  BY <1>1, ConcatProperties DEF RemoveAt

-----------------------------------------------------------------------------
(* Type correctness *)

LEMMA ProceedType ==
  ASSUME CallsOK, ClientsOK, loop \in Loops, NEW t \in Tasks, Proceed(t)
  PROVE  CallsOK' /\ ClientsOK' /\ loop' = loop
<1>0. NoClient \in MaybeClient /\ NoLoop \in Loops \union {NoLoop}
  BY DEF MaybeClient
<1>1. CASE EnsureResumes(t)
  BY <1>1, EnsureBlockType DEF EnsureResumes
<1>2. CASE Evicted(t)
  <2>1. PICK end \in Gone : Create(t, [conn EXCEPT ![client] = end])
    BY <1>2 DEF Evicted
  <2>2. [conn EXCEPT ![client] = end] \in [Clients -> ConnStates]
    BY DEF ClientsOK, ConnStates, Gone
  <2> QED  BY <1>2, <2>1, <2>2, CreateType DEF Evicted
<1>3. CASE Created(t)
  <2>1. CASE \E c \in Clients : Fresh(c) /\ Install(t, c, conn)
    BY <1>3, <2>1, InstallType DEF ClientsOK, Created
  <2>2. CASE BodyRaises(t)
    BY <1>3, <2>2, FailingType DEF BodyRaises, ClientsOK, Created, cacheVars
  <2> QED  BY <1>3, <2>1, <2>2 DEF Created
<1>4. CASE Readied(t)
  <2>0. held[t] \in MaybeClient
    BY DEF CallsOK
  <2>1. CASE /\ Leave(t, "use", held[t])
             /\ started' = started \union {held[t]}
             /\ UNCHANGED <<cacheVars, conn, connLoop>>
    <3>1. held[t] \in Clients
      BY <1>4 DEF CallsOK, Readied
    <3> QED  BY <1>4, <2>0, <2>1, <3>1, LeaveType, PCNames DEF ClientsOK, Readied, cacheVars
  <2>2. CASE BodyRaises(t)
    BY <1>4, <2>2, FailingType DEF BodyRaises, ClientsOK, Readied, cacheVars
  <2> QED  BY <1>4, <2>1, <2>2 DEF Readied
<1>5. CASE Used(t)
  <2>1. CASE Leave(t, "returned", NoClient) /\ UNCHANGED <<cacheVars, connVars>>
    BY <1>0, <1>5, <2>1, LeaveType, PCNames DEF ClientsOK, Used, cacheVars, connVars
  <2>2. CASE BodyRaises(t)
    BY <1>5, <2>2, FailingType DEF BodyRaises, ClientsOK, Used, cacheVars
  <2> QED  BY <1>5, <2>1, <2>2 DEF Used
<1>6. CASE InvalidateResumes(t)
  BY <1>6, InvalidateBlockType DEF ClientsOK, InvalidateResumes, cacheVars
<1>7. CASE Invalidated(t)
  BY <1>0, <1>7, LeaveType, PCNames DEF ClientsOK, Invalidated, ConnStates, Gone
<1>8. CASE AcloseResumes(t)
  BY <1>8, CloseBlockType DEF AcloseResumes
<1>9. CASE Closed(t)
  BY <1>0, <1>9, LeaveType, PCNames DEF ClientsOK, Closed, ConnStates, cacheVars
<1> QED  BY <1>1, <1>2, <1>3, <1>4, <1>5, <1>6, <1>7, <1>8, <1>9 DEF Proceed

LEMMA CallType ==
  ASSUME CallsOK, ClientsOK, loop \in Loops, NEW t \in Tasks, Check(t) \/ Aclose(t)
  PROVE  CallsOK' /\ ClientsOK' /\ loop' = loop
<1>0. NoClient \in MaybeClient
  BY DEF MaybeClient
<1>1. loop' = loop
  BY DEF Check, Aclose
<1>2. CASE EnsureBlock(t)
  BY <1>1, <1>2, EnsureBlockType
<1>3. CASE CloseBlock(t)
  BY <1>1, <1>3, CloseBlockType
<1>4. CASE \E at \in Waiting : Wait(t, at) /\ UNCHANGED <<cacheVars, held, connVars>>
  BY <1>1, <1>4, WaitType DEF ClientsOK, cacheVars, connVars
<1>5. CASE \E at \in AtRest : Leave(t, at, NoClient) /\ UNCHANGED <<cacheVars, connVars>>
  BY <1>0, <1>1, <1>5, LeaveType, PCNames DEF AtRest, ClientsOK, cacheVars, connVars
<1> QED  BY <1>2, <1>3, <1>4, <1>5 DEF Check, Aclose, Waiting, AtRest

LEMMA CancelType ==
  ASSUME CallsOK, ClientsOK, NEW t \in Tasks, Cancel(t)
  PROVE  CallsOK' /\ ClientsOK' /\ loop' = loop
<1>1. holder' \in Tasks \union {NoTask} /\ queue' \in Seq(Tasks)
  <2>1. CASE Release(t)
    BY <2>1, ReleaseType
  <2>2. CASE /\ \E i \in 1..Len(queue) : queue[i] = t /\ queue' = RemoveAt(queue, i)
             /\ UNCHANGED holder
    BY <2>2, RemoveAtType DEF CallsOK
  <2> QED  BY <2>1, <2>2 DEF Cancel
<1>2. "cancelled" \in PCs /\ NoClient \in MaybeClient
  BY PCNames DEF MaybeClient
<1> QED  BY <1>1, <1>2 DEF Cancel, CallsOK, ClientsOK, cacheVars, connVars

LEMMA EnvironmentType ==
  ASSUME TypeOK, (\E c \in Clients : Drop(c)) \/ SwitchLoop
  PROVE  TypeOK'
  BY DEF TypeOK, Drop, SwitchLoop, ConnStates, cacheVars, lockVars, connVars

LEMMA TypeStep == TypeOK /\ [Next]_vars => TypeOK'
<1> SUFFICES ASSUME TypeOK, [Next]_vars PROVE TypeOK'
  OBVIOUS
<1>0. CallsOK /\ ClientsOK /\ loop \in Loops
  BY TypeSplit
<1>1. CASE \E t \in Tasks : Check(t) \/ Aclose(t)
  BY <1>0, <1>1, CallType DEF TypeOK, CallsOK, ClientsOK, MaybeClient
<1>2. CASE \E t \in Tasks : Proceed(t)
  BY <1>0, <1>2, ProceedType DEF TypeOK, CallsOK, ClientsOK, MaybeClient
<1>3. CASE \E t \in Tasks : Cancel(t)
  BY <1>0, <1>3, CancelType DEF TypeOK, CallsOK, ClientsOK, MaybeClient
<1>4. CASE (\E c \in Clients : Drop(c)) \/ SwitchLoop
  BY <1>4, EnvironmentType
<1>5. CASE UNCHANGED vars
  BY <1>5 DEF TypeOK, vars, cacheVars, lockVars, connVars
<1> QED  BY <1>1, <1>2, <1>3, <1>4, <1>5 DEF Next

\* Every state the calls can reach is well-typed.
THEOREM TypeCorrect == Spec => []TypeOK
<1>1. Init => TypeOK
  BY EmptySeq, PCNames DEF Init, TypeOK
<1> QED  BY <1>1, TypeStep, PTL DEF Spec

-----------------------------------------------------------------------------
(***************************************************************************)
(* The safety invariants.  None of them is inductive alone: that a step of *)
(* one call does not disturb another needs the lock, and that a step       *)
(* loses no connection needs what the lock's owner knows of the cache.     *)
(***************************************************************************)

\* What holds of the cache while a task is suspended in the locked block.
OwnerKnowsCache ==
    \A t \in Tasks :
        /\ pc[t] = "create" => client = NoClient
        /\ pc[t] \in {"evict", "ready", "inval", "close"} => client # NoClient

\* As OnOwnLoop, for a client that is still being started too.
HeldOnOwnLoop ==
    \A t \in Tasks : pc[t] \in {"use", "ready"} => connLoop[held[t]] = loop
LoopRecorded == client # NoClient => clientLoop = connLoop[client]

IInv ==
    /\ TypeOK
    /\ LockHeldInside
    /\ OwnerKnowsCache /\ NoConnectionLost
    /\ LoopRecorded /\ HeldOnOwnLoop /\ StartUndisturbed

\* The parts of IInv that a step has to re-establish, without the types.
Safe ==
    /\ LockHeldInside
    /\ OwnerKnowsCache /\ NoConnectionLost
    /\ LoopRecorded /\ HeldOnOwnLoop /\ StartUndisturbed

Alone(t) == \A u \in Tasks : u # t => pc[u] \notin Critical
Mine(t)  == holder \in {t, NoTask}

\* The lock admits one task: whoever owns it, or finds it free, is alone.
LEMMA MineAlone ==
  ASSUME TypeOK, LockHeldInside, NEW t \in Tasks, Mine(t)
  PROVE  Alone(t)
  BY NullAssumption DEF Mine, Alone, LockHeldInside, TypeOK

\* A step of t leaves the other calls where they are.
LEMMA LeaveFrame ==
  ASSUME TypeOK, LockHeldInside, NEW t \in Tasks, NEW at \in PCs \ Critical, NEW c,
         Leave(t, at, c)
  PROVE  /\ LockHeldInside'
         /\ pc'[t] = at /\ held'[t] = c
         /\ \A u \in Tasks : u # t => pc'[u] = pc[u] /\ held'[u] = held[u]
<1>1. /\ pc'[t] = at /\ held'[t] = c
      /\ \A u \in Tasks : u # t => pc'[u] = pc[u] /\ held'[u] = held[u]
  BY DEF Leave, TypeOK
<1>2. ASSUME NEW u \in Tasks, u # t, pc[u] \in Critical
      PROVE  holder' = u
  BY <1>2 DEF LockHeldInside, Leave, Release
<1> QED  BY <1>1, <1>2 DEF LockHeldInside

LEMMA EnterFrame ==
  ASSUME TypeOK, NEW t \in Tasks, Alone(t), NEW at \in PCs, NEW c, Enter(t, at, c)
  PROVE  /\ LockHeldInside'
         /\ pc'[t] = at /\ held'[t] = c
         /\ \A u \in Tasks : u # t => pc'[u] = pc[u] /\ held'[u] = held[u]
  BY DEF Enter, TypeOK, Alone, LockHeldInside

LEMMA WaitFrame ==
  ASSUME TypeOK, LockHeldInside, NEW t \in Tasks, NEW at \in Waiting, Wait(t, at),
         UNCHANGED held
  PROVE  /\ LockHeldInside'
         /\ pc'[t] = at /\ held'[t] = held[t]
         /\ \A u \in Tasks : u # t => pc'[u] = pc[u] /\ held'[u] = held[u]
<1>1. /\ pc'[t] = at /\ held'[t] = held[t]
      /\ \A u \in Tasks : u # t => pc'[u] = pc[u] /\ held'[u] = held[u]
  BY DEF Wait, TypeOK
<1>2. ASSUME NEW u \in Tasks, u # t, pc[u] \in Critical
      PROVE  holder' = u
  BY <1>2 DEF LockHeldInside, Wait
<1> QED  BY <1>1, <1>2 DEF LockHeldInside, Waiting, Critical

\* What a step may leave in the cache when it runs the invalidation: cached and
\* connNow are _client and the connections at that point.
Consistent(cached, connNow) ==
    /\ \A c \in Clients : connNow[c] \notin Gone => cached = c
    /\ cached # NoClient => cached = client
    /\ (cached = client /\ connNow = conn) \/ (\A c \in Clients : connNow[c] \in Gone)

LEMMA InvalidateBlockSafe ==
  ASSUME IInv, NEW t \in Tasks, Alone(t),
         NEW cached \in MaybeClient, NEW connNow \in [Clients -> ConnStates],
         Consistent(cached, connNow),
         InvalidateBlock(t, cached, connNow),
         client' = cached, cached # NoClient => clientLoop' = clientLoop,
         UNCHANGED <<connLoop, started, loop>>
  PROVE  Safe'
<1>1. CASE cached = NoClient
  <2>1. Leave(t, "failed", NoClient) /\ conn' = connNow
    BY <1>1 DEF InvalidateBlock
  <2>2. "failed" \in PCs \ Critical
    BY PCNames DEF Critical
  <2> QED  BY <1>1, <2>1, <2>2, LeaveFrame
           DEF IInv, Safe, Alone, Critical, Consistent, OwnerKnowsCache, NoConnectionLost,
               LoopRecorded, HeldOnOwnLoop, StartUndisturbed
<1>2. CASE cached # NoClient
  <2>1. Enter(t, "inval", held[t]) /\ conn' = [connNow EXCEPT ![cached] = "half"]
    BY <1>2 DEF InvalidateBlock
  <2>2. "inval" \in PCs
    BY PCNames
  <2> QED  BY <1>2, <2>1, <2>2, EnterFrame
           DEF IInv, Safe, Alone, Critical, Consistent, OwnerKnowsCache, NoConnectionLost,
               LoopRecorded, HeldOnOwnLoop, StartUndisturbed, MaybeClient
<1> QED  BY <1>1, <1>2

\* A call that keeps the cache and leaves or queues disturbs nobody.
LEMMA KeepCacheSafe ==
  ASSUME IInv, NEW t \in Tasks, NEW at \in PCs \ Critical, at # "use",
         pc'[t] = at, LockHeldInside',
         \A u \in Tasks : u # t => pc'[u] = pc[u] /\ held'[u] = held[u],
         UNCHANGED <<cacheVars, connVars, loop>>
  PROVE  Safe'
  BY DEF IInv, Safe, Critical, OwnerKnowsCache, NoConnectionLost, LoopRecorded,
         HeldOnOwnLoop, StartUndisturbed, cacheVars, connVars

LEMMA FailingSafe ==
  ASSUME IInv, NEW t \in Tasks,
         NEW cached \in MaybeClient, NEW connNow \in [Clients -> ConnStates],
         Consistent(cached, connNow),
         Alone(t) \/ (cached = client /\ connNow = conn),
         Failing(t, cached, connNow),
         client' = cached, cached # NoClient => clientLoop' = clientLoop,
         UNCHANGED <<connLoop, started, loop>>
  PROVE  Safe'
<1>0. TypeOK /\ LockHeldInside
  BY DEF IInv
<1>1. CASE CanTake(t) /\ InvalidateBlock(t, cached, connNow)
  <2>1. Alone(t)
    BY <1>0, <1>1, MineAlone DEF CanTake, Mine
  <2> QED  BY <1>1, <2>1, InvalidateBlockSafe
<1>2. CASE conn' = connNow /\ \E at \in PCs \ Critical :
             /\ at # "use" /\ pc'[t] = at /\ LockHeldInside'
             /\ \A u \in Tasks : u # t => pc'[u] = pc[u] /\ held'[u] = held[u]
  BY <1>2 DEF IInv, Safe, Critical, Alone, Consistent, OwnerKnowsCache, NoConnectionLost,
              LoopRecorded, HeldOnOwnLoop, StartUndisturbed
<1>3. CASE Wait(t, "invalWait") /\ conn' = connNow /\ UNCHANGED held
  <2>1. "invalWait" \in Waiting /\ "invalWait" \in PCs \ Critical
    BY PCNames DEF Waiting, Critical
  <2> QED  BY <1>0, <1>2, <1>3, <2>1, WaitFrame
<1>4. CASE Leave(t, "raised", NoClient) /\ conn' = connNow
  <2>1. "raised" \in PCs \ Critical
    BY PCNames DEF Critical
  <2> QED  BY <1>0, <1>2, <1>4, <2>1, LeaveFrame
<1> QED  BY <1>1, <1>3, <1>4 DEF Failing

LEMMA InstallSafe ==
  ASSUME IInv, NEW t \in Tasks, Alone(t), NEW c \in Clients, Fresh(c),
         NEW connNow \in [Clients -> ConnStates],
         \A d \in Clients : connNow[d] \in Gone,
         Install(t, c, connNow), UNCHANGED loop
  PROVE  Safe'
<1>1. /\ pc'[t] \in {"ready", "use"} /\ held'[t] = c /\ LockHeldInside'
      /\ \A u \in Tasks : u # t => pc'[u] = pc[u] /\ held'[u] = held[u]
  <2>1. Enter(t, "ready", c) \/ Leave(t, "use", c)
    BY DEF Install
  <2>2. "ready" \in PCs /\ "use" \in PCs \ Critical
    BY PCNames DEF Critical
  <2> QED  BY <2>1, <2>2, EnterFrame, LeaveFrame DEF IInv
<1>2. conn'[c] = "open" /\ \A d \in Clients : d # c => conn'[d] \in Gone
  BY DEF Install
<1>3. connLoop'[c] = loop /\ \A d \in Clients : d # c => connLoop'[d] = connLoop[d]
  BY DEF Install, IInv, TypeOK
<1>4. client' = c /\ clientLoop' = loop /\ c # NoClient
  BY NullAssumption DEF Install
<1>5. \A u \in Tasks : u # t => pc'[u] \notin Critical /\ held'[u] # c
  BY <1>1 DEF Alone, Fresh
<1>6. OwnerKnowsCache' /\ NoConnectionLost' /\ LoopRecorded'
  BY <1>1, <1>2, <1>3, <1>4, <1>5 DEF OwnerKnowsCache, NoConnectionLost, LoopRecorded, Critical
<1>7. HeldOnOwnLoop'
  BY <1>1, <1>3, <1>5 DEF HeldOnOwnLoop, IInv, TypeOK
<1>8. StartUndisturbed'
  BY <1>1, <1>2, <1>4, <1>5 DEF StartUndisturbed, Critical
<1> QED  BY <1>1, <1>6, <1>7, <1>8 DEF Safe

LEMMA CreateSafe ==
  ASSUME IInv, NEW t \in Tasks, Alone(t),
         NEW connNow \in [Clients -> ConnStates],
         \A d \in Clients : connNow[d] \in Gone,
         Create(t, connNow), UNCHANGED loop
  PROVE  Safe'
<1>1. CASE \E c \in Clients : Fresh(c) /\ Install(t, c, connNow)
  BY <1>1, InstallSafe
<1>2. CASE /\ Enter(t, "create", NoClient)
           /\ client' = NoClient /\ conn' = connNow /\ UNCHANGED <<connLoop, started>>
  <2>1. "create" \in PCs
    BY PCNames
  <2> QED  BY <1>2, <2>1, EnterFrame
           DEF IInv, Safe, Alone, Critical, OwnerKnowsCache, NoConnectionLost,
               LoopRecorded, HeldOnOwnLoop, StartUndisturbed
<1>3. CASE /\ Failing(t, NoClient, connNow)
           /\ client' = NoClient /\ UNCHANGED <<connLoop, started>>
  <2>1. NoClient \in MaybeClient /\ Consistent(NoClient, connNow)
    BY DEF MaybeClient, Consistent
  <2> QED  BY <1>3, <2>1, FailingSafe
<1> QED  BY <1>1, <1>2, <1>3 DEF Create

LEMMA EnsureBlockSafe ==
  ASSUME IInv, NEW t \in Tasks, Mine(t), EnsureBlock(t), UNCHANGED loop
  PROVE  Safe'
<1>0. Alone(t)
  BY MineAlone DEF IInv
<1>1. CASE client = NoClient /\ Create(t, conn)
  <2>1. \A d \in Clients : conn[d] \in Gone
    BY <1>1, NullAssumption DEF IInv, NoConnectionLost
  <2>2. conn \in [Clients -> ConnStates]
    BY DEF IInv, TypeOK
  <2> QED  BY <1>0, <1>1, <2>1, <2>2, CreateSafe
<1>2. CASE /\ client # NoClient /\ Reusable
           /\ Leave(t, "use", client) /\ UNCHANGED <<cacheVars, connVars>>
  <2>1. "use" \in PCs \ Critical
    BY PCNames DEF Critical
  <2> QED  BY <1>2, <2>1, LeaveFrame
           DEF IInv, Safe, Critical, Reusable, OwnerKnowsCache, NoConnectionLost, LoopRecorded,
               HeldOnOwnLoop, StartUndisturbed, cacheVars, connVars
<1>3. CASE /\ client # NoClient
           /\ Enter(t, "evict", client)
           /\ conn' = [conn EXCEPT ![client] = "half"]
           /\ UNCHANGED <<cacheVars, connLoop, started>>
  <2>1. "evict" \in PCs
    BY PCNames
  <2> QED  BY <1>0, <1>3, <2>1, EnterFrame
           DEF IInv, Safe, Alone, Critical, TypeOK, OwnerKnowsCache, NoConnectionLost,
               LoopRecorded, HeldOnOwnLoop, StartUndisturbed, cacheVars
<1> QED  BY <1>1, <1>2, <1>3 DEF EnsureBlock

LEMMA CloseBlockSafe ==
  ASSUME IInv, NEW t \in Tasks, Mine(t), CloseBlock(t), UNCHANGED loop
  PROVE  Safe'
<1>0. Alone(t)
  BY MineAlone DEF IInv
<1>1. CASE Leave(t, "returned", NoClient) /\ UNCHANGED conn
  <2>1. "returned" \in PCs \ Critical
    BY PCNames DEF Critical
  <2> QED  BY <1>1, <2>1, LeaveFrame, KeepCacheSafe DEF IInv, CloseBlock, cacheVars, connVars
<1>2. CASE /\ client # NoClient /\ Enter(t, "close", client)
           /\ conn' = [conn EXCEPT ![client] = "half"]
  <2>1. "close" \in PCs
    BY PCNames
  <2> QED  BY <1>0, <1>2, <2>1, EnterFrame
           DEF IInv, Safe, Alone, Critical, TypeOK, OwnerKnowsCache, NoConnectionLost,
               LoopRecorded, HeldOnOwnLoop, StartUndisturbed, cacheVars, CloseBlock
<1> QED  BY <1>1, <1>2 DEF CloseBlock

-----------------------------------------------------------------------------
(* Every step keeps IInv. *)

\* The task whose await inside the locked block ends is alone in it, and the
\* cached client is the only one that may still have a connection.
LEMMA InsideAlone ==
  ASSUME IInv, NEW t \in Tasks, pc[t] \in Critical
  PROVE  /\ holder = t /\ Mine(t) /\ Alone(t)
         /\ \A c \in Clients : c # client => conn[c] \in Gone
         /\ Consistent(client, conn)
  BY MineAlone DEF IInv, LockHeldInside, Mine, NoConnectionLost, Consistent

LEMMA ProceedSafe ==
  ASSUME IInv, NEW t \in Tasks, Proceed(t)
  PROVE  Safe'
<1>0. /\ client \in MaybeClient /\ conn \in [Clients -> ConnStates]
      /\ Consistent(client, conn) /\ LockHeldInside /\ TypeOK
  BY DEF IInv, TypeOK, MaybeClient, NoConnectionLost, Consistent
<1>1. CASE EnsureResumes(t)
  BY <1>1, EnsureBlockSafe DEF EnsureResumes, Mine
<1>2. CASE Evicted(t)
  <2>1. Alone(t) /\ \A c \in Clients : c # client => conn[c] \in Gone
    BY <1>2, InsideAlone DEF Evicted, Critical
  <2>2. PICK end \in Gone : Create(t, [conn EXCEPT ![client] = end])
    BY <1>2 DEF Evicted
  <2>3. /\ \A d \in Clients : [conn EXCEPT ![client] = end][d] \in Gone
        /\ [conn EXCEPT ![client] = end] \in [Clients -> ConnStates]
    BY <1>0, <2>1 DEF ConnStates, Gone
  <2> QED  BY <1>2, <2>1, <2>2, <2>3, CreateSafe DEF Evicted
<1>3. CASE Created(t)
  <2>1. Alone(t) /\ client = NoClient /\ \A c \in Clients : conn[c] \in Gone
    BY <1>3, InsideAlone, NullAssumption DEF Created, Critical, IInv, OwnerKnowsCache
  <2>2. CASE \E c \in Clients : Fresh(c) /\ Install(t, c, conn)
    BY <1>0, <1>3, <2>1, <2>2, InstallSafe DEF Created
  <2>3. CASE BodyRaises(t)
    BY <1>0, <1>3, <2>1, <2>3, FailingSafe DEF BodyRaises, Created, cacheVars
  <2> QED  BY <1>3, <2>2, <2>3 DEF Created
<1>4. CASE Readied(t)
  <2>1. CASE /\ Leave(t, "use", held[t])
             /\ UNCHANGED <<cacheVars, conn, connLoop>>
    <3>1. "use" \in PCs \ Critical
      BY PCNames DEF Critical
    <3> QED  BY <1>4, <2>1, <3>1, LeaveFrame
             DEF Readied, IInv, Safe, Critical, OwnerKnowsCache, NoConnectionLost,
                 LoopRecorded, HeldOnOwnLoop, StartUndisturbed, cacheVars
  <2>2. CASE BodyRaises(t)
    BY <1>0, <1>4, <2>2, FailingSafe DEF BodyRaises, Readied, cacheVars
  <2> QED  BY <1>4, <2>1, <2>2 DEF Readied
<1>5. CASE Used(t)
  <2>1. CASE Leave(t, "returned", NoClient) /\ UNCHANGED <<cacheVars, connVars>>
    <3>1. "returned" \in PCs \ Critical
      BY PCNames DEF Critical
    <3> QED  BY <1>0, <1>5, <2>1, <3>1, LeaveFrame, KeepCacheSafe DEF Used
  <2>2. CASE BodyRaises(t)
    BY <1>0, <1>5, <2>2, FailingSafe DEF BodyRaises, Used, cacheVars
  <2> QED  BY <1>5, <2>1, <2>2 DEF Used
<1>6. CASE InvalidateResumes(t)
  <2>1. Alone(t)
    BY <1>0, <1>6, MineAlone DEF InvalidateResumes, Mine
  <2> QED  BY <1>0, <1>6, <2>1, InvalidateBlockSafe DEF InvalidateResumes, cacheVars
<1>7. ASSUME pc[t] \in {"inval", "close"},
             client' = NoClient,
             NEW end \in Gone, conn' = [conn EXCEPT ![client] = end],
             UNCHANGED <<connLoop, started, loop>>,
             NEW at \in {"failed", "returned"}, Leave(t, at, NoClient)
      PROVE  Safe'
  <2>1. at \in PCs \ Critical
    BY PCNames DEF Critical
  <2>2. Alone(t) /\ \A c \in Clients : c # client => conn[c] \in Gone
    BY <1>7, InsideAlone DEF Critical
  <2> QED  BY <1>0, <1>7, <2>1, <2>2, LeaveFrame
           DEF IInv, Safe, Alone, Critical, OwnerKnowsCache, NoConnectionLost, LoopRecorded,
               HeldOnOwnLoop, StartUndisturbed
<1>8. CASE Invalidated(t)
  BY <1>7, <1>8 DEF Invalidated
<1>9. CASE AcloseResumes(t)
  BY <1>9, CloseBlockSafe DEF AcloseResumes, Mine
<1>10. CASE Closed(t)
  <2>1. CASE /\ client' = NoClient /\ conn' = [conn EXCEPT ![client] = "none"]
             /\ Leave(t, "returned", NoClient)
    BY <1>7, <1>10, <2>1 DEF Closed, Gone
  <2>2. CASE Leave(t, "closeRaised", NoClient) /\ UNCHANGED <<cacheVars, conn>>
    <3>1. "closeRaised" \in PCs \ Critical
      BY PCNames DEF Critical
    <3> QED  BY <1>0, <1>10, <2>2, <3>1, LeaveFrame, KeepCacheSafe DEF Closed, connVars
  <2> QED  BY <1>10, <2>1, <2>2 DEF Closed
<1> QED  BY <1>1, <1>2, <1>3, <1>4, <1>5, <1>6, <1>8, <1>9, <1>10 DEF Proceed

LEMMA CallSafe ==
  ASSUME IInv, NEW t \in Tasks, Check(t) \/ Aclose(t)
  PROVE  Safe'
<1>0. TypeOK /\ LockHeldInside /\ UNCHANGED loop /\ pc[t] \in AtRest
  BY DEF IInv, Check, Aclose
<1>1. CASE CanTake(t) /\ (EnsureBlock(t) \/ CloseBlock(t))
  BY <1>0, <1>1, EnsureBlockSafe, CloseBlockSafe DEF CanTake, Mine
<1>2. ASSUME NEW at \in {"ensureWait", "closeWait"}, Wait(t, at),
             UNCHANGED <<cacheVars, held, connVars>>
      PROVE  Safe'
  <2>1. at \in Waiting /\ at \in PCs \ Critical /\ at # "use"
    BY PCNames DEF Waiting, Critical
  <2> QED  BY <1>0, <1>2, <2>1, WaitFrame, KeepCacheSafe
<1>3. ASSUME NEW at \in {"raised", "closeRaised"}, Leave(t, at, NoClient),
             UNCHANGED <<cacheVars, connVars>>
      PROVE  Safe'
  <2>1. at \in PCs \ Critical /\ at # "use"
    BY PCNames DEF Critical
  <2> QED  BY <1>0, <1>3, <2>1, LeaveFrame, KeepCacheSafe
<1> QED  BY <1>1, <1>2, <1>3 DEF Check, Aclose

LEMMA CancelSafe ==
  ASSUME IInv, NEW t \in Tasks, Cancel(t)
  PROVE  Safe'
<1>1. "cancelled" \in PCs \ Critical
  BY PCNames DEF Critical
<1>2. /\ pc'[t] = "cancelled"
      /\ \A u \in Tasks : u # t => pc'[u] = pc[u] /\ held'[u] = held[u]
  BY DEF Cancel, IInv, TypeOK
<1>3. ASSUME NEW u \in Tasks, u # t, pc[u] \in Critical
      PROVE  holder' = u
  BY <1>3 DEF Cancel, Release, IInv, LockHeldInside
<1>4. LockHeldInside'
  BY <1>1, <1>2, <1>3 DEF LockHeldInside
<1> QED  BY <1>1, <1>2, <1>4, KeepCacheSafe DEF Cancel

LEMMA EnvironmentSafe ==
  ASSUME IInv, (\E c \in Clients : Drop(c)) \/ SwitchLoop
  PROVE  Safe'
<1>1. CASE \E c \in Clients : Drop(c)
  BY <1>1 DEF Drop, IInv, Safe, TypeOK, LockHeldInside, OwnerKnowsCache, NoConnectionLost, Gone,
              LoopRecorded, HeldOnOwnLoop, StartUndisturbed, cacheVars, lockVars
<1>2. CASE SwitchLoop
  BY <1>2 DEF SwitchLoop, IInv, Safe, AtRest, LockHeldInside, OwnerKnowsCache,
              NoConnectionLost, LoopRecorded, HeldOnOwnLoop, StartUndisturbed,
              cacheVars, lockVars, connVars
<1> QED  BY <1>1, <1>2

LEMMA InvariantStep == IInv /\ [Next]_vars => IInv'
<1> SUFFICES ASSUME IInv, [Next]_vars PROVE IInv'
  OBVIOUS
<1>1. TypeOK'
  BY TypeStep DEF IInv
<1>2. CASE \E t \in Tasks : Check(t) \/ Aclose(t)
  BY <1>1, <1>2, CallSafe DEF IInv, Safe
<1>3. CASE \E t \in Tasks : Proceed(t)
  BY <1>1, <1>3, ProceedSafe DEF IInv, Safe
<1>4. CASE \E t \in Tasks : Cancel(t)
  BY <1>1, <1>4, CancelSafe DEF IInv, Safe
<1>5. CASE (\E c \in Clients : Drop(c)) \/ SwitchLoop
  BY <1>1, <1>5, EnvironmentSafe DEF IInv, Safe
<1>6. CASE UNCHANGED vars
  BY <1>6 DEF vars, cacheVars, lockVars, connVars, IInv, TypeOK, LockHeldInside,
              OwnerKnowsCache, NoConnectionLost, LoopRecorded, HeldOnOwnLoop, StartUndisturbed
<1> QED  BY <1>2, <1>3, <1>4, <1>5, <1>6 DEF Next

LEMMA Invariant == Spec => []IInv
<1>1. Init => IInv
  <2> SUFFICES ASSUME Init PROVE IInv
    OBVIOUS
  <2>1. TypeOK
    BY EmptySeq, PCNames DEF Init, TypeOK
  <2> QED  BY <2>1 DEF Init, IInv, LockHeldInside, Critical, OwnerKnowsCache,
                       NoConnectionLost, Gone, LoopRecorded, HeldOnOwnLoop, StartUndisturbed
<1> QED  BY <1>1, InvariantStep, PTL DEF Spec

\* Only the owner of the lock is suspended inside a locked block, for any
\* number of tasks and any pattern of failures and cancellations.
THEOREM LockIsExclusive == Spec => []LockHeldInside
<1>1. IInv => LockHeldInside
  BY DEF IInv
<1> QED  BY <1>1, Invariant, PTL

\* A connection that may still be open is the cached client's, or that of a
\* client whose close was called and raised while its exceptions are suppressed.
THEOREM NothingLost == Spec => []NoConnectionLost
<1>1. IInv => NoConnectionLost
  BY DEF IInv
<1> QED  BY <1>1, Invariant, PTL

\* No call ever uses a client made on another event loop than its own.
THEOREM UsedOnOwnLoop == Spec => []OnOwnLoop
<1>1. IInv => OnOwnLoop
  BY DEF IInv, LoopRecorded, HeldOnOwnLoop, OnOwnLoop
<1> QED  BY <1>1, Invariant, PTL

\* Nobody closes or replaces a client while start() runs on it.
THEOREM NeverDisturbed == Spec => []StartUndisturbed
<1>1. IInv => StartUndisturbed
  BY DEF IInv
<1> QED  BY <1>1, Invariant, PTL

-----------------------------------------------------------------------------
(***************************************************************************)
(* ClientCache implements SharedClient.  The argument sorts the steps of a *)
(* call by their effect on the slot (Shape), then maps each sort.          *)
(***************************************************************************)

Closes(p) == p \in {"evict", "inval", "close"}

Others(t) == \A u \in Tasks : u # t => pc'[u] = pc[u] /\ held'[u] = held[u]

\* Keep the client, forget one whose close ended, or put a new one in.
Keeps   == client' = client /\ (client # NoClient => connLoop'[client] = connLoop[client])
Ends(t) == client' = NoClient /\ Closes(pc[t]) /\ ~Closes(pc'[t])
Opens(t) ==
    /\ client' \in Clients /\ client' # client
    /\ client = NoClient \/ Closes(pc[t])
    /\ ~Closes(pc'[t]) /\ connLoop'[client'] = loop

Shape(t) ==
    /\ UNCHANGED loop /\ Others(t)
    /\ Keeps \/ Ends(t) \/ Opens(t)
    /\ pc'[t] = "use" => pc[t] # "use" /\ client' = held'[t] /\ Alone(t)

LEMMA FailingShape ==
  ASSUME IInv, NEW t \in Tasks, NEW cached \in MaybeClient, NEW connNow,
         Failing(t, cached, connNow), client' = cached,
         UNCHANGED <<connLoop, loop>>,
         cached = client \/ (cached = NoClient /\ Closes(pc[t]))
  PROVE  /\ Shape(t)
         /\ pc'[t] = "failed" => client' = NoClient
<1>0. TypeOK /\ LockHeldInside
  BY DEF IInv
<1>1. /\ pc'[t] \in {"failed", "inval", "invalWait", "raised"} /\ Others(t)
      /\ pc'[t] = "failed" => cached = NoClient
      /\ cached = NoClient => pc'[t] # "inval"
  <2>1. CASE CanTake(t) /\ InvalidateBlock(t, cached, connNow)
    BY <1>0, <2>1 DEF InvalidateBlock, Leave, Enter, TypeOK, Others
  <2>2. CASE Wait(t, "invalWait") /\ UNCHANGED held
    BY <1>0, <2>2 DEF Wait, TypeOK, Others
  <2>3. CASE Leave(t, "raised", NoClient)
    BY <1>0, <2>3 DEF Leave, TypeOK, Others
  <2> QED  BY <2>1, <2>2, <2>3 DEF Failing
<1> QED  BY <1>1 DEF Shape, Keeps, Ends, Closes

LEMMA InstallShape ==
  ASSUME IInv, NEW t \in Tasks, Alone(t), pc[t] # "use", NEW connNow,
         NEW c \in Clients, Fresh(c), Install(t, c, connNow), UNCHANGED loop,
         client = NoClient \/ Closes(pc[t])
  PROVE  /\ Shape(t)
         /\ pc'[t] = "failed" => client' = NoClient
<1>1. pc'[t] \in {"ready", "use"} /\ held'[t] = c /\ Others(t)
  BY DEF IInv, Install, Enter, Leave, TypeOK, Others
<1>2. client' = c /\ connLoop'[c] = loop
  BY DEF IInv, Install, TypeOK
<1> QED  BY <1>1, <1>2 DEF Shape, Opens, Closes, Fresh

LEMMA CreateShape ==
  ASSUME IInv, NEW t \in Tasks, Alone(t), pc[t] # "use", NEW connNow,
         Create(t, connNow), UNCHANGED loop,
         client = NoClient \/ Closes(pc[t])
  PROVE  /\ Shape(t)
         /\ pc'[t] = "failed" => client' = NoClient
<1>0. TypeOK
  BY DEF IInv
<1>1. CASE \E c \in Clients : Fresh(c) /\ Install(t, c, connNow)
  BY <1>1, InstallShape
<1>2. CASE /\ Enter(t, "create", NoClient)
           /\ client' = NoClient /\ UNCHANGED connLoop
  <2>1. pc'[t] = "create" /\ Others(t)
    BY <1>0, <1>2 DEF Enter, TypeOK, Others
  <2> QED  BY <1>2, <2>1 DEF Shape, Keeps, Ends, Closes
<1>3. CASE /\ Failing(t, NoClient, connNow)
           /\ client' = NoClient /\ UNCHANGED connLoop
  BY <1>3, FailingShape DEF MaybeClient
<1> QED  BY <1>1, <1>2, <1>3 DEF Create

LEMMA EnsureBlockShape ==
  ASSUME IInv, NEW t \in Tasks, Mine(t), pc[t] # "use", EnsureBlock(t), UNCHANGED loop
  PROVE  /\ Shape(t)
         /\ pc'[t] = "failed" => client' = NoClient
<1>0. TypeOK /\ Alone(t)
  BY MineAlone DEF IInv
<1>1. CASE client = NoClient /\ Create(t, conn)
  BY <1>0, <1>1, CreateShape
<1>2. CASE Leave(t, "use", client) /\ UNCHANGED <<cacheVars, connVars>>
  <2>1. pc'[t] = "use" /\ held'[t] = client /\ Others(t)
    BY <1>0, <1>2 DEF Leave, TypeOK, Others
  <2> QED  BY <1>0, <1>2, <2>1 DEF Shape, Keeps, cacheVars, connVars
<1>3. CASE Enter(t, "evict", client) /\ UNCHANGED <<cacheVars, connLoop, started>>
  <2>1. pc'[t] = "evict" /\ Others(t)
    BY <1>0, <1>3 DEF Enter, TypeOK, Others
  <2> QED  BY <1>3, <2>1 DEF Shape, Keeps, cacheVars
<1> QED  BY <1>1, <1>2, <1>3 DEF EnsureBlock

\* Steps that only move the call and keep the cache.
LEMMA MoveShape ==
  ASSUME NEW t \in Tasks, NEW at \in PCs \ {"use", "failed"}, pc'[t] = at, Others(t),
         UNCHANGED <<cacheVars, connLoop, loop>>
  PROVE  /\ Shape(t)
         /\ pc'[t] = "failed" => client' = NoClient
  BY DEF Shape, Keeps, cacheVars

LEMMA CallShape ==
  ASSUME IInv, NEW t \in Tasks,
         Check(t) \/ Aclose(t) \/ Proceed(t) \/ Cancel(t)
  PROVE  /\ Shape(t)
         /\ pc'[t] = "failed" => client' = NoClient
<1>0. /\ TypeOK /\ LockHeldInside /\ UNCHANGED loop
      /\ client \in MaybeClient /\ NoClient \in MaybeClient
  BY DEF IInv, TypeOK, MaybeClient, Check, Aclose, Proceed, Cancel, EnsureResumes, Evicted,
         Created, Readied, Used, InvalidateResumes, Invalidated, AcloseResumes, Closed
<1>1. ASSUME CloseBlock(t)
      PROVE  /\ Shape(t)
             /\ pc'[t] = "failed" => client' = NoClient
  <2>1. pc'[t] \in {"returned", "close"} /\ Others(t)
    BY <1>0, <1>1 DEF CloseBlock, Leave, Enter, TypeOK, Others
  <2> QED  BY <1>0, <1>1, <2>1, PCNames, MoveShape DEF CloseBlock
<1>2. CASE Check(t) \/ Aclose(t)
  <2>1. pc[t] # "use"
    BY <1>2 DEF Check, Aclose, AtRest
  <2>2. CASE CanTake(t) /\ EnsureBlock(t)
    BY <1>0, <2>1, <2>2, EnsureBlockShape DEF CanTake, Mine
  <2>3. ASSUME NEW at \in {"ensureWait", "closeWait"}, Wait(t, at),
               UNCHANGED <<cacheVars, held, connVars>>
        PROVE  /\ Shape(t)
               /\ pc'[t] = "failed" => client' = NoClient
    <3>1. pc'[t] = at /\ Others(t)
      BY <1>0, <2>3 DEF Wait, TypeOK, Others
    <3> QED  BY <1>0, <2>3, <3>1, PCNames, MoveShape DEF connVars
  <2>4. ASSUME NEW at \in {"raised", "closeRaised"}, Leave(t, at, NoClient),
               UNCHANGED <<cacheVars, connVars>>
        PROVE  /\ Shape(t)
               /\ pc'[t] = "failed" => client' = NoClient
    <3>1. pc'[t] = at /\ Others(t)
      BY <1>0, <2>4 DEF Leave, TypeOK, Others
    <3> QED  BY <1>0, <2>4, <3>1, PCNames, MoveShape DEF connVars
  <2> QED  BY <1>1, <1>2, <2>2, <2>3, <2>4 DEF Check, Aclose
<1>3. CASE Cancel(t)
  <2>1. pc'[t] = "cancelled" /\ Others(t)
    BY <1>0, <1>3 DEF Cancel, TypeOK, Others
  <2> QED  BY <1>0, <1>3, <2>1, PCNames, MoveShape DEF Cancel, connVars
<1>4. CASE EnsureResumes(t)
  BY <1>0, <1>4, EnsureBlockShape DEF EnsureResumes, Mine
<1>5. CASE Evicted(t)
  <2>1. Alone(t) /\ Closes(pc[t]) /\ pc[t] # "use"
    BY <1>5, InsideAlone DEF Evicted, Critical, Closes
  <2> QED  BY <1>0, <1>5, <2>1, CreateShape DEF Evicted
<1>6. ASSUME BodyRaises(t)
      PROVE  /\ Shape(t)
             /\ pc'[t] = "failed" => client' = NoClient
  BY <1>0, <1>6, FailingShape DEF BodyRaises, cacheVars
<1>7. CASE Created(t)
  <2>1. Alone(t) /\ client = NoClient
    BY <1>7, InsideAlone DEF Created, Critical, IInv, OwnerKnowsCache
  <2>2. CASE \E c \in Clients : Fresh(c) /\ Install(t, c, conn)
    BY <1>0, <1>7, <2>1, <2>2, InstallShape DEF Created
  <2> QED  BY <1>6, <1>7, <2>2 DEF Created
<1>8. CASE Readied(t)
  <2>1. ASSUME Leave(t, "use", held[t]), UNCHANGED <<cacheVars, conn, connLoop>>
        PROVE  /\ Shape(t)
               /\ pc'[t] = "failed" => client' = NoClient
    <3>1. pc'[t] = "use" /\ held'[t] = held[t] /\ Others(t)
      BY <1>0, <2>1 DEF Leave, TypeOK, Others
    <3>2. Alone(t) /\ client = held[t] /\ pc[t] # "use"
      BY <1>8, InsideAlone DEF Readied, Critical, IInv, StartUndisturbed
    <3> QED  BY <1>0, <2>1, <3>1, <3>2 DEF Shape, Keeps, cacheVars
  <2> QED  BY <1>6, <1>8, <2>1 DEF Readied
<1>9. CASE Used(t)
  <2>1. ASSUME Leave(t, "returned", NoClient), UNCHANGED <<cacheVars, connVars>>
        PROVE  /\ Shape(t)
               /\ pc'[t] = "failed" => client' = NoClient
    <3>1. pc'[t] = "returned" /\ Others(t)
      BY <1>0, <2>1 DEF Leave, TypeOK, Others
    <3> QED  BY <1>0, <2>1, <3>1, PCNames, MoveShape DEF connVars
  <2> QED  BY <1>6, <1>9, <2>1 DEF Used
<1>10. CASE InvalidateResumes(t)
  <2>1. /\ pc'[t] \in {"failed", "inval"} /\ Others(t)
        /\ pc'[t] = "failed" => client = NoClient
    BY <1>0, <1>10 DEF InvalidateResumes, InvalidateBlock, Leave, Enter, TypeOK, Others
  <2> QED  BY <1>0, <1>10, <2>1 DEF InvalidateResumes, Shape, Keeps, cacheVars
<1>11. CASE Invalidated(t)
  <2>1. pc'[t] = "failed" /\ Others(t)
    BY <1>0, <1>11 DEF Invalidated, Leave, TypeOK, Others
  <2> QED  BY <1>0, <1>11, <2>1 DEF Invalidated, Shape, Ends, Closes
<1>12. CASE AcloseResumes(t)
  BY <1>1, <1>12 DEF AcloseResumes
<1>13. CASE Closed(t)
  <2>1. pc'[t] \in {"returned", "closeRaised"} /\ Others(t)
    BY <1>0, <1>13 DEF Closed, Leave, TypeOK, Others
  <2> QED  BY <1>0, <1>13, <2>1 DEF Closed, Shape, Keeps, Ends, Closes, cacheVars
<1> QED  BY <1>2, <1>3, <1>4, <1>5, <1>7, <1>8, <1>9, <1>10, <1>11, <1>12, <1>13 DEF Proceed

\* A call reports a failure only once the cache is without its client.
THEOREM FailureForgets == Spec => FailureForgetsClient
<1>1. ASSUME IInv, [Next]_vars, NEW t \in Tasks,
             pc[t] # "failed", pc'[t] = "failed", held[t] # NoClient
      PROVE  client' # held[t]
  <2>1. client' = NoClient
    <3>1. CASE \E u \in Tasks : Check(u) \/ Aclose(u) \/ Proceed(u) \/ Cancel(u)
      BY <1>1, <3>1, CallShape DEF Shape, Others
    <3>2. CASE (\E c \in Clients : Drop(c)) \/ SwitchLoop \/ UNCHANGED vars
      BY <1>1, <3>2 DEF Drop, SwitchLoop, vars
    <3> QED  BY <1>1, <3>1, <3>2 DEF Next
  <2> QED  BY <1>1, <2>1
<1>2. IInv /\ [Next]_vars =>
        [\A t \in Tasks :
           pc[t] # "failed" /\ pc'[t] = "failed" /\ held[t] # NoClient
              => client' # held[t]]_vars
  BY <1>1
<1> QED  BY <1>2, Invariant, PTL DEF Spec, FailureForgetsClient

-----------------------------------------------------------------------------
(* Only an aclose() that finds the cache empty, or has emptied it, returns; *)
(* a request that answers is the other step that ends in "returned".        *)

LEMMA FailingGoesOn ==
  ASSUME IInv, NEW t \in Tasks, NEW cached, NEW connNow, Failing(t, cached, connNow)
  PROVE  pc'[t] # "returned"
<1>1. pc \in [Tasks -> PCs]
  BY DEF IInv, TypeOK
<1> QED  BY <1>1 DEF Failing, InvalidateBlock, Leave, Enter, Wait

LEMMA CreateGoesOn ==
  ASSUME IInv, NEW t \in Tasks, NEW connNow, Create(t, connNow)
  PROVE  pc'[t] # "returned"
<1>1. pc \in [Tasks -> PCs]
  BY DEF IInv, TypeOK
<1>2. CASE Failing(t, NoClient, connNow)
  BY <1>2, FailingGoesOn
<1>3. CASE Enter(t, "create", NoClient)
  BY <1>1, <1>3 DEF Enter
<1>4. CASE \E c \in Clients : Install(t, c, connNow)
  BY <1>1, <1>4 DEF Install, Enter, Leave
<1> QED  BY <1>2, <1>3, <1>4 DEF Create

LEMMA EnsureGoesOn ==
  ASSUME IInv, NEW t \in Tasks, EnsureBlock(t)
  PROVE  pc'[t] # "returned"
<1>1. pc \in [Tasks -> PCs]
  BY DEF IInv, TypeOK
<1> QED  BY <1>1, CreateGoesOn DEF EnsureBlock, Enter, Leave

LEMMA ReturnsEmptied ==
  ASSUME IInv, NEW t \in Tasks, Check(t) \/ Aclose(t) \/ Proceed(t) \/ Cancel(t),
         pc[t] # "use", pc'[t] = "returned"
  PROVE  client' = NoClient
<1>1. pc \in [Tasks -> PCs]
  BY DEF IInv, TypeOK
<1>2. CASE CloseBlock(t)
  BY <1>1, <1>2 DEF CloseBlock, Enter, cacheVars
<1>3. CASE Aclose(t)
  BY <1>1, <1>2, <1>3 DEF Aclose, Wait, Leave
<1>4. CASE Check(t)
  BY <1>1, <1>4, EnsureGoesOn DEF Check, Wait, Leave
<1>5. CASE Cancel(t)
  BY <1>1, <1>5 DEF Cancel
<1>6. CASE EnsureResumes(t)
  BY <1>6, EnsureGoesOn DEF EnsureResumes
<1>7. CASE Evicted(t)
  BY <1>7, CreateGoesOn DEF Evicted
<1>8. CASE Created(t)
  BY <1>1, <1>8, FailingGoesOn DEF Created, BodyRaises, Install, Enter, Leave
<1>9. CASE Readied(t)
  BY <1>1, <1>9, FailingGoesOn DEF Readied, BodyRaises, Leave
<1>10. CASE Used(t)
  BY <1>10 DEF Used
<1>11. CASE InvalidateResumes(t)
  BY <1>1, <1>11 DEF InvalidateResumes, InvalidateBlock, Enter, Leave
<1>12. CASE Invalidated(t)
  BY <1>12 DEF Invalidated
<1>13. CASE AcloseResumes(t)
  BY <1>2, <1>13 DEF AcloseResumes
<1>14. CASE Closed(t)
  BY <1>1, <1>14 DEF Closed, Leave
<1> QED  BY <1>3, <1>4, <1>5, <1>6, <1>7, <1>8, <1>9, <1>10, <1>11, <1>12, <1>13, <1>14 DEF Proceed

\* When aclose() returns normally its client is forgotten, and NoConnectionLost
\* leaves no other but those whose own close raised and was suppressed.
THEOREM AcloseCloses == Spec => AcloseLeavesNothingOpen
<1>1. ASSUME IInv, IInv', [Next]_vars, NEW t \in Tasks,
             pc[t] # "use", pc[t] # "returned", pc'[t] = "returned", NEW c \in Clients
      PROVE  conn'[c] \in Gone
  <2>1. client' = NoClient
    <3>1. CASE Check(t) \/ Aclose(t) \/ Proceed(t) \/ Cancel(t)
      BY <1>1, <3>1, ReturnsEmptied
    <3>2. CASE \E u \in Tasks : u # t /\ (Check(u) \/ Aclose(u) \/ Proceed(u) \/ Cancel(u))
      BY <1>1, <3>2, CallShape DEF Shape, Others
    <3>3. CASE (\E d \in Clients : Drop(d)) \/ SwitchLoop \/ UNCHANGED vars
      BY <1>1, <3>3 DEF Drop, SwitchLoop, vars
    <3> QED  BY <1>1, <3>1, <3>2, <3>3 DEF Next
  <2>2. NoClient \notin Clients
    BY NullAssumption
  <2> QED  BY <1>1, <2>1, <2>2 DEF IInv, NoConnectionLost
<1>2. IInv /\ IInv' /\ [Next]_vars =>
        [\A t \in Tasks :
           pc[t] # "use" /\ pc[t] # "returned" /\ pc'[t] = "returned"
              => \A c \in Clients : conn'[c] \in Gone]_vars
  BY <1>1
<1> QED  BY <1>2, Invariant, PTL DEF Spec, AcloseLeavesNothingOpen

-----------------------------------------------------------------------------
\* The refinement mapping of Shared.
Closing  == \E t \in Tasks : pc[t] \in {"evict", "inval", "close"}
Home     == IF client = NoClient THEN NoLoop ELSE connLoop[client]
Borrowed == [t \in Tasks |-> IF pc[t] = "use" THEN held[t] ELSE NoClient]

LEMMA SlotMaps ==
  ASSUME IInv, IInv', NEW t \in Tasks, Shape(t)
  PROVE  Shared!SlotStep
<1>0. /\ Closes(pc[t]) => ~\E u \in Tasks : u # t /\ Closes(pc[u])
      /\ Closes(pc'[t]) => ~\E u \in Tasks : u # t /\ Closes(pc'[u])
  BY DEF IInv, LockHeldInside, Closes, Critical
<1>1. \A u \in Tasks : u # t => pc'[u] = pc[u]
  BY DEF Shape, Others
<1>2. /\ Closes(pc[t]) => Closing
      /\ Closes(pc'[t]) => Closing'
      /\ Closes(pc'[t]) /\ ~Closes(pc[t]) => ~Closing
      /\ Closes(pc[t]) /\ ~Closes(pc'[t]) => ~Closing'
      /\ (Closes(pc[t]) <=> Closes(pc'[t])) => (Closing' <=> Closing)
      /\ Closing \in BOOLEAN /\ Closing' \in BOOLEAN
  BY <1>0, <1>1 DEF Closing, Closes
<1>3. CASE Keeps
  <2>1. Home' = Home
    BY <1>3 DEF Home, Keeps
  <2>2. CASE Closes(pc[t]) <=> Closes(pc'[t])
    BY <1>2, <1>3, <2>1, <2>2 DEF Shared!SlotStep, Closing, Home, Keeps
  <2>3. CASE ~Closes(pc[t]) /\ Closes(pc'[t])
    <3>1. client # NoClient
      BY <1>3, <2>3 DEF Keeps, IInv, OwnerKnowsCache, Closes
    <3>2. ~Closing /\ Closing' = TRUE
      BY <1>2, <2>3 DEF Closing
    <3>3. Shared!BeginClose
      BY <1>3, <2>1, <3>1, <3>2 DEF Shared!BeginClose, Closing, Home, Keeps
    <3> QED  BY <3>3 DEF Shared!SlotStep
  <2>4. CASE Closes(pc[t]) /\ ~Closes(pc'[t])
    BY <1>2, <1>3, <2>1, <2>4 DEF Shared!SlotStep, Shared!AbortClose, Closing, Home, Keeps
  <2> QED  BY <2>2, <2>3, <2>4
<1>4. CASE Ends(t)
  BY <1>2, <1>4 DEF Shared!SlotStep, Shared!EndClose, Closing, Home, Ends
<1>5. CASE Opens(t)
  <2>1. ~Closing'
    <3>1. CASE Closes(pc[t])
      BY <1>2, <1>5, <3>1 DEF Opens
    <3>2. CASE client = NoClient
      BY <1>1, <1>5, <3>2 DEF Opens, Closing, Closes, IInv, OwnerKnowsCache
    <3> QED  BY <1>5, <3>1, <3>2 DEF Opens
  <2>2. Home' = loop
    BY <1>5, NullAssumption DEF Home, Opens
  <2>3. client = NoClient \/ Closing
    BY <1>2, <1>5 DEF Opens
  <2>4. PICK c \in Clients : c = client'
    BY <1>5 DEF Opens
  <2>5. Shared!Open(c)
    BY <1>5, <2>1, <2>2, <2>3, <2>4 DEF Shared!Open, Closing, Home, Opens
  <2> QED  BY <2>5 DEF Shared!SlotStep
<1> QED  BY <1>3, <1>4, <1>5 DEF Shape

LEMMA BorrowMaps ==
  ASSUME IInv, IInv', NEW t \in Tasks, Shape(t)
  PROVE  Shared!Borrow(t) \/ Shared!GiveBack(t) \/ UNCHANGED Borrowed
<1>1. \A u \in Tasks : u # t => Borrowed'[u] = Borrowed[u]
  BY DEF Shape, Others, Borrowed
<1>2. CASE pc'[t] = "use"
  <2>1. /\ pc[t] # "use" /\ client' = held'[t] /\ Alone(t)
        /\ held'[t] \in Clients /\ connLoop'[held'[t]] = loop
    BY <1>2 DEF Shape, IInv, TypeOK, HeldOnOwnLoop
  <2>2. client' # NoClient /\ Home' = loop
    BY <2>1, NullAssumption DEF Home
  <2>3. ~Closing'
    BY <1>2, <2>1 DEF Alone, Closing, Critical, Shape, Others
  <2>4. Borrowed[t] = NoClient /\ Borrowed' = [Borrowed EXCEPT ![t] = client']
    BY <1>1, <1>2, <2>1 DEF Borrowed
  <2> QED  BY <2>2, <2>3, <2>4 DEF Shared!Borrow, Borrowed, Home, Closing
<1>3. CASE pc[t] = "use" /\ pc'[t] # "use"
  <2>1. Borrowed[t] # NoClient /\ Borrowed' = [Borrowed EXCEPT ![t] = NoClient]
    BY <1>1, <1>3, NullAssumption DEF Borrowed, IInv, TypeOK
  <2> QED  BY <2>1 DEF Shared!GiveBack, Borrowed
<1>4. CASE pc[t] # "use" /\ pc'[t] # "use"
  BY <1>1, <1>4 DEF Borrowed
<1> QED  BY <1>2, <1>3, <1>4

\* Whatever the interleaving of checks, failures, cancellations and aclose()
\* calls, callers see a single slot that is replaced only by a closed client.
THEOREM Implements == Spec => SharedClientSpec
<1>1. Init => Shared!Init
  BY DEF Init, Shared!Init
<1>2. IInv /\ IInv' /\ [Next]_vars => [Shared!Next]_(Shared!vars)
  <2> SUFFICES ASSUME IInv, IInv', [Next]_vars PROVE [Shared!Next]_(Shared!vars)
    OBVIOUS
  <2>1. ASSUME NEW t \in Tasks, Check(t) \/ Aclose(t) \/ Proceed(t) \/ Cancel(t)
        PROVE  Shared!Next
    <3>1. Shape(t)
      BY <2>1, CallShape
    <3>2. Shared!SlotStep /\ UNCHANGED loop
      BY <3>1, SlotMaps DEF Shape
    <3>3. Shared!Borrow(t) \/ Shared!GiveBack(t) \/ UNCHANGED Borrowed
      BY <3>1, BorrowMaps
    <3> QED  BY <3>2, <3>3 DEF Shared!Next, Borrowed
  <2>2. CASE \E c \in Clients : Drop(c)
    BY <2>2 DEF Drop, Shared!vars, cacheVars
  <2>3. CASE SwitchLoop
    <3>1. \A t \in Tasks : pc[t] # "use"
      BY <2>3 DEF SwitchLoop, AtRest
    <3>2. Borrowed = [t \in Tasks |-> NoClient]
      BY <3>1 DEF Borrowed
    <3>3. loop' \in Loops /\ UNCHANGED <<client, Closing, Home, Borrowed>>
      BY <2>3 DEF SwitchLoop, cacheVars, connVars, Closing, Home, Borrowed
    <3> QED  BY <3>2, <3>3 DEF Shared!Next, Shared!MoveToLoop, Closing, Home, Borrowed
  <2>4. CASE UNCHANGED vars
    BY <2>4 DEF vars, cacheVars, lockVars, connVars, Shared!vars
  <2> QED  BY <2>1, <2>2, <2>3, <2>4 DEF Next
<1> QED  BY <1>1, <1>2, Invariant, PTL DEF Spec, SharedClientSpec, Shared!Spec
=============================================================================
