------------------------ MODULE FunctionPoolProofs ------------------------
(***************************************************************************)
(* Proofs about FunctionPool, for any sets of calls and any number of work *)
(* items and workers.                                                      *)
(***************************************************************************)
EXTENDS FunctionPool, TLAPS, SequenceTheorems

InQueue(i) == \E k \in 1..Len(queue) : queue[k] = i

(***************************************************************************)
(* The inductive invariant.  Whether an item may start, be reused or answer*)
(* a call depends on who still refers to it: the pool's queue, a worker, a *)
(* call.                                                                   *)
(***************************************************************************)

\* An item is queued once, until a worker takes it or finds it cancelled.
QueueExact ==
    /\ \A j, k \in 1..Len(queue) : queue[j] = queue[k] => j = k
    /\ \A i \in Items : InQueue(i) => state[i] \in {"queued", "cancelled"}
    /\ \A i \in Items : state[i] = "queued" => InQueue(i)

\* A pooled call has an item of its own, from its submission to its end.
ItemsOwned ==
    /\ \A t \in Pooled : pc[t] # "idle" <=> item[t] \in Items
    /\ \A t, u \in Pooled : item[t] \in Items /\ item[t] = item[u] => t = u
    /\ \A t \in Coroutines : item[t] = NoItem /\ pc[t] \in {"idle", "await", "stopping"}

\* How far the item of a call has come.
ItemFollowsCall ==
    \A t \in Pooled :
      /\ pc[t] \in {"await", "stopping"} => state[item[t]] \in {"queued", "running", "finished"}
      /\ pc[t] = "answered" => state[item[t]] = "finished"
      /\ pc[t] = "stopped" => state[item[t]] \in {"running", "finished", "cancelled"}

\* Nothing stays queued or finished that no call waits for.
NothingForgotten ==
    \A i \in Items :
      /\ state[i] \in {"queued", "finished"} => Awaited(i)
      /\ state[i] = "finished" => outcome[i] \in Outcomes

IInv == TypeOK /\ QueueExact /\ ItemsOwned /\ ItemFollowsCall /\ NothingForgotten
LEMMA TasksApart ==
  /\ Pooled \subseteq Tasks /\ Coroutines \subseteq Tasks /\ Pooled \intersect Coroutines = {}
  /\ Tasks = Pooled \union Coroutines
BY TasksAssumption DEF Tasks, Pooled

LEMMA ItemOf ==
  ASSUME IInv, NEW t \in Pooled, pc[t] # "idle"
  PROVE  /\ item[t] \in Items /\ Awaited(item[t])
         /\ \A u \in Pooled : u # t => item[u] # item[t]
<1>1. item[t] \in Items
  BY DEF IInv, ItemsOwned
<1>2. Awaited(item[t])
  BY TasksApart DEF Awaited
<1>3. \A u \in Pooled : u # t => item[u] # item[t]
  BY <1>1 DEF IInv, ItemsOwned
<1> QED  BY <1>1, <1>2, <1>3

LEMMA InitInvariant == Init => IInv
<1> SUFFICES ASSUME Init PROVE IInv
  OBVIOUS
<1>1. queue \in Seq(Items) /\ Len(queue) = 0
  BY DEF Init
<1>2. TypeOK
  BY <1>1, TasksApart DEF Init, TypeOK, PCs
<1>3. QueueExact
  BY <1>1 DEF Init, QueueExact, InQueue
<1>4. ItemsOwned
  BY NoItemAssumption, TasksApart DEF Init, ItemsOwned
<1>5. ItemFollowsCall /\ NothingForgotten
  BY TasksApart DEF Init, ItemFollowsCall, NothingForgotten
<1> QED  BY <1>2, <1>3, <1>4, <1>5 DEF IInv

-----------------------------------------------------------------------------
(* The workers *)

LEMMA WorkerTakesStep ==
  ASSUME IInv, WorkerTakes
  PROVE  IInv'
<1>1. queue \in Seq(Items) /\ queue # <<>>
  BY DEF IInv, TypeOK, WorkerTakes
<1>0. PICK h \in Items : h = Head(queue)
  BY <1>1, HeadTailProperties
<1>2. /\ h = queue[1] /\ queue' \in Seq(Items) /\ Len(queue') = Len(queue) - 1
      /\ Len(queue) \in Nat \ {0}
      /\ \A k \in 1..Len(queue') : queue'[k] = queue[k + 1]
  BY <1>0, <1>1, HeadTailProperties DEF WorkerTakes
<1>3. /\ \A i \in Items \ {h} : state'[i] = state[i]
      /\ state'[h] = IF state[h] = "queued" THEN "running"
                     ELSE IF Awaited(h) THEN state[h] ELSE "free"
      /\ state' \in [Items -> {"free", "queued", "running", "finished", "cancelled"}]
      /\ UNCHANGED <<pc, item, asked, result, outcome>>
  BY <1>0 DEF WorkerTakes, IInv, TypeOK
<1>4. state[h] \in {"queued", "cancelled"}
  BY <1>2 DEF IInv, QueueExact, InQueue
<1>5. /\ \A i \in Items \ {h} : InQueue(i)' <=> InQueue(i)
      /\ ~InQueue(h)'
  <2>1. ASSUME NEW i \in Items \ {h}, InQueue(i)
        PROVE  InQueue(i)'
    <3>1. PICK k \in 1..Len(queue) : queue[k] = i
      BY <2>1 DEF InQueue
    <3>2. k # 1 /\ k - 1 \in 1..Len(queue') /\ (k - 1) + 1 = k
      BY <1>2, <3>1
    <3> QED  BY <1>2, <3>1, <3>2 DEF InQueue
  <2>2. ASSUME NEW i \in Items, InQueue(i)'
        PROVE  i # h /\ InQueue(i)
    <3>1. PICK k \in 1..Len(queue') : queue'[k] = i
      BY <2>2 DEF InQueue
    <3>2. k + 1 \in 1..Len(queue) /\ 1 \in 1..Len(queue) /\ k + 1 # 1 /\ queue[k + 1] = i
      BY <1>2, <3>1
    <3> QED  BY <1>2, <3>2 DEF InQueue, IInv, QueueExact
  <2> QED  BY <2>1, <2>2, <1>2
<1>6. QueueExact'
  <2>1. \A j, k \in 1..Len(queue') : queue'[j] = queue'[k] => j = k
    <3>1. \A j \in 1..Len(queue') : j + 1 \in 1..Len(queue) /\ queue'[j] = queue[j + 1]
      BY <1>2
    <3>2. \A j, k \in 1..Len(queue') : j + 1 = k + 1 => j = k
      BY <1>2
    <3> QED  BY <3>1, <3>2 DEF IInv, QueueExact
  <2>2. \A i \in Items : InQueue(i)' => state'[i] \in {"queued", "cancelled"}
    BY <1>3, <1>5 DEF IInv, QueueExact
  <2>3. \A i \in Items : state'[i] = "queued" => InQueue(i)'
    BY <1>3, <1>4, <1>5 DEF IInv, QueueExact
  <2> QED  BY <2>1, <2>2, <2>3 DEF QueueExact
<1>7. TypeOK'
  BY <1>2, <1>3 DEF IInv, TypeOK
<1>8. ItemsOwned'
  BY <1>3 DEF IInv, ItemsOwned
<1>9. ItemFollowsCall'
  <2> SUFFICES ASSUME NEW t \in Pooled, pc[t] # "idle"
               PROVE  state'[item[t]] = state[item[t]]
                        \/ (state[item[t]] = "queued" /\ state'[item[t]] = "running")
    BY <1>3 DEF IInv, ItemFollowsCall
  <2> QED  BY <1>3, <1>4, ItemOf
<1>10. NothingForgotten'
  BY <1>3, <1>4 DEF IInv, NothingForgotten, Awaited
<1> QED  BY <1>6, <1>7, <1>8, <1>9, <1>10 DEF IInv

\* A step that leaves the queue alone and moves one item between the states of items
\* out of the queue.
LEMMA QueueKept ==
  ASSUME IInv, queue' = queue,
         \A i \in Items : \/ state'[i] = state[i]
                          \/ state[i] \notin {"queued", "cancelled"} \/ ~InQueue(i)
                          \/ (state[i] = "queued" /\ state'[i] = "cancelled"),
         \A i \in Items : state'[i] = "queued" => state[i] = "queued"
  PROVE  QueueExact'
<1>1. \A i \in Items : InQueue(i)' <=> InQueue(i)
  BY DEF InQueue
<1> QED  BY <1>1 DEF IInv, QueueExact

LEMMA FinishesStep ==
  ASSUME IInv, NEW i \in Items, Finishes(i)
  PROVE  IInv'
<1>1. state[i] = "running" /\ UNCHANGED <<pc, item, asked, result, queue>>
  BY DEF Finishes
<1>2. PICK o \in Outcomes : outcome' = [outcome EXCEPT ![i] = IF Awaited(i) THEN o ELSE "none"]
  BY DEF Finishes
<1>3. /\ state' \in [Items -> {"free", "queued", "running", "finished", "cancelled"}]
      /\ state'[i] = IF Awaited(i) THEN "finished" ELSE "free"
      /\ outcome' \in [Items -> Outcomes \union {"none"}]
      /\ outcome'[i] = IF Awaited(i) THEN o ELSE "none"
      /\ \A j \in Items : j # i => state'[j] = state[j] /\ outcome'[j] = outcome[j]
  BY <1>2 DEF Finishes, IInv, TypeOK
<1>4. \A t \in Pooled : pc[t] = "answered" => item[t] # i /\ item[t] \in Items
  BY <1>1, ItemOf DEF IInv, ItemFollowsCall
<1>5. TypeOK'
  BY <1>1, <1>3, <1>4 DEF IInv, TypeOK
<1>6. QueueExact'
  BY <1>1, <1>3, QueueKept
<1>7. ItemsOwned'
  BY <1>1 DEF IInv, ItemsOwned
<1>8. ItemFollowsCall'
  <2> SUFFICES ASSUME NEW t \in Pooled, pc[t] # "idle"
               PROVE  state'[item[t]] = state[item[t]]
                        \/ (state[item[t]] = "running" /\ state'[item[t]] = "finished")
    BY <1>1 DEF IInv, ItemFollowsCall
  <2> QED  BY <1>1, <1>3, ItemOf
<1>9. NothingForgotten'
  BY <1>1, <1>3 DEF IInv, NothingForgotten, Awaited
<1> QED  BY <1>5, <1>6, <1>7, <1>8, <1>9 DEF IInv

-----------------------------------------------------------------------------
(* The calls that wait for an item *)

LEMMA SubmitStep ==
  ASSUME IInv, NEW t \in Pooled, Submit(t)
  PROVE  IInv'
<1>0. PICK i \in Free : i = CHOOSE j \in Free : TRUE
  BY DEF Submit
<1>1. i \in Items /\ state[i] = "free"
  BY DEF Free
<1>2. /\ pc[t] = "idle" /\ t \in Tasks
      /\ state' = [state EXCEPT ![i] = "queued"] /\ queue' = Append(queue, i)
      /\ item' = [item EXCEPT ![t] = i]
      /\ pc' = [pc EXCEPT ![t] = "await"] /\ result' = [result EXCEPT ![t] = "none"]
      /\ UNCHANGED <<asked, outcome>>
  BY <1>0, TasksApart DEF Submit
<1>3. /\ state'[i] = "queued" /\ item'[t] = i /\ pc'[t] = "await"
      /\ \A j \in Items : j # i => state'[j] = state[j]
      /\ \A u \in Tasks : u # t => item'[u] = item[u] /\ pc'[u] = pc[u]
  BY <1>1, <1>2 DEF IInv, TypeOK
<1>4. ~Awaited(i) /\ ~InQueue(i)
  <2>1. \A u \in Pooled : item[u] # i
    <3>1. \A u \in Pooled : pc[u] # "idle" => state[item[u]] # "free"
      BY DEF IInv, ItemFollowsCall, TypeOK, PCs, Pooled, Tasks
    <3> QED  BY <1>1, <3>1 DEF IInv, ItemsOwned
  <2>2. \A u \in Coroutines : item[u] # i
    BY <1>1, NoItemAssumption DEF IInv, ItemsOwned
  <2> QED  BY <1>1, <2>1, <2>2, TasksApart DEF Awaited, IInv, QueueExact
<1>5. TypeOK'
  <2>1. queue' \in Seq(Items)
    BY <1>1, <1>2 DEF IInv, TypeOK
  <2> QED  BY <1>1, <1>2, <1>3, <2>1, TasksApart DEF IInv, TypeOK, PCs
<1>6. QueueExact'
  <2>1. /\ queue \in Seq(Items) /\ Len(queue) \in Nat /\ Len(queue') = Len(queue) + 1
        /\ queue'[Len(queue) + 1] = i
        /\ \A k \in 1..Len(queue) : queue'[k] = queue[k]
    BY <1>1, <1>2 DEF IInv, TypeOK
  <2>2. \A k \in 1..Len(queue') : k = Len(queue) + 1 \/ k \in 1..Len(queue)
    BY <2>1
  <2>3. \A k \in 1..Len(queue) : queue[k] # i
    BY <1>4 DEF InQueue
  <2>4. \A j, k \in 1..Len(queue') : queue'[j] = queue'[k] => j = k
    BY <2>1, <2>2, <2>3 DEF IInv, QueueExact
  <2>5. \A j \in Items : InQueue(j)' <=> InQueue(j) \/ j = i
    BY <2>1, <2>2 DEF InQueue
  <2> QED  BY <1>3, <2>4, <2>5 DEF IInv, QueueExact
<1>7. ItemsOwned'
  <2>1. \A u \in Pooled : item[u] # i
    BY <1>4, TasksApart DEF Awaited
  <2> QED  BY <1>1, <1>3, <2>1, TasksApart DEF IInv, ItemsOwned
<1>8. ItemFollowsCall'
  <2>1. \A u \in Pooled : u # t => state'[item'[u]] = state[item[u]] \/ pc[u] = "idle"
    BY <1>3, <1>4, ItemOf, TasksApart DEF Awaited
  <2> QED  BY <1>3, <2>1, TasksApart DEF IInv, ItemFollowsCall
<1>9. NothingForgotten'
  <2>1. Awaited(i)'
    BY <1>2, <1>3 DEF Awaited
  <2>2. \A j \in Items : Awaited(j) => Awaited(j)'
    <3> SUFFICES ASSUME NEW j \in Items, NEW u \in Tasks, item[u] = j
                 PROVE  \E v \in Tasks : item'[v] = j
      BY DEF Awaited
    <3>1. u # t
      BY <1>2 DEF IInv, ItemsOwned
    <3> QED  BY <1>3, <3>1
  <2> QED  BY <1>2, <1>3, <2>1, <2>2 DEF IInv, NothingForgotten
<1> QED  BY <1>5, <1>6, <1>7, <1>8, <1>9 DEF IInv

LEMMA DeliveredStep ==
  ASSUME IInv, NEW t \in Pooled, Delivered(t)
  PROVE  IInv'
<1>1. /\ pc[t] = "await" /\ state[item[t]] = "finished" /\ t \in Tasks
      /\ pc' = [pc EXCEPT ![t] = "answered"]
      /\ UNCHANGED <<item, asked, result, state, outcome, queue>>
  BY TasksApart DEF Delivered
<1>2. pc'[t] = "answered" /\ \A u \in Tasks : u # t => pc'[u] = pc[u]
  BY <1>1 DEF IInv, TypeOK
<1>3. item[t] \in Items /\ outcome[item[t]] \in Outcomes
  BY <1>1, ItemOf DEF IInv, NothingForgotten
<1>4. TypeOK'
  BY <1>1, <1>2, <1>3, TasksApart DEF IInv, TypeOK, PCs
<1>5. QueueExact' /\ NothingForgotten'
  BY <1>1 DEF IInv, QueueExact, InQueue, NothingForgotten, Awaited
<1>6. ItemsOwned' /\ ItemFollowsCall'
  BY <1>1, <1>2, <1>3, TasksApart DEF IInv, ItemsOwned, ItemFollowsCall
<1> QED  BY <1>4, <1>5, <1>6 DEF IInv

LEMMA StopStep ==
  ASSUME IInv, NEW t \in Tasks, NEW who \in {"timer", "caller"}, Stop(t, who)
  PROVE  IInv'
<1>1. /\ pc[t] \in {"await", "answered"} /\ asked' = [asked EXCEPT ![t] = who]
      /\ pc' = [pc EXCEPT ![t] = IF pc[t] = "await" THEN "stopping" ELSE pc[t]]
      /\ UNCHANGED <<item, result, state, outcome, queue>>
  BY DEF Stop
<1>2. /\ pc'[t] = IF pc[t] = "await" THEN "stopping" ELSE "answered"
      /\ \A u \in Tasks : u # t => pc'[u] = pc[u]
  BY <1>1 DEF IInv, TypeOK
<1>3. TypeOK'
  BY <1>1, <1>2, TasksApart DEF IInv, TypeOK, PCs
<1>4. QueueExact' /\ NothingForgotten'
  BY <1>1 DEF IInv, QueueExact, InQueue, NothingForgotten, Awaited
<1>5. ItemsOwned' /\ ItemFollowsCall'
  BY <1>1, <1>2, TasksApart DEF IInv, ItemsOwned, ItemFollowsCall
<1> QED  BY <1>3, <1>4, <1>5 DEF IInv

LEMMA PropagatesStep ==
  ASSUME IInv, NEW t \in Pooled, Propagates(t)
  PROVE  IInv'
<1> DEFINE i == item[t]
<1>1. /\ pc[t] = "stopping" /\ t \in Tasks /\ pc' = [pc EXCEPT ![t] = "stopped"]
      /\ state' = [state EXCEPT ![i] = IF state[i] = "queued" THEN "cancelled" ELSE state[i]]
      /\ UNCHANGED <<item, asked, result, outcome, queue>>
  BY TasksApart DEF Propagates
<1>2. i \in Items /\ \A u \in Pooled : u # t => item[u] # i
  BY <1>1, ItemOf
<1>3. /\ pc'[t] = "stopped" /\ \A u \in Tasks : u # t => pc'[u] = pc[u]
      /\ state'[i] = IF state[i] = "queued" THEN "cancelled" ELSE state[i]
      /\ \A j \in Items : j # i => state'[j] = state[j]
  BY <1>1, <1>2 DEF IInv, TypeOK
<1>4. TypeOK'
  BY <1>1, <1>2, <1>3, TasksApart DEF IInv, TypeOK, PCs
<1>5. QueueExact'
  BY <1>1, <1>2, <1>3, QueueKept
<1>6. ItemsOwned'
  BY <1>1, <1>2, <1>3, TasksApart DEF IInv, ItemsOwned
<1>7. ItemFollowsCall'
  <2>1. state[i] \in {"queued", "running", "finished"}
    BY <1>1 DEF IInv, ItemFollowsCall
  <2>2. \A u \in Pooled : u # t /\ pc[u] # "idle" => state'[item'[u]] = state[item[u]]
    BY <1>1, <1>2, <1>3, ItemOf
  <2> QED  BY <1>1, <1>3, <2>1, <2>2, TasksApart DEF IInv, ItemFollowsCall
<1>8. NothingForgotten'
  BY <1>1, <1>2, <1>3 DEF IInv, NothingForgotten, Awaited
<1> QED  BY <1>4, <1>5, <1>6, <1>7, <1>8 DEF IInv

LEMMA EndCallStep ==
  ASSUME IInv, NEW t \in Pooled, pc[t] \in {"answered", "stopped"},
         NEW r \in Outcomes \union {"timeout", "cancelled"}, EndCall(t, r)
  PROVE  IInv'
<1> DEFINE i == item[t]
           over == state[i] = "finished" \/ (state[i] = "cancelled" /\ ~InQueue(i))
<1>1. i \in Items /\ t \in Tasks /\ \A u \in Pooled : u # t => item[u] # i
  BY ItemOf, TasksApart
<1>2. /\ pc' = [pc EXCEPT ![t] = "idle"] /\ item' = [item EXCEPT ![t] = NoItem]
      /\ result' = [result EXCEPT ![t] = r] /\ asked' = [asked EXCEPT ![t] = "none"]
      /\ state' = [state EXCEPT ![i] = IF over THEN "free" ELSE state[i]]
      /\ outcome' = [outcome EXCEPT ![i] = IF over THEN "none" ELSE outcome[i]]
      /\ queue' = queue
  <2>1. (\A k \in DOMAIN queue : queue[k] # i) <=> ~InQueue(i)
    BY DEF InQueue, IInv, TypeOK
  <2> QED  BY <2>1 DEF EndCall
<1>3. /\ pc'[t] = "idle" /\ item'[t] = NoItem
      /\ \A u \in Tasks : u # t => pc'[u] = pc[u] /\ item'[u] = item[u]
      /\ state'[i] = IF over THEN "free" ELSE state[i]
      /\ \A j \in Items : j # i => state'[j] = state[j] /\ outcome'[j] = outcome[j]
  BY <1>1, <1>2 DEF IInv, TypeOK
<1>4. state[i] \in {"running", "finished", "cancelled"}
  BY DEF IInv, ItemFollowsCall
<1> HIDE DEF over
<1>5. TypeOK'
  <2>1. \A u \in Pooled : pc'[u] = "answered" => outcome'[item'[u]] \in Outcomes
    BY <1>1, <1>3, ItemOf, TasksApart DEF IInv, TypeOK
  <2> QED  BY <1>1, <1>2, <2>1 DEF IInv, TypeOK, PCs
<1>6. QueueExact'
  BY <1>1, <1>2, <1>3, <1>4, QueueKept DEF over
<1>7. ItemsOwned'
  BY <1>1, <1>3, NoItemAssumption, TasksApart DEF IInv, ItemsOwned
<1>8. ItemFollowsCall'
  <2>1. \A u \in Pooled : u # t /\ pc[u] # "idle" => state'[item'[u]] = state[item[u]]
    BY <1>1, <1>3, ItemOf, TasksApart
  <2> QED  BY <1>3, <2>1, TasksApart DEF IInv, ItemFollowsCall
<1>9. NothingForgotten'
  <2>1. \A j \in Items : j # i /\ Awaited(j) => Awaited(j)'
    <3> SUFFICES ASSUME NEW j \in Items, j # i, NEW u \in Tasks, item[u] = j
                 PROVE  \E v \in Tasks : item'[v] = j
      BY DEF Awaited
    <3>1. u # t
      OBVIOUS
    <3> QED  BY <1>3, <3>1
  <2>2. state'[i] \notin {"queued", "finished"}
    BY <1>3, <1>4 DEF over
  <2> QED  BY <1>1, <1>3, <2>1, <2>2 DEF IInv, NothingForgotten
<1> QED  BY <1>5, <1>6, <1>7, <1>8, <1>9 DEF IInv

\* A call that answers has the outcome of its item; an interrupted one none.
LEMMA ResumedWith ==
  ASSUME IInv, NEW t \in Pooled, Resumes(t)
  PROVE  /\ pc[t] \in {"answered", "stopped"}
         /\ \E r \in Outcomes \union {"timeout", "cancelled"} :
              /\ EndCall(t, r)
              /\ r \in Outcomes => pc[t] = "answered" /\ r = outcome[item[t]]
<1>1. CASE pc[t] = "answered" /\ EndCall(t, outcome[item[t]])
  BY <1>1 DEF IInv, TypeOK
<1>2. CASE pc[t] \in {"answered", "stopped"} /\ Ended(t)
  BY <1>2 DEF Ended, Outcomes
<1> QED  BY <1>1, <1>2 DEF Resumes

LEMMA ResumesStep ==
  ASSUME IInv, NEW t \in Pooled, Resumes(t)
  PROVE  IInv'
BY ResumedWith, EndCallStep

-----------------------------------------------------------------------------
(* Coroutine functions *)

\* A call of a coroutine function touches no item.
LEMMA CoroutineStep ==
  ASSUME IInv, NEW t \in Coroutines, Called(t) \/ CoroutineEnds(t) \/ Unwinds(t)
  PROVE  IInv'
<1>1. PICK r \in Outcomes \union {"none", "timeout", "cancelled"}, p \in {"idle", "await"} :
        /\ pc' = [pc EXCEPT ![t] = p] /\ result' = [result EXCEPT ![t] = r]
        /\ asked' \in {asked, [asked EXCEPT ![t] = "none"]}
        /\ UNCHANGED <<item, state, outcome, queue>>
  BY DEF Called, CoroutineEnds, Unwinds, Returns
<1>2. t \in Tasks /\ t \notin Pooled /\ pc'[t] = p /\ \A u \in Tasks : u # t => pc'[u] = pc[u]
  BY <1>1, TasksApart DEF IInv, TypeOK
<1>3. TypeOK'
  BY <1>1, <1>2, TasksApart DEF IInv, TypeOK, PCs
<1>4. QueueExact' /\ NothingForgotten'
  BY <1>1 DEF IInv, QueueExact, InQueue, NothingForgotten, Awaited
<1>5. ItemsOwned' /\ ItemFollowsCall'
  BY <1>1, <1>2, TasksApart DEF IInv, ItemsOwned, ItemFollowsCall
<1> QED  BY <1>3, <1>4, <1>5 DEF IInv

-----------------------------------------------------------------------------
(* The invariant and what follows from it *)

LEMMA InvariantStep == IInv /\ [Next]_vars => IInv'
<1> SUFFICES ASSUME IInv, [Next]_vars PROVE IInv'
  OBVIOUS
<1>1. CASE WorkerTakes \/ \E i \in Items : Finishes(i)
  BY <1>1, WorkerTakesStep, FinishesStep
<1>2. CASE \E t \in Pooled : Submit(t) \/ Delivered(t) \/ Propagates(t) \/ Resumes(t)
  BY <1>2, SubmitStep, DeliveredStep, PropagatesStep, ResumesStep
<1>3. CASE \E t \in Coroutines : Called(t) \/ CoroutineEnds(t) \/ Unwinds(t)
  BY <1>3, CoroutineStep
<1>4. CASE \E t \in Tasks : TimerFires(t) \/ CallerCancels(t)
  BY <1>4, StopStep DEF TimerFires, CallerCancels
<1>5. CASE UNCHANGED vars
  BY <1>5 DEF vars, IInv, TypeOK, QueueExact, InQueue, ItemsOwned, ItemFollowsCall,
              NothingForgotten, Awaited
<1> QED  BY <1>1, <1>2, <1>3, <1>4, <1>5 DEF Next

LEMMA Invariant == Spec => []IInv
BY InitInvariant, InvariantStep, PTL DEF Spec

\* Every state of the calls and of the pool is well-typed, and a call that is
\* answered has an outcome to report.
THEOREM TypeCorrect == Spec => []TypeOK
<1>1. IInv => TypeOK
  BY DEF IInv
<1> QED  BY <1>1, Invariant, PTL

StartsAwaited ==
    \A i \in Items : state[i] = "queued" /\ state'[i] = "running" => Awaited(i)

\* A function whose call has timed out or was cancelled while it was queued never
\* starts afterwards.
THEOREM NeverStartsLate == Spec => NoLateStart
<1>1. IInv /\ [Next]_vars => [StartsAwaited]_vars
  BY DEF IInv, NothingForgotten, StartsAwaited
<1>2. Spec => [][StartsAwaited]_vars
  BY <1>1, Invariant, PTL DEF Spec
<1> QED  BY <1>2 DEF NoLateStart, StartsAwaited

OwnAnswer ==
    \A t \in Pooled :
       pc[t] # "idle" /\ pc'[t] = "idle" /\ result'[t] \in Outcomes
         => /\ result'[t] = outcome[item[t]] /\ state[item[t]] = "finished"
            /\ \A u \in Pooled \ {t} : item[u] # item[t]

LEMMA OwnAnswerStep == IInv /\ Next => OwnAnswer
<1> SUFFICES ASSUME IInv, Next, NEW t \in Pooled, pc[t] # "idle", pc'[t] = "idle",
                    result'[t] \in Outcomes
             PROVE  /\ result'[t] = outcome[item[t]] /\ state[item[t]] = "finished"
                    /\ \A u \in Pooled \ {t} : item[u] # item[t]
  BY DEF OwnAnswer
<1>0. t \in Tasks /\ t \notin Coroutines /\ pc \in [Tasks -> PCs]
      /\ result \in [Tasks -> Outcomes \union {"none", "timeout", "cancelled"}]
  BY TasksApart DEF IInv, TypeOK
<1>1. CASE Resumes(t)
  <2>1. PICK r \in Outcomes \union {"timeout", "cancelled"} :
          EndCall(t, r) /\ (r \in Outcomes => pc[t] = "answered" /\ r = outcome[item[t]])
    BY <1>1, ResumedWith
  <2>2. result'[t] = r
    BY <1>0, <2>1 DEF EndCall
  <2>3. state[item[t]] = "finished"
    BY <2>1, <2>2 DEF IInv, ItemFollowsCall
  <2> QED  BY <2>1, <2>2, <2>3, ItemOf
<1>2. CASE WorkerTakes \/ \E i \in Items : Finishes(i)
  BY <1>2 DEF WorkerTakes, Finishes
<1>3. CASE \E u \in Pooled : Submit(u) \/ Delivered(u) \/ Propagates(u)
  BY <1>0, <1>3, TasksApart DEF Submit, Delivered, Propagates
<1>4. CASE \E u \in Pooled \ {t} : Resumes(u)
  <2>1. PICK u \in Pooled \ {t} : Resumes(u)
    BY <1>4
  <2>2. u \in Tasks /\ pc' = [pc EXCEPT ![u] = "idle"]
    BY <2>1, TasksApart DEF Resumes, Ended, EndCall
  <2> QED  BY <1>0, <2>1, <2>2
<1>5. CASE \E u \in Coroutines : Called(u) \/ CoroutineEnds(u) \/ Unwinds(u)
  BY <1>0, <1>5, TasksApart DEF Called, CoroutineEnds, Unwinds, Returns
<1>6. CASE \E u \in Tasks : TimerFires(u) \/ CallerCancels(u)
  BY <1>0, <1>6 DEF TimerFires, CallerCancels, Stop
<1> QED  BY <1>1, <1>2, <1>3, <1>4, <1>5, <1>6 DEF Next

\* A check reports the outcome of its own work item, which has finished and which
\* no other call waits for.
THEOREM AnswersAreOwn == Spec => AnswerIsItsOwn
<1>1. IInv /\ [Next]_vars => [OwnAnswer]_vars
  BY OwnAnswerStep
<1>2. Spec => [][OwnAnswer]_vars
  BY <1>1, Invariant, PTL DEF Spec
<1> QED  BY <1>2 DEF AnswerIsItsOwn, OwnAnswer
=============================================================================
