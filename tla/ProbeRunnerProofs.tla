------------------------- MODULE ProbeRunnerProofs -------------------------
(***************************************************************************)
(* Proofs about ProbeRunner, for any tasks, checks and probes, with and    *)
(* without a timeout.                                                      *)
(***************************************************************************)
EXTENDS ProbeRunner, TLAPS, SequenceTheorems, FiniteSetTheorems

Closing   == {"closing", "grace"}
RunStages == {"off", "start", "wait", "connect", "use"}
InLock    == {"connect", "close"}

(***************************************************************************)
(* The inductive invariant.  A close() that clears the registry loses no   *)
(* client because no run begins while it holds the lock: those under way   *)
(* were there when it took it (Overtaken), and every other check it has    *)
(* walked is closed (Walked).                                              *)
(***************************************************************************)

\* What a call awaits of which check: those of its probe, or the one in turn.
StagesFit ==
    \A t \in Tasks : \A c \in Checks :
      /\ call[t] \notin {"running", "closing"} => stage[t][c] = "off"
      /\ call[t] = "running" =>
           stage[t][c] \in RunStages /\ (stage[t][c] # "off" => c \in probe[t])
      /\ call[t] = "closing" =>
           /\ stage[t][c] \in {"off", "closeWait", "close"}
           /\ stage[t][c] # "off" => cursor[t] <= Len(registry) /\ registry[cursor[t]] = c

CursorsStart == \A t \in Tasks : call[t] = "closing" => cursor[t] >= 1

LocksHeld ==
    \A t \in Tasks :
      /\ call[t] \in Closing => lock.holder = t
      /\ \A c \in Checks :
           /\ stage[t][c] \in InLock => clientLock[c].holder = t
           /\ stage[t][c] = "close" => conn[c] = "half"

ProbesTracked == \A t \in Tasks : call[t] = "running" => probe[t] \subseteq ids \union passed

Overtaken ==
    \A t, u \in Tasks : call[t] \in Closing /\ call[u] = "running" => probe[u] \subseteq passed

\* The checks of the registry that a close() is through with.
Behind(t) == {k \in 1..Len(registry) : call[t] = "grace" \/ k < cursor[t]}

Walked ==
    \A t \in Tasks : call[t] \in Closing =>
      \A k \in Behind(t) : conn[registry[k]] = "open" => registry[k] \in passed

Owned == \A c \in Checks : conn[c] = "open" => c \in ids \union passed

IInv ==
    /\ TypeOK /\ RegistryExact
    /\ StagesFit /\ CursorsStart /\ LocksHeld
    /\ ProbesTracked /\ Overtaken /\ Walked /\ Owned
-----------------------------------------------------------------------------
(* The lock operators *)

LEMMA WithoutTyped ==
  ASSUME NEW q \in Seq(Tasks), NEW t
  PROVE  Without(q, t) \in Seq(Tasks)
<1>1. CASE \E k \in DOMAIN q : q[k] = t
  <2>1. PICK i \in 1..Len(q) : i = CHOOSE k \in DOMAIN q : q[k] = t
    BY <1>1
  <2>2. SubSeq(q, 1, i-1) \in Seq(Tasks) /\ SubSeq(q, i+1, Len(q)) \in Seq(Tasks)
    BY SubSeqProperties, ElementOfSeq, LenProperties
  <2> QED  BY <1>1, <2>1, <2>2, ConcatProperties DEF Without, RemoveAt
<1>2. CASE ~\E k \in DOMAIN q : q[k] = t
  BY <1>2 DEF Without
<1> QED  BY <1>1, <1>2

LEMMA AskedLock ==
  ASSUME NEW l \in Locks, NEW t \in Tasks
  PROVE  /\ Asked(l, t) \in Locks
         /\ IsFree(l) => Asked(l, t).holder = t
         /\ ~IsFree(l) => Asked(l, t).holder = l.holder
<1>1. Append(l.queue, t) \in Seq(Tasks)
  BY DEF Locks
<1> QED  BY <1>1, NoTaskAssumption DEF Asked, IsFree, Locks

LEMMA LeftLock ==
  ASSUME NEW l \in Locks, NEW t \in Tasks
  PROVE  /\ Left(l, t) \in Locks
         /\ l.holder # t => Left(l, t).holder = l.holder
<1>1. CASE l.holder # t
  <2>1. Without(l.queue, t) \in Seq(Tasks)
    BY WithoutTyped DEF Locks
  <2> QED  BY <1>1, <2>1 DEF Left, Locks
<1>2. CASE l.holder = t /\ l.queue = <<>>
  BY <1>2 DEF Left, FreeLock, Locks
<1>3. CASE l.holder = t /\ l.queue # <<>>
  <2>1. Head(l.queue) \in Tasks /\ Tail(l.queue) \in Seq(Tasks)
    BY <1>3, HeadTailProperties DEF Locks
  <2> QED  BY <1>3, <2>1 DEF Left, Locks
<1> QED  BY <1>1, <1>2, <1>3

LEMMA StageMoves ==
  ASSUME TypeOK, NEW t \in Tasks, NEW c \in Checks, NEW s \in Stages, stage' = AtStage(t, c, s)
  PROVE  /\ stage' \in [Tasks -> [Checks -> Stages]] /\ stage'[t][c] = s
         /\ \A d \in Checks : d # c => stage'[t][d] = stage[t][d]
         /\ \A u \in Tasks : u # t => stage'[u] = stage[u]
BY DEF TypeOK, AtStage

\* ids is the registry as a set.
LEMMA InRegistry ==
  ASSUME RegistryExact, NEW c
  PROVE  c \in ids <=> \E k \in DOMAIN registry : registry[k] = c
BY DEF RegistryExact

\* Who has a lock is alone in it.
LEMMA AloneClosing ==
  ASSUME LocksHeld, NEW t \in Tasks, lock.holder = t \/ IsFree(lock)
  PROVE  \A u \in Tasks : call[u] \in Closing => u = t
BY NoTaskAssumption DEF LocksHeld, IsFree

LEMMA AloneInLock ==
  ASSUME LocksHeld, NEW t \in Tasks, NEW c \in Checks,
         clientLock[c].holder = t \/ IsFree(clientLock[c])
  PROVE  \A u \in Tasks : stage[u][c] \in InLock => u = t
BY NoTaskAssumption DEF LocksHeld, IsFree

LEMMA InitInvariant == Init => IInv
<1> SUFFICES ASSUME Init PROVE IInv
  OBVIOUS
<1>1. FreeLock \in Locks
  BY DEF FreeLock, Locks
<1>2. TypeOK
  BY <1>1 DEF Init, TypeOK, Calls, Stages
<1>3. RegistryExact
  BY DEF Init, RegistryExact
<1>4. StagesFit /\ CursorsStart /\ LocksHeld
  BY DEF Init, StagesFit, CursorsStart, LocksHeld, Closing, InLock
<1>5. ProbesTracked /\ Overtaken /\ Walked /\ Owned
  BY DEF Init, ProbesTracked, Overtaken, Walked, Owned, Closing
<1> QED  BY <1>2, <1>3, <1>4, <1>5 DEF IInv

-----------------------------------------------------------------------------
(* A step of one check of a run *)

\* Check c of the run of t goes on to s, which leaves its client's lock as l.
CheckMove(t, c, s, l) ==
    /\ call[t] = "running" /\ c \in probe[t]
    /\ stage' = AtStage(t, c, s) /\ OnlyCheck
    /\ clientLock' = [clientLock EXCEPT ![c] = l]
    /\ s = "connect" => l.holder = t
    /\ \A u \in Tasks : u # t /\ stage[u][c] \in InLock => l.holder = u
    /\ conn' \in [Checks -> {"none", "open", "half"}]
    /\ \A d \in Checks : d # c => conn'[d] = conn[d]
    /\ conn'[c] = conn[c] \/ \A u \in Tasks : u # t => stage[u][c] # "close"

LEMMA CheckMoveStep ==
  ASSUME IInv, NEW t \in Tasks, NEW c \in Checks, NEW s \in RunStages, NEW l \in Locks,
         CheckMove(t, c, s, l)
  PROVE  IInv'
<1> USE DEF CheckMove
<1>1. /\ stage' \in [Tasks -> [Checks -> Stages]] /\ stage'[t][c] = s
      /\ \A d \in Checks : d # c => stage'[t][d] = stage[t][d]
      /\ \A u \in Tasks : u # t => stage'[u] = stage[u]
  BY StageMoves DEF RunStages, Stages, IInv
<1>2. UNCHANGED <<registry, ids, lock, call, probe, cursor, passed>>
  BY DEF OnlyCheck
<1>3. clientLock' \in [Checks -> Locks] /\ clientLock'[c] = l
      /\ \A d \in Checks : d # c => clientLock'[d] = clientLock[d]
  BY DEF IInv, TypeOK
<1>4. TypeOK' /\ RegistryExact' /\ CursorsStart'
  BY <1>1, <1>2, <1>3 DEF IInv, TypeOK, RegistryExact, CursorsStart
<1>5. StagesFit'
  <2> SUFFICES ASSUME NEW u \in Tasks, NEW d \in Checks
               PROVE  StagesFit!(u)!(d)'
    BY DEF StagesFit
  <2>1. CASE u = t /\ d = c
    BY <1>1, <1>2, <2>1 DEF RunStages
  <2>2. CASE u # t \/ d # c
    BY <1>1, <1>2, <2>2 DEF IInv, StagesFit
  <2> QED  BY <2>1, <2>2
<1>6. LocksHeld'
  <2>1. \A u \in Tasks : call'[u] \in Closing => lock'.holder = u
    BY <1>2 DEF IInv, LocksHeld
  <2>2. ASSUME NEW u \in Tasks, NEW d \in Checks
        PROVE  /\ stage'[u][d] \in InLock => clientLock'[d].holder = u
               /\ stage'[u][d] = "close" => conn'[d] = "half"
    <3>1. CASE d # c
      BY <1>1, <1>3, <3>1 DEF IInv, LocksHeld
    <3>2. CASE d = c /\ u = t
      BY <1>1, <1>3, <3>2 DEF InLock, RunStages
    <3>3. CASE d = c /\ u # t
      BY <1>1, <1>3, <3>3 DEF IInv, LocksHeld, InLock
    <3> QED  BY <3>1, <3>2, <3>3
  <2> QED  BY <2>1, <2>2 DEF LocksHeld
<1>7. ProbesTracked' /\ Overtaken'
  BY <1>2 DEF IInv, ProbesTracked, Overtaken
<1>8. Walked'
  <2> SUFFICES ASSUME NEW u \in Tasks, call[u] \in Closing, NEW k \in Behind(u),
                      conn'[registry[k]] = "open"
               PROVE  registry[k] \in passed
    BY <1>2 DEF Walked, Behind
  <2>1. registry[k] \in Checks
    BY DEF Behind, IInv, TypeOK
  <2>2. CASE registry[k] = c
    BY <2>2 DEF IInv, Overtaken
  <2>3. CASE registry[k] # c
    BY <2>1, <2>3 DEF IInv, Walked
  <2> QED  BY <2>2, <2>3
<1>9. Owned'
  BY <1>2 DEF IInv, Owned, ProbesTracked
<1> QED  BY <1>4, <1>5, <1>6, <1>7, <1>8, <1>9 DEF IInv

\* A check of a run belongs to a call that is running.
LEMMA RunningCheck ==
  ASSUME IInv, NEW t \in Tasks, NEW c \in Checks,
         stage[t][c] \in {"start", "wait", "connect", "use"}
  PROVE  call[t] = "running" /\ c \in probe[t]
BY DEF IInv, TypeOK, Calls, StagesFit

LEMMA EnsureBlockStep ==
  ASSUME IInv, NEW t \in Tasks, NEW c \in Checks, NEW l \in Locks,
         call[t] = "running", c \in probe[t], OnlyCheck, conn' = conn,
         EnsureBlock(t, c, l), l.holder = t,
         \A u \in Tasks : stage[u][c] \in InLock => u = t
  PROVE  IInv'
<1>1. Left(l, t) \in Locks /\ conn' \in [Checks -> {"none", "open", "half"}]
  BY LeftLock DEF IInv, TypeOK
<1>2. CASE conn[c] # "none"
  BY <1>1, <1>2, CheckMoveStep DEF EnsureBlock, CheckMove, RunStages
<1>3. CASE conn[c] = "none"
  BY <1>1, <1>3, CheckMoveStep DEF EnsureBlock, CheckMove, RunStages
<1> QED  BY <1>2, <1>3

LEMMA CheckStartsStep ==
  ASSUME IInv, NEW t \in Tasks, NEW c \in Checks, CheckStarts(t, c)
  PROVE  IInv'
<1>0. call[t] = "running" /\ c \in probe[t] /\ OnlyCheck /\ conn' = conn
  BY RunningCheck DEF CheckStarts
<1>1. clientLock[c] \in Locks /\ conn' \in [Checks -> {"none", "open", "half"}]
  BY <1>0 DEF IInv, TypeOK
<1>2. PICK l \in Locks : l = Asked(clientLock[c], t)
  BY <1>1, AskedLock
<1>3. /\ IsFree(clientLock[c]) => l.holder = t
      /\ ~IsFree(clientLock[c]) => l.holder = clientLock[c].holder
  BY <1>1, <1>2, AskedLock
<1>4. CASE l.holder = t
  <2>1. EnsureBlock(t, c, l)
    BY <1>2, <1>4 DEF CheckStarts
  <2>2. \A u \in Tasks : stage[u][c] \in InLock => u = t
    BY <1>3, <1>4, AloneInLock DEF IInv
  <2> QED  BY <1>0, <1>4, <2>1, <2>2, EnsureBlockStep
<1>5. CASE l.holder # t
  <2>1. stage' = AtStage(t, c, "wait") /\ clientLock' = [clientLock EXCEPT ![c] = l]
    BY <1>2, <1>5 DEF CheckStarts
  <2>2. \A u \in Tasks : stage[u][c] \in InLock => l.holder = u
    BY <1>3, <1>5 DEF IInv, LocksHeld
  <2> QED  BY <1>0, <1>1, <2>1, <2>2, CheckMoveStep DEF CheckMove, RunStages
<1> QED  BY <1>4, <1>5

LEMMA CheckResumesStep ==
  ASSUME IInv, NEW t \in Tasks, NEW c \in Checks, CheckResumes(t, c)
  PROVE  IInv'
<1>1. call[t] = "running" /\ c \in probe[t]
  BY RunningCheck DEF CheckResumes
<1>2. clientLock[c] \in Locks /\ \A u \in Tasks : stage[u][c] \in InLock => u = t
  BY AloneInLock DEF IInv, TypeOK, CheckResumes
<1> QED  BY <1>1, <1>2, EnsureBlockStep DEF CheckResumes

LEMMA ConnectsStep ==
  ASSUME IInv, NEW t \in Tasks, NEW c \in Checks, Connects(t, c)
  PROVE  IInv'
<1>1. call[t] = "running" /\ c \in probe[t] /\ clientLock[c].holder = t
  BY RunningCheck DEF Connects, IInv, LocksHeld, InLock
<1>2. PICK l \in Locks : l = Left(clientLock[c], t)
  BY LeftLock DEF IInv, TypeOK
<1>7. \A u \in Tasks : stage[u][c] \in InLock => u = t
  BY <1>1, AloneInLock DEF IInv
<1>3. PICK s \in {"use", "off"} : stage' = AtStage(t, c, s)
  BY DEF Connects
<1>4. /\ conn' \in [Checks -> {"none", "open", "half"}]
      /\ \A d \in Checks : d # c => conn'[d] = conn[d]
  BY DEF Connects, IInv, TypeOK
<1>5. OnlyCheck /\ clientLock' = [clientLock EXCEPT ![c] = l]
  BY <1>2 DEF Connects
<1>6. /\ s \in RunStages /\ (s = "connect" => l.holder = t)
      /\ \A u \in Tasks : u # t /\ stage[u][c] \in InLock => l.holder = u
      /\ \A u \in Tasks : u # t => stage[u][c] # "close"
  BY <1>3, <1>7 DEF RunStages, InLock
<1>8. CheckMove(t, c, s, l)
  BY <1>1, <1>3, <1>4, <1>5, <1>6 DEF CheckMove
<1> QED  BY <1>6, <1>8, CheckMoveStep

LEMMA AnswersStep ==
  ASSUME IInv, NEW t \in Tasks, NEW c \in Checks, Answers(t, c)
  PROVE  IInv'
<1>1. call[t] = "running" /\ c \in probe[t]
  BY RunningCheck DEF Answers
<1>2. PICK l \in Locks : l = clientLock[c] /\ clientLock' = [clientLock EXCEPT ![c] = l]
  BY DEF Answers, IInv, TypeOK
<1>3. /\ conn' \in [Checks -> {"none", "open", "half"}]
      /\ \A d \in Checks : d # c => conn'[d] = conn[d]
  BY DEF Answers, IInv, TypeOK
<1>4. conn'[c] = conn[c] \/ \A u \in Tasks : u # t => stage[u][c] # "close"
  BY AloneInLock DEF Answers, IInv, InLock
<1>5. \A u \in Tasks : stage[u][c] \in InLock => l.holder = u
  BY <1>2 DEF IInv, LocksHeld
<1>6. PICK s \in RunStages : s = "off" /\ stage' = AtStage(t, c, s)
  BY DEF Answers, RunStages
<1>7. OnlyCheck /\ (s = "connect" => l.holder = t)
  BY <1>6 DEF Answers
<1>8. CheckMove(t, c, s, l)
  BY <1>1, <1>2, <1>3, <1>4, <1>5, <1>6, <1>7 DEF CheckMove
<1> QED  BY <1>8, CheckMoveStep

-----------------------------------------------------------------------------
(* A step of a close() at the check in turn *)

\* The close() of t, at check c, goes on to s, which leaves the client's lock as l.
CloseMove(t, c, s, l) ==
    /\ InLoop(t) /\ c = registry[cursor[t]]
    /\ stage' = AtStage(t, c, s)
    /\ clientLock' = [clientLock EXCEPT ![c] = l]
    /\ s = "close" => l.holder = t /\ conn'[c] = "half"
    /\ \A u \in Tasks : u # t /\ stage[u][c] \in InLock => l.holder = u
    /\ conn' \in [Checks -> {"none", "open", "half"}]
    /\ \A d \in Checks : d # c => conn'[d] = conn[d]
    /\ conn'[c] = "open" => conn[c] = "open"
    /\ conn'[c] = conn[c] \/ \A u \in Tasks : u # t => stage[u][c] # "close"
    /\ \/ s # "off" /\ cursor' = cursor
       \/ s = "off" /\ cursor' = [cursor EXCEPT ![t] = @ + 1] /\ conn'[c] # "open"
    /\ UNCHANGED <<registry, ids, lock, call, probe, passed>>

LEMMA CloseMoveStep ==
  ASSUME IInv, NEW t \in Tasks, NEW c \in Checks, NEW s \in {"off", "closeWait", "close"},
         NEW l \in Locks, CloseMove(t, c, s, l)
  PROVE  IInv'
<1> USE DEF CloseMove
<1>1. /\ stage' \in [Tasks -> [Checks -> Stages]] /\ stage'[t][c] = s
      /\ \A d \in Checks : d # c => stage'[t][d] = stage[t][d]
      /\ \A u \in Tasks : u # t => stage'[u] = stage[u]
  BY StageMoves DEF Stages, IInv
<1>2. UNCHANGED <<registry, ids, lock, call, probe, passed>>
  OBVIOUS
<1>3. clientLock' \in [Checks -> Locks] /\ clientLock'[c] = l
      /\ \A d \in Checks : d # c => clientLock'[d] = clientLock[d]
  BY DEF IInv, TypeOK
<1>4. /\ cursor' \in [Tasks -> Nat] /\ \A u \in Tasks : cursor'[u] >= cursor[u]
      /\ \A u \in Tasks : u # t => cursor'[u] = cursor[u]
      /\ s # "off" => cursor'[t] = cursor[t]
      /\ cursor'[t] # cursor[t] => cursor'[t] = cursor[t] + 1 /\ conn'[c] # "open"
  <2>0. cursor \in [Tasks -> Nat]
    BY DEF IInv, TypeOK
  <2>1. CASE s # "off" /\ cursor' = cursor
    BY <2>0, <2>1
  <2>2. CASE s = "off" /\ cursor' = [cursor EXCEPT ![t] = @ + 1] /\ conn'[c] # "open"
    BY <2>0, <2>2
  <2>3. \/ s # "off" /\ cursor' = cursor
        \/ s = "off" /\ cursor' = [cursor EXCEPT ![t] = @ + 1] /\ conn'[c] # "open"
    OBVIOUS
  <2> QED  BY <2>1, <2>2, <2>3
<1>5. TypeOK' /\ RegistryExact' /\ CursorsStart'
  BY <1>1, <1>2, <1>3, <1>4 DEF IInv, TypeOK, RegistryExact, CursorsStart
<1>6. call[t] = "closing" /\ registry[cursor[t]] = c /\ cursor[t] <= Len(registry)
  BY DEF InLoop
<1>7. StagesFit'
  <2> SUFFICES ASSUME NEW u \in Tasks, NEW d \in Checks
               PROVE  StagesFit!(u)!(d)'
    BY DEF StagesFit
  <2>1. CASE u = t /\ d = c
    BY <1>1, <1>2, <1>4, <1>6, <2>1
  <2>2. CASE u = t /\ d # c
    BY <1>1, <1>2, <1>6, <2>2 DEF IInv, StagesFit
  <2>3. CASE u # t
    BY <1>1, <1>2, <1>4, <2>3 DEF IInv, StagesFit
  <2> QED  BY <2>1, <2>2, <2>3
<1>8. LocksHeld'
  <2>1. \A u \in Tasks : call'[u] \in Closing => lock'.holder = u
    BY <1>2 DEF IInv, LocksHeld
  <2>2. ASSUME NEW u \in Tasks, NEW d \in Checks
        PROVE  /\ stage'[u][d] \in InLock => clientLock'[d].holder = u
               /\ stage'[u][d] = "close" => conn'[d] = "half"
    <3>1. CASE d # c
      BY <1>1, <1>3, <3>1 DEF IInv, LocksHeld
    <3>2. CASE d = c /\ u = t
      BY <1>1, <1>3, <3>2 DEF InLock
    <3>3. CASE d = c /\ u # t
      BY <1>1, <1>3, <3>3 DEF IInv, LocksHeld, InLock
    <3> QED  BY <3>1, <3>2, <3>3
  <2> QED  BY <2>1, <2>2 DEF LocksHeld
<1>9. ProbesTracked' /\ Overtaken'
  BY <1>2 DEF IInv, ProbesTracked, Overtaken
<1>10. Walked'
  <2> SUFFICES ASSUME NEW u \in Tasks, call[u] \in Closing, NEW k \in Behind(u)',
                      conn'[registry[k]] = "open"
               PROVE  registry[k] \in passed
    BY <1>2 DEF Walked
  <2>1. k \in 1..Len(registry) /\ registry[k] \in Checks
    BY <1>2 DEF Behind, IInv, TypeOK
  <2>2. conn[registry[k]] = "open"
    BY <2>1
  <2>3. CASE k \in Behind(u)
    BY <2>2, <2>3 DEF IInv, Walked
  <2>4. CASE k \notin Behind(u)
    <3>1. u = t /\ cursor'[t] # cursor[t] /\ k = cursor[t]
      BY <1>2, <1>4, <2>1, <2>4 DEF Behind, IInv, TypeOK
    <3> QED  BY <1>4, <1>6, <3>1
  <2> QED  BY <2>3, <2>4
<1>11. Owned'
  BY <1>2 DEF IInv, Owned
<1> QED  BY <1>5, <1>7, <1>8, <1>9, <1>10, <1>11 DEF IInv

LEMMA CloseBlockStep ==
  ASSUME IInv, NEW t \in Tasks, NEW c \in Checks, NEW l \in Locks, l.holder = t,
         InLoop(t), c = registry[cursor[t]], CloseBlock(t, c, l),
         \A u \in Tasks : stage[u][c] \in InLock => u = t,
         UNCHANGED <<registry, ids, lock, call, probe, passed>>
  PROVE  IInv'
<1>1. PICK m \in Locks : m = Left(l, t)
  BY LeftLock
<1>2. \A u \in Tasks : u # t => stage[u][c] \notin InLock /\ stage[u][c] # "close"
  BY DEF InLock
<1>3. CASE conn[c] = "none"
  <2>1. CloseMove(t, c, "off", m)
    BY <1>1, <1>2, <1>3 DEF CloseMove, CloseBlock, IInv, TypeOK
  <2> QED  BY <2>1, CloseMoveStep
<1>4. CASE conn[c] # "none"
  <2>1. CloseMove(t, c, "close", l)
    BY <1>2, <1>4 DEF CloseMove, CloseBlock, IInv, TypeOK
  <2> QED  BY <2>1, CloseMoveStep
<1> QED  BY <1>3, <1>4

\* The check in turn.
LEMMA CheckInTurn ==
  ASSUME IInv, NEW t \in Tasks, InLoop(t)
  PROVE  \E c \in Checks : c = registry[cursor[t]]
<1>1. cursor[t] \in 1..Len(registry)
  BY DEF IInv, TypeOK, CursorsStart, InLoop
<1> QED  BY <1>1 DEF IInv, TypeOK

LEMMA AcloseStartsStep ==
  ASSUME IInv, NEW t \in Tasks, AcloseStarts(t)
  PROVE  IInv'
<1>0. InLoop(t) /\ UNCHANGED <<registry, ids, lock, call, probe, passed>>
  BY DEF AcloseStarts
<1>1. PICK c \in Checks : c = registry[cursor[t]]
  BY <1>0, CheckInTurn
<1>2. clientLock[c] \in Locks
  BY DEF IInv, TypeOK
<1>3. PICK l \in Locks : l = Asked(clientLock[c], t)
  BY <1>2, AskedLock
<1>4. /\ IsFree(clientLock[c]) => l.holder = t
      /\ ~IsFree(clientLock[c]) => l.holder = clientLock[c].holder
  BY <1>2, <1>3, AskedLock
<1>5. CASE l.holder = t
  <2>1. CloseBlock(t, c, l)
    BY <1>1, <1>3, <1>5 DEF AcloseStarts
  <2>2. \A u \in Tasks : stage[u][c] \in InLock => u = t
    BY <1>4, <1>5, AloneInLock DEF IInv
  <2> QED  BY <1>0, <1>1, <1>5, <2>1, <2>2, CloseBlockStep
<1>6. CASE l.holder # t
  <2>1. /\ stage' = AtStage(t, c, "closeWait") /\ clientLock' = [clientLock EXCEPT ![c] = l]
        /\ cursor' = cursor /\ conn' = conn
    BY <1>1, <1>3, <1>6 DEF AcloseStarts
  <2>2. \A u \in Tasks : stage[u][c] \in InLock => l.holder = u
    BY <1>4, <1>6 DEF IInv, LocksHeld
  <2>3. CloseMove(t, c, "closeWait", l)
    BY <1>0, <1>1, <2>1, <2>2 DEF CloseMove, IInv, TypeOK
  <2> QED  BY <2>3, CloseMoveStep
<1> QED  BY <1>5, <1>6

LEMMA AcloseResumesStep ==
  ASSUME IInv, NEW t \in Tasks, AcloseResumes(t)
  PROVE  IInv'
<1>0. InLoop(t) /\ UNCHANGED <<registry, ids, lock, call, probe, passed>>
  BY DEF AcloseResumes
<1>1. PICK c \in Checks : c = registry[cursor[t]]
  BY <1>0, CheckInTurn
<1>2. PICK l \in Locks : l = clientLock[c]
  BY DEF IInv, TypeOK
<1>3. l.holder = t /\ CloseBlock(t, c, l)
  BY <1>1, <1>2 DEF AcloseResumes
<1>4. \A u \in Tasks : stage[u][c] \in InLock => u = t
  BY <1>2, <1>3, AloneInLock DEF IInv
<1> QED  BY <1>0, <1>1, <1>3, <1>4, CloseBlockStep

LEMMA AcloseEndsStep ==
  ASSUME IInv, NEW t \in Tasks, AcloseEnds(t)
  PROVE  IInv'
<1>0. /\ InLoop(t) /\ UNCHANGED <<registry, ids, lock, call, probe, passed>>
      /\ cursor' = [cursor EXCEPT ![t] = @ + 1]
  BY DEF AcloseEnds
<1>1. PICK c \in Checks : c = registry[cursor[t]]
  BY <1>0, CheckInTurn
<1>2. PICK l \in Locks : l = Left(clientLock[c], t)
  BY LeftLock DEF IInv, TypeOK
<1>3. /\ stage[t][c] = "close" /\ stage' = AtStage(t, c, "off")
      /\ clientLock' = [clientLock EXCEPT ![c] = l]
      /\ (conn' = [conn EXCEPT ![c] = "none"]) \/ conn' = conn
  BY <1>1, <1>2 DEF AcloseEnds
<1>4. conn[c] = "half" /\ clientLock[c].holder = t
  BY <1>3 DEF IInv, LocksHeld, InLock
<1>5. \A u \in Tasks : u # t => stage[u][c] \notin InLock /\ stage[u][c] # "close"
  BY <1>4, AloneInLock DEF IInv, InLock
<1>6. CloseMove(t, c, "off", l)
  BY <1>0, <1>1, <1>3, <1>4, <1>5 DEF CloseMove, IInv, TypeOK
<1> QED  BY <1>6, CloseMoveStep

-----------------------------------------------------------------------------
(* run(): the registry grows *)

\* SetToSeq lists every element of a finite set once.
LEMMA Listed ==
  ASSUME NEW S, IsFiniteSet(S)
  PROVE  /\ SetToSeq(S) \in Seq(S)
         /\ \A i, j \in DOMAIN SetToSeq(S) : SetToSeq(S)[i] = SetToSeq(S)[j] => i = j
         /\ S = {SetToSeq(S)[k] : k \in DOMAIN SetToSeq(S)}
<1> DEFINE n == Cardinality(S)
<1>1. n \in Nat /\ ExistsBijection(1..n, S)
  BY FS_CardinalityType
<1>2. \E f \in [1..n -> S] : IsInjective(f)
  BY <1>1 DEF ExistsBijection, Bijection, Injection
<1>3. SetToSeq(S) \in [1..n -> S] /\ IsInjective(SetToSeq(S))
  BY <1>2 DEF SetToSeq
<1>4. SetToSeq(S) \in Injection(1..n, S)
  BY <1>3 DEF Injection
<1>5. IsFiniteSet(1..n) /\ Cardinality(1..n) = n
  BY <1>1, FS_Interval
<1>6. SetToSeq(S) \in Surjection(1..n, S)
  BY <1>4, <1>5, FS_Injection
<1>7. SetToSeq(S) \in Seq(S)
  BY <1>1, <1>3, SeqDef
<1> QED  BY <1>3, <1>6, <1>7 DEF IsInjective, Surjection

LEMMA TrackedExact ==
  ASSUME TypeOK, RegistryExact, NEW p \in SUBSET Checks, Track(p)
  PROVE  /\ registry' \in Seq(Checks) /\ ids' \subseteq Checks /\ passed' \subseteq Checks
         /\ RegistryExact'
<1> DEFINE S == p \ ids
           q == SetToSeq(S)
<1>1. IsFiniteSet(S)
  BY ChecksAssumption, FS_Subset
<1>2. q \in Seq(S) /\ (\A i, j \in DOMAIN q : q[i] = q[j] => i = j)
      /\ S = {q[k] : k \in DOMAIN q}
  BY <1>1, Listed
<1>3. registry' = registry \o q /\ ids' = ids \union p /\ passed' = passed \ p
  BY DEF Track, Tracked
<1>4. registry \in Seq(Checks) /\ q \in Seq(Checks)
  BY <1>2, SeqMonotonic DEF TypeOK
<1> HIDE DEF q, S
<1>5. /\ registry' \in Seq(Checks) /\ Len(registry') = Len(registry) + Len(q)
      /\ \A k \in 1..(Len(registry) + Len(q)) :
           registry'[k] = IF k <= Len(registry) THEN registry[k] ELSE q[k - Len(registry)]
  BY <1>3, <1>4, ConcatProperties
<1>6. DOMAIN registry = 1..Len(registry) /\ DOMAIN q = 1..Len(q)
      /\ DOMAIN registry' = 1..(Len(registry) + Len(q))
      /\ Len(registry) \in Nat /\ Len(q) \in Nat
  BY <1>4, <1>5, LenProperties
<1>7. \A k \in DOMAIN registry' :
        \/ k \in DOMAIN registry /\ registry'[k] = registry[k] /\ registry'[k] \in ids
        \/ /\ k \notin DOMAIN registry /\ k - Len(registry) \in DOMAIN q
           /\ registry'[k] = q[k - Len(registry)] /\ registry'[k] \in S
  <2> SUFFICES ASSUME NEW k \in DOMAIN registry'
               PROVE  \/ k \in DOMAIN registry /\ registry'[k] = registry[k] /\ registry'[k] \in ids
                      \/ /\ k \notin DOMAIN registry /\ k - Len(registry) \in DOMAIN q
                         /\ registry'[k] = q[k - Len(registry)] /\ registry'[k] \in S
    OBVIOUS
  <2>1. CASE k <= Len(registry)
    BY <1>5, <1>6, <2>1 DEF RegistryExact
  <2>2. CASE ~(k <= Len(registry))
    <3>1. k - Len(registry) \in DOMAIN q
      BY <1>6, <2>2
    <3> QED  BY <1>2, <1>5, <1>6, <2>2, <3>1
  <2> QED  BY <2>1, <2>2
<1>8. S \cap ids = {} /\ ids' = ids \union S
  BY <1>3 DEF S
<1>9. \A j, k \in DOMAIN registry' : registry'[j] = registry'[k] => j = k
  <2> SUFFICES ASSUME NEW j \in DOMAIN registry', NEW k \in DOMAIN registry',
                      registry'[j] = registry'[k]
               PROVE  j = k
    OBVIOUS
  <2>1. CASE j \in DOMAIN registry /\ k \in DOMAIN registry
    BY <1>7, <2>1 DEF RegistryExact
  <2>2. CASE j \notin DOMAIN registry /\ k \notin DOMAIN registry
    <3>1. j - Len(registry) = k - Len(registry)
      BY <1>2, <1>7, <2>2
    <3> QED  BY <1>6, <3>1
  <2> QED  BY <1>7, <1>8, <2>1, <2>2
<1>10. ids' = {registry'[k] : k \in DOMAIN registry'}
  <2>1. ASSUME NEW c \in ids PROVE \E k \in DOMAIN registry' : registry'[k] = c
    <3>1. PICK k \in DOMAIN registry : registry[k] = c
      BY <2>1 DEF RegistryExact
    <3> QED  BY <1>5, <1>6, <3>1
  <2>2. ASSUME NEW c \in S PROVE \E k \in DOMAIN registry' : registry'[k] = c
    <3>1. PICK k \in DOMAIN q : q[k] = c
      BY <1>2, <2>2
    <3>2. k + Len(registry) \in DOMAIN registry' /\ ~(k + Len(registry) <= Len(registry))
          /\ (k + Len(registry)) - Len(registry) = k
      BY <1>6, <3>1
    <3> QED  BY <1>5, <1>6, <3>1, <3>2
  <2> QED  BY <1>7, <1>8, <2>1, <2>2
<1>11. ids' \subseteq Checks /\ passed' \subseteq Checks
  BY <1>3 DEF TypeOK
<1> QED  BY <1>5, <1>9, <1>10, <1>11 DEF RegistryExact

\* A run begins, while nobody closes.
LEMMA BeginRunStep ==
  ASSUME IInv, NEW t \in Tasks, NEW p \in Probes \union {{}}, BeginRun(t, p),
         \A u \in Tasks : call[u] \in Closing => u = t, lock' \in Locks
  PROVE  IInv'
<1> USE DEF BeginRun
<1>1. p \in SUBSET Checks
  BY ProbesAssumption
<1>2. /\ registry' \in Seq(Checks) /\ ids' \subseteq Checks /\ passed' \subseteq Checks
      /\ RegistryExact' /\ ids' = ids \union p /\ passed' = passed \ p
  BY <1>1, TrackedExact DEF IInv, Track
<1>3. /\ call' \in [Tasks -> Calls] /\ call'[t] = "running"
      /\ \A u \in Tasks : u # t => call'[u] = call[u]
  BY DEF IInv, TypeOK, Calls
<1>4. /\ probe' \in [Tasks -> Probes \union {{}}] /\ probe'[t] = p
      /\ \A u \in Tasks : u # t => probe'[u] = probe[u]
  BY DEF IInv, TypeOK
<1>5. /\ stage' \in [Tasks -> [Checks -> Stages]]
      /\ \A c \in Checks : stage'[t][c] = IF c \in p THEN "start" ELSE "off"
      /\ \A u \in Tasks : u # t => stage'[u] = stage[u]
  <2>1. [c \in Checks |-> IF c \in p THEN "start" ELSE "off"] \in [Checks -> Stages]
    BY DEF Stages
  <2> QED  BY <2>1 DEF IInv, TypeOK
<1>6. cursor' = cursor /\ clientLock' = clientLock /\ conn' = conn
  OBVIOUS
<1>7. \A u \in Tasks : call'[u] \notin Closing
  BY <1>3 DEF Closing
<1>8. TypeOK'
  BY <1>2, <1>3, <1>4, <1>5, <1>6 DEF IInv, TypeOK
<1>9. StagesFit'
  <2> SUFFICES ASSUME NEW u \in Tasks, NEW d \in Checks
               PROVE  StagesFit!(u)!(d)'
    BY DEF StagesFit
  <2>1. CASE u = t
    BY <1>3, <1>4, <1>5, <2>1 DEF RunStages
  <2>2. CASE u # t
    BY <1>3, <1>4, <1>5, <1>7, <2>2 DEF IInv, StagesFit, Closing
  <2> QED  BY <2>1, <2>2
<1>10. LocksHeld' /\ CursorsStart'
  <2>1. \A c \in Checks : stage'[t][c] \notin InLock /\ stage'[t][c] # "close"
    BY <1>5 DEF InLock
  <2> QED  BY <1>5, <1>6, <1>7, <2>1 DEF IInv, LocksHeld, CursorsStart, Closing
<1>11. ProbesTracked'
  BY <1>2, <1>3, <1>4 DEF IInv, ProbesTracked
<1>12. Overtaken' /\ Walked'
  BY <1>7 DEF Overtaken, Walked
<1>13. Owned'
  BY <1>2, <1>6 DEF IInv, Owned
<1> QED  BY <1>2, <1>8, <1>9, <1>10, <1>11, <1>12, <1>13 DEF IInv

LEMMA RunStep ==
  ASSUME IInv, NEW t \in Tasks, NEW p \in Probes, Run(t, p)
  PROVE  IInv'
<1>1. CASE IsFree(lock) /\ BeginRun(t, p) /\ UNCHANGED lock
  <2>1. lock' \in Locks /\ \A u \in Tasks : call[u] \in Closing => u = t
    BY <1>1, AloneClosing DEF IInv, TypeOK
  <2> QED  BY <1>1, <2>1, BeginRunStep
<1>2. CASE ~(IsFree(lock) /\ BeginRun(t, p) /\ UNCHANGED lock)
  <2>1. /\ call[t] = "idle" /\ ~IsFree(lock) /\ lock' = Asked(lock, t)
        /\ call' = [call EXCEPT ![t] = "runWait"] /\ probe' = [probe EXCEPT ![t] = p]
        /\ UNCHANGED <<registry, ids, cursor, stage, clientLock, conn, passed>>
    BY <1>2 DEF Run
  <2>2. lock' \in Locks /\ lock'.holder = lock.holder
    BY <2>1, AskedLock DEF IInv, TypeOK
  <2>3. /\ call' \in [Tasks -> Calls] /\ call'[t] = "runWait"
        /\ \A u \in Tasks : u # t => call'[u] = call[u] /\ probe'[u] = probe[u]
        /\ probe' \in [Tasks -> Probes \union {{}}]
    BY <2>1 DEF IInv, TypeOK, Calls
  <2>4. TypeOK' /\ RegistryExact'
    BY <2>1, <2>2, <2>3 DEF IInv, TypeOK, RegistryExact
  <2>5. StagesFit'
    <3> SUFFICES ASSUME NEW u \in Tasks, NEW d \in Checks
                 PROVE  StagesFit!(u)!(d)'
      BY DEF StagesFit
    <3>1. CASE u = t
      BY <2>1, <2>3, <3>1 DEF IInv, StagesFit
    <3>2. CASE u # t
      BY <2>1, <2>3, <3>2 DEF IInv, StagesFit
    <3> QED  BY <3>1, <3>2
  <2>6. LocksHeld' /\ CursorsStart'
    BY <2>1, <2>2, <2>3 DEF IInv, LocksHeld, CursorsStart, Closing
  <2>7. ProbesTracked' /\ Overtaken'
    BY <2>1, <2>3 DEF IInv, ProbesTracked, Overtaken, Closing
  <2>8. Walked' /\ Owned'
    BY <2>1, <2>3 DEF IInv, Walked, Owned, Closing, Behind
  <2> QED  BY <2>4, <2>5, <2>6, <2>7, <2>8 DEF IInv
<1> QED  BY <1>1, <1>2

LEMMA RunLockedStep ==
  ASSUME IInv, NEW t \in Tasks, RunLocked(t)
  PROVE  IInv'
<1>1. PICK p \in Probes \union {{}} : p = probe[t]
  BY DEF IInv, TypeOK
<1>2. BeginRun(t, p)
  BY <1>1 DEF RunLocked
<1>3. lock' \in Locks
  BY LeftLock DEF RunLocked, IInv, TypeOK
<1>4. \A u \in Tasks : call[u] \in Closing => u = t
  BY AloneClosing DEF RunLocked, IInv
<1> QED  BY <1>2, <1>3, <1>4, BeginRunStep
-----------------------------------------------------------------------------
(* Calls that end *)

\* A call of t that ends without its registry's lock and without its checks.
LEMMA GoneStep ==
  ASSUME IInv, NEW t \in Tasks,
         call' = [call EXCEPT ![t] = "idle"], probe' = [probe EXCEPT ![t] = {}],
         cursor' \in [Tasks -> Nat], \A u \in Tasks : u # t => cursor'[u] = cursor[u],
         stage' \in [Tasks -> [Checks -> Stages]],
         \A c \in Checks : stage'[t][c] = "off",
         \A u \in Tasks : u # t => stage'[u] = stage[u],
         lock' \in Locks, lock.holder # t => lock'.holder = lock.holder,
         clientLock' \in [Checks -> Locks],
         \A c \in Checks : clientLock[c].holder # t => clientLock'[c].holder = clientLock[c].holder,
         UNCHANGED <<registry, ids, conn, passed>>
  PROVE  IInv'
<1>1. /\ call' \in [Tasks -> Calls] /\ call'[t] = "idle"
      /\ \A u \in Tasks : u # t => call'[u] = call[u] /\ probe'[u] = probe[u]
      /\ probe' \in [Tasks -> Probes \union {{}}]
  BY DEF IInv, TypeOK, Calls
<1>2. TypeOK' /\ RegistryExact'
  BY <1>1 DEF IInv, TypeOK, RegistryExact
<1>3. StagesFit'
  <2> SUFFICES ASSUME NEW u \in Tasks, NEW d \in Checks
               PROVE  StagesFit!(u)!(d)'
    BY DEF StagesFit
  <2>1. CASE u = t
    BY <1>1, <2>1
  <2>2. CASE u # t
    BY <1>1, <2>2 DEF IInv, StagesFit
  <2> QED  BY <2>1, <2>2
<1>4. CursorsStart'
  BY <1>1 DEF IInv, CursorsStart
<1>5. LocksHeld'
  <2> SUFFICES ASSUME NEW u \in Tasks
               PROVE  LocksHeld!(u)'
    BY DEF LocksHeld
  <2>1. CASE u = t
    BY <1>1, <2>1 DEF Closing, InLock
  <2>2. CASE u # t
    BY <1>1, <2>2 DEF IInv, LocksHeld
  <2> QED  BY <2>1, <2>2
<1>6. ProbesTracked' /\ Overtaken'
  BY <1>1 DEF IInv, ProbesTracked, Overtaken, Closing
<1>7. Walked' /\ Owned'
  BY <1>1 DEF IInv, Walked, Owned, Behind, Closing
<1> QED  BY <1>2, <1>3, <1>4, <1>5, <1>6, <1>7 DEF IInv

LEMMA StopStep ==
  ASSUME IInv, NEW t \in Tasks, Stop(t)
  PROVE  IInv'
<1>1. lock' \in Locks /\ (lock.holder # t => lock'.holder = lock.holder)
  BY LeftLock DEF Stop, IInv, TypeOK
<1>2. clientLock' \in [Checks -> Locks]
      /\ \A c \in Checks : clientLock[c].holder # t => clientLock'[c].holder = clientLock[c].holder
  BY LeftLock DEF Stop, IInv, TypeOK
<1>3. cursor' \in [Tasks -> Nat] /\ \A u \in Tasks : u # t => cursor'[u] = cursor[u]
  BY DEF Stop, IInv, TypeOK
<1>4. /\ stage' \in [Tasks -> [Checks -> Stages]] /\ \A c \in Checks : stage'[t][c] = "off"
      /\ \A u \in Tasks : u # t => stage'[u] = stage[u]
  <2>1. [c \in Checks |-> "off"] \in [Checks -> Stages]
    BY DEF Stages
  <2> QED  BY <2>1 DEF Stop, IInv, TypeOK
<1>5. /\ call' = [call EXCEPT ![t] = "idle"] /\ probe' = [probe EXCEPT ![t] = {}]
      /\ UNCHANGED <<registry, ids, conn, passed>>
  BY DEF Stop
<1> QED  BY <1>1, <1>2, <1>3, <1>4, <1>5, GoneStep

LEMMA RunEndsStep ==
  ASSUME IInv, NEW t \in Tasks, RunEnds(t)
  PROVE  IInv'
BY GoneStep DEF RunEnds, IInv, TypeOK

-----------------------------------------------------------------------------
(* close(): the registry is walked and cleared *)

LEMMA BeginCloseStep ==
  ASSUME IInv, NEW t \in Tasks, call[t] \in {"idle", "closeWait"}, BeginClose(t),
         \A u \in Tasks : call[u] \in Closing => u = t,
         lock' \in Locks, lock'.holder = t,
         UNCHANGED <<registry, ids, probe, stage, clientLock, conn>>
  PROVE  IInv'
<1>1. /\ call' \in [Tasks -> Calls] /\ call'[t] = "closing"
      /\ \A u \in Tasks : u # t => call'[u] = call[u]
      /\ cursor' \in [Tasks -> Nat] /\ cursor'[t] = 1
  BY DEF IInv, TypeOK, Calls, BeginClose
<1>2. \A u \in Tasks : call'[u] \in Closing => u = t
  BY <1>1
<1>3. /\ passed' \subseteq Checks /\ passed \subseteq passed'
      /\ \A u \in Tasks : call[u] = "running" => probe[u] \subseteq passed'
  BY ProbesAssumption DEF IInv, TypeOK, BeginClose
<1>4. TypeOK' /\ RegistryExact'
  BY <1>1, <1>3 DEF IInv, TypeOK, RegistryExact
<1>5. StagesFit'
  <2> SUFFICES ASSUME NEW u \in Tasks, NEW d \in Checks
               PROVE  StagesFit!(u)!(d)'
    BY DEF StagesFit
  <2>1. CASE u = t
    BY <1>1, <2>1 DEF IInv, StagesFit
  <2>2. CASE u # t
    BY <1>1, <1>2, <2>2 DEF IInv, StagesFit, Closing
  <2> QED  BY <2>1, <2>2
<1>6. CursorsStart' /\ LocksHeld'
  BY <1>1, <1>2 DEF IInv, CursorsStart, LocksHeld, Closing
<1>7. ProbesTracked' /\ Overtaken'
  BY <1>1, <1>3 DEF IInv, ProbesTracked, Overtaken
<1>8. Walked'
  <2>1. Behind(t)' = {}
    BY <1>1 DEF Behind, IInv, TypeOK
  <2> QED  BY <1>2, <2>1 DEF Walked
<1>9. Owned'
  BY <1>3 DEF IInv, Owned
<1> QED  BY <1>4, <1>5, <1>6, <1>7, <1>8, <1>9 DEF IInv

\* A close() that goes on without touching a check.
LEMMA PhaseStep ==
  ASSUME IInv, NEW t \in Tasks, NEW s \in {"closeWait", "grace"},
         call' = [call EXCEPT ![t] = s],
         s = "closeWait" => call[t] = "idle",
         s = "grace" => call[t] = "closing" /\ cursor[t] > Len(registry),
         lock' \in Locks, lock'.holder = lock.holder,
         UNCHANGED <<registry, ids, probe, cursor, stage, clientLock, conn, passed>>
  PROVE  IInv'
<1>1. /\ call' \in [Tasks -> Calls] /\ call'[t] = s
      /\ \A u \in Tasks : u # t => call'[u] = call[u]
  BY DEF IInv, TypeOK, Calls
<1>2. TypeOK' /\ RegistryExact'
  BY <1>1 DEF IInv, TypeOK, RegistryExact
<1>3. \A c \in Checks : stage[t][c] = "off"
  BY DEF IInv, TypeOK, StagesFit
<1>4. StagesFit'
  <2> SUFFICES ASSUME NEW u \in Tasks, NEW d \in Checks
               PROVE  StagesFit!(u)!(d)'
    BY DEF StagesFit
  <2>1. CASE u = t
    BY <1>1, <1>3, <2>1
  <2>2. CASE u # t
    BY <1>1, <2>2 DEF IInv, StagesFit
  <2> QED  BY <2>1, <2>2
<1>5. CursorsStart' /\ LocksHeld'
  BY <1>1 DEF IInv, CursorsStart, LocksHeld, Closing
<1>6. ProbesTracked' /\ Overtaken'
  BY <1>1 DEF IInv, ProbesTracked, Overtaken, Closing
<1>7. Walked'
  <2> SUFFICES ASSUME NEW u \in Tasks, call'[u] \in Closing, NEW k \in Behind(u)',
                      conn[registry[k]] = "open"
               PROVE  registry[k] \in passed
    BY DEF Walked
  <2>1. call[u] \in Closing /\ k \in Behind(u)
    BY <1>1 DEF Behind, Closing, IInv, TypeOK
  <2> QED  BY <2>1 DEF IInv, Walked
<1>8. Owned'
  BY DEF IInv, Owned
<1> QED  BY <1>2, <1>4, <1>5, <1>6, <1>7, <1>8 DEF IInv

LEMMA CloseStep ==
  ASSUME IInv, NEW t \in Tasks, Close(t)
  PROVE  IInv'
<1>1. /\ lock' \in Locks /\ (IsFree(lock) => lock'.holder = t)
      /\ ~IsFree(lock) => lock'.holder = lock.holder
  BY AskedLock DEF Close, IInv, TypeOK
<1>2. CASE IsFree(lock)
  <2>1. \A u \in Tasks : call[u] \in Closing => u = t
    BY <1>2, AloneClosing DEF IInv
  <2> QED  BY <1>1, <1>2, <2>1, BeginCloseStep DEF Close
<1>3. CASE ~IsFree(lock)
  BY <1>1, <1>3, PhaseStep DEF Close
<1> QED  BY <1>2, <1>3

LEMMA CloseLockedStep ==
  ASSUME IInv, NEW t \in Tasks, CloseLocked(t)
  PROVE  IInv'
<1>1. \A u \in Tasks : call[u] \in Closing => u = t
  BY AloneClosing DEF CloseLocked, IInv
<1> QED  BY <1>1, BeginCloseStep DEF CloseLocked, IInv, TypeOK

LEMMA LoopEndsStep ==
  ASSUME IInv, NEW t \in Tasks, LoopEnds(t)
  PROVE  IInv'
BY PhaseStep DEF LoopEnds, IInv, TypeOK

LEMMA CloseEndsStep ==
  ASSUME IInv, NEW t \in Tasks, CloseEnds(t)
  PROVE  IInv'
<1> USE DEF CloseEnds
<1>0. /\ registry' = <<>> /\ ids' = {} /\ call[t] \in Closing
      /\ UNCHANGED <<probe, stage, clientLock, conn, passed>>
  BY DEF Forget, Closing
<1>1. /\ call' \in [Tasks -> Calls] /\ call'[t] = "idle"
      /\ \A u \in Tasks : u # t => call'[u] = call[u]
      /\ cursor' \in [Tasks -> Nat]
  BY DEF IInv, TypeOK, Calls
<1>2. \A u \in Tasks : call'[u] \notin Closing
  BY <1>0, <1>1, AloneClosing DEF IInv, LocksHeld, Closing
<1>3. lock' \in Locks
  BY LeftLock DEF IInv, TypeOK
<1>4. TypeOK' /\ RegistryExact'
  <2>1. <<>> \in Seq(Checks) /\ DOMAIN <<>> = {}
    OBVIOUS
  <2> QED  BY <1>0, <1>1, <1>3, <2>1 DEF IInv, TypeOK, RegistryExact
<1>5. \A c \in Checks : stage[t][c] = "off"
  <2>1. CASE call[t] = "grace"
    BY <2>1 DEF IInv, StagesFit
  <2>2. CASE call[t] = "closing" /\ registry = <<>>
    <3>1. ~(cursor[t] <= Len(registry))
      BY <2>2 DEF IInv, TypeOK, CursorsStart
    <3> QED  BY <2>2, <3>1 DEF IInv, StagesFit
  <2> QED  BY <2>1, <2>2
<1>6. StagesFit'
  <2> SUFFICES ASSUME NEW u \in Tasks, NEW d \in Checks
               PROVE  StagesFit!(u)!(d)'
    BY DEF StagesFit
  <2>1. CASE u = t
    BY <1>0, <1>1, <1>5, <2>1
  <2>2. CASE u # t
    BY <1>0, <1>1, <1>2, <2>2 DEF IInv, StagesFit, Closing
  <2> QED  BY <2>1, <2>2
<1>7. CursorsStart' /\ Walked' /\ Overtaken'
  BY <1>2 DEF CursorsStart, Walked, Overtaken, Closing
<1>8. LocksHeld'
  BY <1>0, <1>2 DEF IInv, LocksHeld
<1>9. ProbesTracked'
  BY <1>0, <1>1 DEF IInv, ProbesTracked, Overtaken
<1>10. Owned'
  <2> SUFFICES ASSUME NEW c \in Checks, conn[c] = "open", c \notin passed
               PROVE  FALSE
    BY <1>0 DEF Owned
  <2>1. PICK k \in DOMAIN registry : registry[k] = c
    BY InRegistry DEF IInv, Owned
  <2>2. k \in 1..Len(registry)
    BY <2>1, LenProperties DEF IInv, TypeOK
  <2>3. call[t] = "grace" /\ k \in Behind(t)
    BY <2>1, <2>2 DEF Behind
  <2> QED  BY <1>0, <2>1, <2>3 DEF IInv, Walked
<1> QED  BY <1>4, <1>6, <1>7, <1>8, <1>9, <1>10 DEF IInv

-----------------------------------------------------------------------------
(* The invariant holds *)

LEMMA NextStep ==
  ASSUME IInv, Next
  PROVE  IInv'
<1>1. PICK t \in Tasks :
        \/ t \in Runners /\ \E p \in Probes : Run(t, p)
        \/ t \in Closers /\ Close(t)
        \/ Loop(t) \/ AcloseEnds(t) \/ TimerFires(t) \/ CallerCancels(t)
        \/ \E c \in Checks : CheckLoop(t, c) \/ Connects(t, c) \/ Answers(t, c)
  BY DEF Next
<1>2. CASE \E p \in Probes : Run(t, p)
  BY <1>2, RunStep
<1>3. CASE Close(t)
  BY <1>3, CloseStep
<1>4. CASE Loop(t)
  BY <1>4, RunLockedStep, RunEndsStep, CloseLockedStep, AcloseStartsStep, AcloseResumesStep,
     LoopEndsStep, CloseEndsStep DEF Loop
<1>5. CASE AcloseEnds(t)
  BY <1>5, AcloseEndsStep
<1>6. CASE TimerFires(t) \/ CallerCancels(t)
  BY <1>6, StopStep DEF TimerFires, CallerCancels
<1>7. CASE \E c \in Checks : CheckLoop(t, c) \/ Connects(t, c) \/ Answers(t, c)
  <2>1. PICK c \in Checks : CheckLoop(t, c) \/ Connects(t, c) \/ Answers(t, c)
    BY <1>7
  <2> QED  BY <2>1, CheckStartsStep, CheckResumesStep, ConnectsStep, AnswersStep DEF CheckLoop
<1> QED  BY <1>1, <1>2, <1>3, <1>4, <1>5, <1>6, <1>7

LEMMA StutterStep ==
  ASSUME IInv, UNCHANGED vars
  PROVE  IInv'
BY DEF vars, IInv, TypeOK, RegistryExact, StagesFit, CursorsStart, LocksHeld,
       ProbesTracked, Overtaken, Walked, Behind, Owned

LEMMA Invariant == Spec => []IInv
<1>1. Init => IInv
  BY InitInvariant
<1>2. IInv /\ [Next]_vars => IInv'
  BY NextStep, StutterStep
<1> QED  BY <1>1, <1>2, PTL DEF Spec

-----------------------------------------------------------------------------

\* The registry changes when a run begins, with nobody closing, and when a
\* close() ends.
LEMMA RegistryStep ==
  ASSUME IInv, [Next]_vars, NEW u \in Tasks,
         call[u] \in Closing, call'[u] \in Closing
  PROVE  registry' = registry
<1> USE DEF Closing
<1>1. CASE UNCHANGED vars
  BY <1>1 DEF vars
<1>2. ASSUME NEW t \in Tasks, CloseEnds(t) PROVE registry' = registry
  <2>1. call[t] \in Closing /\ call'[t] = "idle"
    BY <1>2 DEF CloseEnds, IInv, TypeOK
  <2>2. u = t
    BY <2>1, AloneClosing DEF IInv, LocksHeld
  <2> QED  BY <2>1, <2>2
<1>3. ASSUME NEW t \in Tasks, NEW p \in Probes, Run(t, p) PROVE registry' = registry
  <2>1. ~IsFree(lock)
    BY NoTaskAssumption DEF IInv, LocksHeld, IsFree
  <2> QED  BY <1>3, <2>1 DEF Run
<1>4. ASSUME NEW t \in Tasks PROVE ~RunLocked(t)
  BY AloneClosing DEF RunLocked, IInv
<1>5. ASSUME NEW t \in Tasks, NEW c \in Checks,
             CheckLoop(t, c) \/ Connects(t, c) \/ Answers(t, c)
      PROVE  registry' = registry
  BY <1>5 DEF CheckLoop, CheckStarts, CheckResumes, Connects, Answers, OnlyCheck
<1>6. ASSUME NEW t \in Tasks, Close(t) \/ CloseLocked(t) \/ AcloseStarts(t)
        \/ AcloseResumes(t) \/ AcloseEnds(t) \/ LoopEnds(t) \/ RunEnds(t) \/ Stop(t)
      PROVE  registry' = registry
  BY <1>6 DEF Close, CloseLocked, AcloseStarts, AcloseResumes, AcloseEnds, LoopEnds, RunEnds, Stop
<1>7. CASE Next
  BY <1>2, <1>3, <1>4, <1>5, <1>6, <1>7 DEF Next, Loop, TimerFires, CallerCancels
<1> QED  BY <1>1, <1>7

\* The variables keep their types.
THEOREM TypeCorrect == Spec => []TypeOK
<1>1. IInv => TypeOK
  BY DEF IInv
<1> QED  BY <1>1, Invariant, PTL

\* The registry lists each check once and agrees with the identity set, through
\* any overlap of runs, closes, timeouts and cancellations.
THEOREM RegistryListsOnce == Spec => []RegistryExact
<1>1. IInv => RegistryExact
  BY DEF IInv
<1> QED  BY <1>1, Invariant, PTL

\* An open client is in the registry for the next close() to find, unless a
\* close() came while the run that opened it was under way.
THEOREM NoClientForgotten == Spec => []OwnsClientsOfLaterRuns
<1>1. IInv => OwnsClientsOfLaterRuns
  BY InRegistry DEF IInv, Owned, OwnsClientsOfLaterRuns
<1> QED  BY <1>1, Invariant, PTL

\* The list a close() walks is the one it found, up to the end of the grace period.
THEOREM RegistryStandsStill == Spec => RegistryFixedWhileClosing
<1> DEFINE Fixed == \A t \in Tasks :
             call[t] \in {"closing", "grace"} /\ call'[t] \in {"closing", "grace"}
               => registry' = registry
<1>1. IInv /\ [Next]_vars => [Fixed]_vars
  BY RegistryStep DEF Closing
<1> QED  BY <1>1, Invariant, PTL DEF Spec, RegistryFixedWhileClosing
=============================================================================
