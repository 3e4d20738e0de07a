---------------------------- MODULE ProbeRunner ----------------------------
(***************************************************************************)
(* ProbeRunner (src/fast_healthchecks/execution.py): concurrent run() and  *)
(* close() calls on one runner, with its registry of resource checks and   *)
(* the lock around it, composed with the client caches of the checks.      *)
(*                                                                         *)
(* A check is seen as SharedClient promises: one client behind a FIFO lock *)
(* (ClientCache has the steps inside).  A check that fails closes its      *)
(* client in one step, taken when the lock of the client is free.          *)
(***************************************************************************)
EXTENDS Naturals, Sequences, SequencesExt

CONSTANTS
    Runners, Closers,   \* the tasks that call run(), and the ones that call close()
    Checks,         \* the checks with an aclose() method
    Probes,         \* the probes, each the set of its resource checks
    NoTask,
    HasTimeout      \* policy.probe_timeout_ms is set

Tasks == Runners \union Closers

ASSUME ProbesAssumption == Probes \subseteq SUBSET Checks
ASSUME NoTaskAssumption == NoTask \notin Tasks
ASSUME ChecksAssumption == IsFiniteSet(Checks)

VARIABLES
    registry, ids,      \* _resource_checks, _resource_check_ids
    lock,               \* _resources_lock
    call, probe, cursor,\* of each task: the call, its probe, close()'s loop index
    stage,              \* of each task: what it awaits of each check
    clientLock, conn,   \* of each check: its client's lock and connection
    passed              \* history: checks whose run a close() has overtaken

vars == <<registry, ids, lock, call, probe, cursor, stage, clientLock, conn, passed>>

Locks  == [holder : Tasks \union {NoTask}, queue : Seq(Tasks)]
Calls  == {"idle", "runWait", "running", "closeWait", "closing", "grace"}
Stages == {"off", "start", "wait", "connect", "use", "closeWait", "close"}

TypeOK ==
    /\ registry \in Seq(Checks) /\ ids \subseteq Checks
    /\ lock \in Locks /\ clientLock \in [Checks -> Locks]
    /\ call \in [Tasks -> Calls] /\ probe \in [Tasks -> Probes \union {{}}]
    /\ cursor \in [Tasks -> Nat]
    /\ stage \in [Tasks -> [Checks -> Stages]]
    /\ conn \in [Checks -> {"none", "open", "half"}]
    /\ passed \subseteq Checks

FreeLock == [holder |-> NoTask, queue |-> <<>>]

Init ==
    /\ registry = <<>> /\ ids = {} /\ lock = FreeLock /\ passed = {}
    /\ call = [t \in Tasks |-> "idle"] /\ probe = [t \in Tasks |-> {}]
    /\ cursor = [t \in Tasks |-> 0]
    /\ stage = [t \in Tasks |-> [c \in Checks |-> "off"]]
    /\ clientLock = [c \in Checks |-> FreeLock]
    /\ conn = [c \in Checks |-> "none"]

----------------------------------------------------------------------------
(* asyncio.Lock *)

\* The lock after t has asked for it.
Asked(l, t) ==
    IF l.holder = NoTask THEN [l EXCEPT !.holder = t] ELSE [l EXCEPT !.queue = Append(@, t)]

\* A queue without t, which is in it at most once.
Without(queue, t) ==
    IF \E k \in DOMAIN queue : queue[k] = t
    THEN RemoveAt(queue, CHOOSE k \in DOMAIN queue : queue[k] = t)
    ELSE queue

\* The lock after t has given it up, or has left its queue.
Left(l, t) ==
    IF l.holder # t THEN [l EXCEPT !.queue = Without(@, t)]
    ELSE IF l.queue = <<>> THEN FreeLock
    ELSE [holder |-> Head(l.queue), queue |-> Tail(l.queue)]

IsFree(l) == l.holder = NoTask

AtStage(t, c, s) == [stage EXCEPT ![t][c] = s]

----------------------------------------------------------------------------
(* run *)

\* Mutant: the checks seen before are not skipped.
TrackedAgain(p) == registry \o SetToSeq(p)

\* Mutant: the probe is put in the registry instead of its checks.
TrackedWhole(p) == Append(registry, p)

\* _track_resources: the checks not seen yet, in some order.
Tracked(p) == registry \o SetToSeq(p \ ids)

Track(p) ==
    /\ registry' = Tracked(p) /\ ids' = ids \union p
    /\ passed' = passed \ p

\* The registry is extended under the lock; then run_probe starts the checks.
BeginRun(t, p) ==
    /\ Track(p)
    /\ call' = [call EXCEPT ![t] = "running"]
    /\ probe' = [probe EXCEPT ![t] = p]
    /\ stage' = [stage EXCEPT ![t] = [c \in Checks |-> IF c \in p THEN "start" ELSE "off"]]
    /\ UNCHANGED <<cursor, clientLock, conn>>

\* Mutant: the resources are tracked without the lock.
RunUnlocked(t, p) ==
    /\ call[t] = "idle"
    /\ BeginRun(t, p) /\ UNCHANGED lock

\* A call of run(p): the lock is free, or the call queues for it.
Run(t, p) ==
    /\ call[t] = "idle"
    /\ \/ IsFree(lock) /\ BeginRun(t, p) /\ UNCHANGED lock
       \/ /\ ~IsFree(lock)
          /\ lock' = Asked(lock, t)
          /\ call' = [call EXCEPT ![t] = "runWait"]
          /\ probe' = [probe EXCEPT ![t] = p]
          /\ UNCHANGED <<registry, ids, cursor, stage, clientLock, conn, passed>>

RunLocked(t) ==
    /\ call[t] = "runWait" /\ lock.holder = t
    /\ BeginRun(t, probe[t])
    /\ lock' = Left(lock, t)

\* All checks have answered.
RunEnds(t) ==
    /\ call[t] = "running" /\ \A c \in Checks : stage[t][c] = "off"
    /\ call' = [call EXCEPT ![t] = "idle"] /\ probe' = [probe EXCEPT ![t] = {}]
    /\ UNCHANGED <<registry, ids, lock, cursor, stage, clientLock, conn, passed>>

\* The call ends at once: its checks are cancelled where they are, its locks and
\* its places in queues given up, the caches and the registry stay as they are.
Stop(t) ==
    /\ call' = [call EXCEPT ![t] = "idle"] /\ probe' = [probe EXCEPT ![t] = {}]
    /\ cursor' = [cursor EXCEPT ![t] = 0]
    /\ stage' = [stage EXCEPT ![t] = [c \in Checks |-> "off"]]
    /\ lock' = Left(lock, t)
    /\ clientLock' = [c \in Checks |-> Left(clientLock[c], t)]
    /\ UNCHANGED <<registry, ids, conn, passed>>

\* The timeout covers run_probe, not the wait for the registry's lock.
TimerFires(t) == HasTimeout /\ call[t] = "running" /\ Stop(t)

CallerCancels(t) == call[t] # "idle" /\ Stop(t)

----------------------------------------------------------------------------
(* The checks of a run *)

\* With the client's lock taken as in l: use the cached client or connect.
EnsureBlock(t, c, l) ==
    IF conn[c] # "none"
    THEN stage' = AtStage(t, c, "use") /\ clientLock' = [clientLock EXCEPT ![c] = Left(l, t)]
    ELSE stage' = AtStage(t, c, "connect") /\ clientLock' = [clientLock EXCEPT ![c] = l]

OnlyCheck == UNCHANGED <<registry, ids, lock, call, probe, cursor, passed>>

CheckStarts(t, c) ==
    /\ stage[t][c] = "start"
    /\ LET l == Asked(clientLock[c], t) IN
       IF l.holder = t THEN EnsureBlock(t, c, l)
       ELSE stage' = AtStage(t, c, "wait") /\ clientLock' = [clientLock EXCEPT ![c] = l]
    /\ OnlyCheck /\ UNCHANGED conn

CheckResumes(t, c) ==
    /\ stage[t][c] = "wait" /\ clientLock[c].holder = t
    /\ EnsureBlock(t, c, clientLock[c])
    /\ OnlyCheck /\ UNCHANGED conn

\* Mutant: a failed creation keeps the client's lock.
ConnectsHolding(t, c) ==
    /\ stage[t][c] = "connect"
    /\ \/ /\ stage' = AtStage(t, c, "use") /\ conn' = [conn EXCEPT ![c] = "open"]
          /\ clientLock' = [clientLock EXCEPT ![c] = Left(@, t)]
       \/ stage' = AtStage(t, c, "off") /\ UNCHANGED <<conn, clientLock>>
    /\ OnlyCheck

\* Connecting succeeds, or raises and leaves nothing cached.
Connects(t, c) ==
    /\ stage[t][c] = "connect"
    /\ clientLock' = [clientLock EXCEPT ![c] = Left(@, t)]
    /\ \/ stage' = AtStage(t, c, "use") /\ conn' = [conn EXCEPT ![c] = "open"]
       \/ stage' = AtStage(t, c, "off") /\ UNCHANGED conn
    /\ OnlyCheck

\* The check answers, or fails and invalidates whatever client is cached.
Answers(t, c) ==
    /\ stage[t][c] = "use"
    /\ stage' = AtStage(t, c, "off")
    /\ \/ UNCHANGED conn
       \/ IsFree(clientLock[c]) /\ conn' = [conn EXCEPT ![c] = "none"]
    /\ OnlyCheck /\ UNCHANGED clientLock

----------------------------------------------------------------------------
(* close *)

\* With the lock taken: no run can begin, and some are under way.
BeginClose(t) ==
    /\ call' = [call EXCEPT ![t] = "closing"] /\ cursor' = [cursor EXCEPT ![t] = 1]
    /\ passed' = passed \union UNION {probe[u] : u \in {v \in Tasks : call[v] = "running"}}

Close(t) ==
    /\ call[t] = "idle"
    /\ lock' = Asked(lock, t)
    /\ \/ IsFree(lock) /\ BeginClose(t)
       \/ /\ ~IsFree(lock)
          /\ call' = [call EXCEPT ![t] = "closeWait"] /\ UNCHANGED <<cursor, passed>>
    /\ UNCHANGED <<registry, ids, probe, stage, clientLock, conn>>

CloseLocked(t) ==
    /\ call[t] = "closeWait" /\ lock.holder = t
    /\ BeginClose(t)
    /\ UNCHANGED <<registry, ids, lock, probe, stage, clientLock, conn>>

\* aclose() of check c with the client's lock taken as in l.
CloseBlock(t, c, l) ==
    IF conn[c] = "none"
    THEN /\ clientLock' = [clientLock EXCEPT ![c] = Left(l, t)]
         /\ stage' = AtStage(t, c, "off") /\ cursor' = [cursor EXCEPT ![t] = @ + 1]
         /\ UNCHANGED conn
    ELSE /\ clientLock' = [clientLock EXCEPT ![c] = l]
         /\ stage' = AtStage(t, c, "close") /\ conn' = [conn EXCEPT ![c] = "half"]
         /\ UNCHANGED cursor

InLoop(t) == call[t] = "closing" /\ cursor[t] <= Len(registry)

AcloseStarts(t) ==
    /\ InLoop(t)
    /\ LET c == registry[cursor[t]]
           l == Asked(clientLock[c], t)
       IN /\ stage[t][c] = "off"
          /\ IF l.holder = t THEN CloseBlock(t, c, l)
             ELSE /\ stage' = AtStage(t, c, "closeWait")
                  /\ clientLock' = [clientLock EXCEPT ![c] = l] /\ UNCHANGED <<cursor, conn>>
    /\ UNCHANGED <<registry, ids, lock, call, probe, passed>>

AcloseResumes(t) ==
    /\ InLoop(t)
    /\ LET c == registry[cursor[t]] IN
         /\ stage[t][c] = "closeWait" /\ clientLock[c].holder = t
         /\ CloseBlock(t, c, clientLock[c])
    /\ UNCHANGED <<registry, ids, lock, call, probe, passed>>

\* The close of the client ends, or raises, which is suppressed.
AcloseEnds(t) ==
    /\ InLoop(t)
    /\ LET c == registry[cursor[t]] IN
         /\ stage[t][c] = "close"
         /\ stage' = AtStage(t, c, "off")
         /\ clientLock' = [clientLock EXCEPT ![c] = Left(@, t)]
         /\ conn' = [conn EXCEPT ![c] = "none"] \/ UNCHANGED conn
    /\ cursor' = [cursor EXCEPT ![t] = @ + 1]
    /\ UNCHANGED <<registry, ids, lock, call, probe, passed>>

\* Mutant: the list is cleared and the identities are kept.
ForgetList == registry' = <<>> /\ UNCHANGED ids

Forget == registry' = <<>> /\ ids' = {}

\* The loop is over: a grace period if anything was closed, then the registry is
\* cleared and the lock released.
LoopEnds(t) ==
    /\ call[t] = "closing" /\ cursor[t] > Len(registry) /\ registry # <<>>
    /\ call' = [call EXCEPT ![t] = "grace"]
    /\ UNCHANGED <<registry, ids, lock, probe, cursor, stage, clientLock, conn, passed>>

CloseEnds(t) ==
    /\ call[t] = "grace" \/ (call[t] = "closing" /\ registry = <<>>)
    /\ Forget
    /\ lock' = Left(lock, t)
    /\ call' = [call EXCEPT ![t] = "idle"] /\ cursor' = [cursor EXCEPT ![t] = 0]
    /\ UNCHANGED <<probe, stage, clientLock, conn, passed>>

----------------------------------------------------------------------------

Loop(t) ==
    \/ RunLocked(t) \/ RunEnds(t)
    \/ CloseLocked(t) \/ AcloseStarts(t) \/ AcloseResumes(t) \/ LoopEnds(t) \/ CloseEnds(t)

CheckLoop(t, c) == CheckStarts(t, c) \/ CheckResumes(t, c)

Next ==
    \E t \in Tasks :
      \/ t \in Runners /\ \E p \in Probes : Run(t, p)
      \/ t \in Closers /\ Close(t)
      \/ Loop(t) \/ AcloseEnds(t) \/ TimerFires(t) \/ CallerCancels(t)
      \/ \E c \in Checks : CheckLoop(t, c) \/ Connects(t, c) \/ Answers(t, c)

Spec == Init /\ [][Next]_vars

\* The event loop resumes what can go on.
LoopSpec ==
    /\ Spec
    /\ \A t \in Tasks : WF_vars(Loop(t))
    /\ \A t \in Tasks : \A c \in Checks : WF_vars(CheckLoop(t, c))

\* The backends answer, and no timer is needed.
FairSpec ==
    /\ LoopSpec
    /\ \A t \in Tasks : WF_vars(AcloseEnds(t))
    /\ \A t \in Tasks : \A c \in Checks : WF_vars(Connects(t, c)) /\ WF_vars(Answers(t, c))

----------------------------------------------------------------------------
(* Properties *)

\* A client that a run of this runner has opened, and that no close() has tried to
\* close, is in the registry for the next close() to find, through timeouts and
\* cancelled runs and closes, unless a close() came while that run was under way.
OwnsClientsOfLaterRuns ==
    \A c \in Checks : conn[c] = "open" => c \in passed \/ \E k \in DOMAIN registry : registry[k] = c

\* execution.py:282: "The runner owns the lifecycle of resource checks it has
\* seen", with no such exception.
OwnsOpenClients == \A c \in Checks : conn[c] = "open" => \E k \in DOMAIN registry : registry[k] = c

\* "close() and resource tracking are serialized by an internal lock": the list
\* that a close() walks does not change before its walk and grace period end.
RegistryFixedWhileClosing ==
    [][\A t \in Tasks :
         call[t] \in {"closing", "grace"} /\ call'[t] \in {"closing", "grace"}
            => registry' = registry]_vars

\* One close() closes each check once: the registry holds no check twice, over
\* any sequence of runs, closes and cancelled closes, and the identity set
\* agrees with it.
RegistryExact ==
    /\ \A j, k \in DOMAIN registry : registry[j] = registry[k] => j = k
    /\ ids = {registry[k] : k \in DOMAIN registry}

\* Every call ends when the backends answer: the registry's lock and the locks
\* of the clients, held together by a close(), cannot block each other.
CallsEnd == \A t \in Tasks : call[t] # "idle" ~> call[t] = "idle"
=============================================================================
