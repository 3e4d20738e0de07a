---------------------------- MODULE ClientCache ----------------------------
(***************************************************************************)
(* The client cache of one health check: ClientCachingMixin and the        *)
(* healthcheck_safe wrapper of src/fast_healthchecks/checks/_base.py, as   *)
(* the caching checks (redis, kafka, mongo, opensearch, url, rabbitmq) use *)
(* them.  Tasks of one event loop call the check (__call__) or aclose() on *)
(* the same object.  A task runs without interruption from one await to    *)
(* the next, so every action below is the code between two awaits.         *)
(*                                                                         *)
(* A client is a model value standing for the object and the connection it *)
(* owns.  The library behind it is external: creating, starting, using and *)
(* closing it may succeed or raise, and the backend may drop a connection. *)
(***************************************************************************)
EXTENDS Naturals, Sequences, SequencesExt

CONSTANTS
    Tasks,          \* asyncio tasks that call the check or aclose()
    Clients,        \* client objects, reused once nothing refers to them
    Loops,          \* event loops the check object is used from, in turn
    NoTask, NoClient, NoLoop,
    AsyncCreate,    \* _create_client returns a coroutine (rabbitmq)
    HasReadyHook,   \* _on_client_ready awaits client.start() (kafka)
    Validates       \* _validate_cached_client looks at is_closed (rabbitmq)

ASSUME NullAssumption ==
    NoTask \notin Tasks /\ NoClient \notin Clients /\ NoLoop \notin Loops
ASSUME FlagAssumption == {AsyncCreate, HasReadyHook, Validates} \subseteq BOOLEAN
ASSUME LoopAssumption == Loops # {}

VARIABLES
    client, clientLoop,         \* _client, _client_loop
    holder, queue, lockLoop,    \* _ensure_client_lock: owner, FIFO waiters, _loop
    pc,                         \* the await each task is suspended at
    held,                       \* the client a call got hold of (its locals)
    loop,                       \* the running event loop
    conn, connLoop, started     \* the clients: connection, loop made on, start() done

cacheVars == <<client, clientLoop>>
lockVars  == <<holder, queue, lockLoop>>
connVars  == <<conn, connLoop, started>>
vars      == <<cacheVars, lockVars, pc, held, loop, connVars>>

\* How the last call of a task ended: a normal return of the method body, a
\* failure wrapped by healthcheck_safe, a cancellation, an escaping exception.
AtRest  == {"idle", "returned", "failed", "cancelled", "raised", "closeRaised"}
Waiting == {"ensureWait", "invalWait", "closeWait"}
\* The awaits inside "async with self._ensure_client_lock".
Critical == {"evict", "create", "ready", "inval", "close"}
PCs == AtRest \union Waiting \union Critical \union {"use"}

\* "none": not opened, or close() has run to its end; "down": dropped by the
\* backend; "half": close() was called and has not run to its end; "lost": half
\* closed for good, as the close raised under suppress(Exception) and the check
\* has forgotten the client.
ConnStates == {"none", "open", "down", "half", "lost"}

\* How a close under suppress(Exception) can end: it returned, or it raised.
Gone == {"none", "lost"}

TypeOK ==
    /\ client \in Clients \union {NoClient} /\ clientLoop \in Loops \union {NoLoop}
    /\ holder \in Tasks \union {NoTask} /\ queue \in Seq(Tasks)
    /\ lockLoop \in Loops \union {NoLoop} /\ loop \in Loops
    /\ pc \in [Tasks -> PCs]
    /\ held \in [Tasks -> Clients \union {NoClient}]
    /\ conn \in [Clients -> ConnStates]
    /\ connLoop \in [Clients -> Loops \union {NoLoop}]
    /\ started \subseteq Clients
    /\ \A t \in Tasks : pc[t] \in {"use", "ready"} => held[t] \in Clients

Init ==
    /\ client = NoClient /\ clientLoop = NoLoop
    /\ holder = NoTask /\ queue = <<>> /\ lockLoop = NoLoop
    /\ loop \in Loops
    /\ pc = [t \in Tasks |-> "idle"]
    /\ held = [t \in Tasks |-> NoClient]
    /\ conn = [c \in Clients |-> "none"]
    /\ connLoop = [c \in Clients |-> NoLoop]
    /\ started = {}

----------------------------------------------------------------------------
(* asyncio.Lock.  release() wakes the first waiter and nobody can overtake *)
(* it, so the lock passes to the head of the queue in the releasing step;  *)
(* the new holder runs on when the event loop resumes it.                  *)

\* acquire() succeeds without waiting: the lock is free, or the caller is just
\* leaving the locked block and nobody waits.
CanTake(t) == holder = NoTask \/ (holder = t /\ queue = <<>>)

\* A contended acquire() binds the lock to the running loop the first time and
\* raises RuntimeError on any other loop.
CannotWait == lockLoop \notin {NoLoop, loop}

\* __aexit__ of the locked block; no effect for a task that is not in it.
Release(t) ==
    IF holder # t THEN UNCHANGED <<holder, queue>>
    ELSE IF queue = <<>> THEN holder' = NoTask /\ UNCHANGED queue
    ELSE holder' = Head(queue) /\ queue' = Tail(queue)

\* Give the lock up, if held, and queue for it again.
Wait(t, at) ==
    /\ ~CanTake(t) /\ ~CannotWait
    /\ IF holder = t
       THEN holder' = Head(queue) /\ queue' = Append(Tail(queue), t)
       ELSE holder' = holder /\ queue' = Append(queue, t)
    /\ lockLoop' = loop
    /\ pc' = [pc EXCEPT ![t] = at]

\* Suspend inside the locked block, with c as the call's client.
Enter(t, at, c) ==
    /\ holder' = t
    /\ pc' = [pc EXCEPT ![t] = at]
    /\ held' = [held EXCEPT ![t] = c]
    /\ UNCHANGED <<queue, lockLoop>>

\* Leave the locked block, if in it, and go on with c as the call's client.
Leave(t, at, c) ==
    /\ Release(t)
    /\ pc' = [pc EXCEPT ![t] = at]
    /\ held' = [held EXCEPT ![t] = c]
    /\ UNCHANGED lockLoop

----------------------------------------------------------------------------
(* _invalidate_client, called by healthcheck_safe when the body raises *)

\* Its locked block, where cached is the value of _client.
InvalidateBlock(t, cached, connNow) ==
    IF cached = NoClient
    THEN Leave(t, "failed", NoClient) /\ conn' = connNow
    ELSE Enter(t, "inval", held[t]) /\ conn' = [connNow EXCEPT ![cached] = "half"]

\* Mutant: do not wait for a busy lock to invalidate.
FailingHasty(t, cached, connNow) ==
    \/ CanTake(t) /\ InvalidateBlock(t, cached, connNow)
    \/ ~CanTake(t) /\ Leave(t, "failed", NoClient) /\ conn' = connNow

\* The body raised, which releases the lock: invalidate, then report failure.
Failing(t, cached, connNow) ==
    \/ CanTake(t) /\ InvalidateBlock(t, cached, connNow)
    \/ Wait(t, "invalWait") /\ conn' = connNow /\ UNCHANGED held
    \/ ~CanTake(t) /\ CannotWait /\ Leave(t, "raised", NoClient) /\ conn' = connNow

\* Mutant: forget the client instead of closing it.
BodyRaisesForgetting(t) ==
    /\ Failing(t, NoClient, conn)
    /\ client' = NoClient /\ clientLoop' = NoLoop
    /\ UNCHANGED <<connLoop, started>>

\* Mutant: the lock is released only when the body returns.
BodyRaisesHolding(t) ==
    /\ pc' = [pc EXCEPT ![t] = "failed"] /\ held' = [held EXCEPT ![t] = NoClient]
    /\ UNCHANGED <<cacheVars, lockVars, connVars>>

\* An awaited client operation raised an Exception in the body of the check.
BodyRaises(t) ==
    /\ Failing(t, client, conn)
    /\ UNCHANGED <<cacheVars, connLoop, started>>

----------------------------------------------------------------------------
(* _ensure_client *)

\* A client object that neither the cache nor a call refers to.
Fresh(c) == conn[c] = "none" /\ client # c /\ \A t \in Tasks : held[t] # c

Usable(c) == Validates => conn[c] = "open"

\* Mutant: a client of another loop is as good.
ReusableAnywhere == Usable(client)

Reusable == clientLoop = loop /\ Usable(client)

\* Mutant: the ready hook runs after the locked block.
InstallUnlocked(t, c, connNow) ==
    /\ client' = c /\ clientLoop' = loop
    /\ conn' = [connNow EXCEPT ![c] = "open"]
    /\ connLoop' = [connLoop EXCEPT ![c] = loop]
    /\ Leave(t, IF HasReadyHook THEN "ready" ELSE "use", c)
    /\ started' = IF HasReadyHook THEN started \ {c} ELSE started \union {c}

\* Mutant: the value read before the creation is returned.
InstallStale(t, c, connNow) ==
    /\ client' = c /\ clientLoop' = loop
    /\ conn' = [connNow EXCEPT ![c] = "open"]
    /\ connLoop' = [connLoop EXCEPT ![c] = loop]
    /\ Leave(t, "use", client) /\ started' = started \union {c}

\* self._client = created, then the _on_client_ready hook.
Install(t, c, connNow) ==
    /\ client' = c /\ clientLoop' = loop
    /\ conn' = [connNow EXCEPT ![c] = "open"]
    /\ connLoop' = [connLoop EXCEPT ![c] = loop]
    /\ IF HasReadyHook
       THEN Enter(t, "ready", c) /\ started' = started \ {c}
       ELSE Leave(t, "use", c) /\ started' = started \union {c}

\* The cache is empty: _client_loop is set before _create_client runs, which
\* returns an awaitable, or a client, or raises.
Create(t, connNow) ==
    \/ /\ AsyncCreate
       /\ Enter(t, "create", NoClient)
       /\ client' = NoClient /\ clientLoop' = loop
       /\ conn' = connNow /\ UNCHANGED <<connLoop, started>>
    \/ /\ ~AsyncCreate
       /\ \E c \in Clients : Fresh(c) /\ Install(t, c, connNow)
    \/ /\ ~AsyncCreate
       /\ Failing(t, NoClient, connNow)
       /\ client' = NoClient /\ clientLoop' = loop
       /\ UNCHANGED <<connLoop, started>>

\* The locked block up to its first await or its return.
EnsureBlock(t) ==
    \/ client = NoClient /\ Create(t, conn)
    \/ /\ client # NoClient /\ Reusable
       /\ Leave(t, "use", client)
       /\ UNCHANGED <<cacheVars, connVars>>
    \/ /\ client # NoClient /\ ~Reusable
       /\ Enter(t, "evict", client)
       /\ conn' = [conn EXCEPT ![client] = "half"]
       /\ UNCHANGED <<cacheVars, connLoop, started>>

----------------------------------------------------------------------------
(* The steps of a call to the check *)

Check(t) ==
    /\ pc[t] \in AtRest
    /\ \/ CanTake(t) /\ EnsureBlock(t)
       \/ Wait(t, "ensureWait") /\ UNCHANGED <<cacheVars, held, connVars>>
       \/ /\ ~CanTake(t) /\ CannotWait   \* _invalidate_client raises as well
          /\ Leave(t, "raised", NoClient)
          /\ UNCHANGED <<cacheVars, connVars>>
    /\ UNCHANGED loop

EnsureResumes(t) ==
    /\ pc[t] = "ensureWait" /\ holder = t
    /\ EnsureBlock(t)
    /\ UNCHANGED loop

\* The close of a stale client ended; what it raised is suppressed.
Evicted(t) ==
    /\ pc[t] = "evict"
    /\ \E end \in Gone : Create(t, [conn EXCEPT ![client] = end])
    /\ UNCHANGED loop

Created(t) ==
    /\ pc[t] = "create"
    /\ \/ \E c \in Clients : Fresh(c) /\ Install(t, c, conn)
       \/ BodyRaises(t)
    /\ UNCHANGED loop

\* start() returned and sets _started, or raised: the client stays cached.
Readied(t) ==
    /\ pc[t] = "ready"
    /\ \/ /\ Leave(t, "use", held[t])
          /\ started' = started \union {held[t]}
          /\ UNCHANGED <<cacheVars, conn, connLoop>>
       \/ BodyRaises(t)
    /\ UNCHANGED loop

\* The request on the client returned, which takes a started client that is not
\* closed, or raised.
Used(t) ==
    /\ pc[t] = "use"
    /\ \/ /\ held[t] \in started /\ conn[held[t]] # "none"
          /\ Leave(t, "returned", NoClient)
          /\ UNCHANGED <<cacheVars, connVars>>
       \/ BodyRaises(t)
    /\ UNCHANGED loop

InvalidateResumes(t) ==
    /\ pc[t] = "invalWait" /\ holder = t
    /\ InvalidateBlock(t, client, conn)
    /\ UNCHANGED <<cacheVars, connLoop, started, loop>>

\* The close ended, whatever it raised: forget the client and report failure.
Invalidated(t) ==
    /\ pc[t] = "inval"
    /\ client' = NoClient /\ clientLoop' = NoLoop
    /\ \E end \in Gone : conn' = [conn EXCEPT ![client] = end]
    /\ Leave(t, "failed", NoClient)
    /\ UNCHANGED <<connLoop, started, loop>>

----------------------------------------------------------------------------
(* aclose *)

CloseBlock(t) ==
    /\ UNCHANGED <<cacheVars, connLoop, started>>
    /\ IF client = NoClient
       THEN Leave(t, "returned", NoClient) /\ UNCHANGED conn
       ELSE Enter(t, "close", client) /\ conn' = [conn EXCEPT ![client] = "half"]

Aclose(t) ==
    /\ pc[t] \in AtRest
    /\ \/ CanTake(t) /\ CloseBlock(t)
       \/ Wait(t, "closeWait") /\ UNCHANGED <<cacheVars, held, connVars>>
       \/ /\ ~CanTake(t) /\ CannotWait
          /\ Leave(t, "closeRaised", NoClient)
          /\ UNCHANGED <<cacheVars, connVars>>
    /\ UNCHANGED loop

AcloseResumes(t) ==
    /\ pc[t] = "closeWait" /\ holder = t
    /\ CloseBlock(t)
    /\ UNCHANGED loop

\* Mutant: what the close raises is suppressed, and the cache not cleared.
ClosedQuietly(t) ==
    /\ pc[t] = "close"
    /\ \/ /\ client' = NoClient /\ clientLoop' = NoLoop
          /\ conn' = [conn EXCEPT ![client] = "none"]
       \/ UNCHANGED <<cacheVars, conn>>
    /\ Leave(t, "returned", NoClient)
    /\ UNCHANGED <<connLoop, started, loop>>

\* The close returned and the cache is cleared, or it raised and nothing
\* suppresses that: the client stays cached.
Closed(t) ==
    /\ pc[t] = "close"
    /\ \/ /\ client' = NoClient /\ clientLoop' = NoLoop
          /\ conn' = [conn EXCEPT ![client] = "none"]
          /\ Leave(t, "returned", NoClient)
       \/ Leave(t, "closeRaised", NoClient) /\ UNCHANGED <<cacheVars, conn>>
    /\ UNCHANGED <<connLoop, started, loop>>

----------------------------------------------------------------------------
(* The environment *)

\* CancelledError at the await the task is suspended at: it passes every
\* "except Exception", so only the lock is given back.
Cancel(t) ==
    /\ pc[t] \notin AtRest
    /\ IF holder # t /\ pc[t] \in Waiting
       THEN /\ \E i \in 1..Len(queue) : queue[i] = t /\ queue' = RemoveAt(queue, i)
            /\ UNCHANGED holder
       ELSE Release(t)
    /\ pc' = [pc EXCEPT ![t] = "cancelled"]
    /\ held' = [held EXCEPT ![t] = NoClient]
    /\ UNCHANGED <<cacheVars, lockLoop, loop, connVars>>

\* The backend drops a connection (is_closed turns true).
Drop(c) ==
    /\ conn[c] = "open"
    /\ conn' = [conn EXCEPT ![c] = "down"]
    /\ UNCHANGED <<cacheVars, lockVars, pc, held, loop, connLoop, started>>

\* The event loop ends with no call pending and the object is used on another.
SwitchLoop ==
    /\ \A t \in Tasks : pc[t] \in AtRest
    /\ loop' \in Loops \ {loop}
    /\ UNCHANGED <<cacheVars, lockVars, pc, held, connVars>>

Proceed(t) ==
    \/ EnsureResumes(t) \/ Evicted(t) \/ Created(t) \/ Readied(t) \/ Used(t)
    \/ InvalidateResumes(t) \/ Invalidated(t)
    \/ AcloseResumes(t) \/ Closed(t)

Next ==
    \/ \E t \in Tasks : Check(t) \/ Aclose(t) \/ Proceed(t) \/ Cancel(t)
    \/ \E c \in Clients : Drop(c)
    \/ SwitchLoop

Spec == Init /\ [][Next]_vars

\* The client libraries answer or time out, so every await ends; nothing makes
\* a caller start a call, cancel one or switch loops.
FairSpec == Spec /\ \A t \in Tasks : WF_vars(Proceed(t))

----------------------------------------------------------------------------
(* Properties *)

\* Nothing is awaited inside "async with self._ensure_client_lock" except by
\* the task that owns the lock, so no two calls create, start or close a
\* client at the same time.
LockHeldInside == \A t \in Tasks : pc[t] \in Critical => holder = t

\* No connection is left behind but by a close that raised: whatever calls
\* overlap, fail or are cancelled, a client whose close has not run to its end
\* is the one in the cache, where the next call, invalidation or aclose() finds
\* it, or its close was called, raised, and suppress(Exception) dropped both.
NoConnectionLost == \A c \in Clients : conn[c] \notin Gone => client = c

\* _client_loop tells the truth about the cached client, and a call uses only
\* a client that was made on the loop it runs on.
OnOwnLoop ==
    /\ client # NoClient => clientLoop = connLoop[client]
    /\ \A t \in Tasks : pc[t] = "use" => connLoop[held[t]] = loop

\* While a client is being started it is the cached one and nobody closes it:
\* a failing call or an aclose() that comes meanwhile waits for start() to end.
StartUndisturbed ==
    \A t \in Tasks : pc[t] = "ready" =>
        client = held[t] /\ conn[held[t]] \in {"open", "down"}

\* A call that reports a failure leaves a cache without the client it failed
\* on, whoever closed, kept or replaced that client in the meantime.
FailureForgetsClient ==
    [][\A t \in Tasks :
         pc[t] # "failed" /\ pc'[t] = "failed" /\ held[t] # NoClient
            => client' # held[t]]_vars

\* When aclose() returns normally every client the check has made is closed, or
\* lost to an earlier close that raised under suppress(Exception), although
\* calls overlap with it and start others.  A close of aclose() itself that
\* raises does not return normally and loses no client.
AcloseLeavesNothingOpen ==
    [][\A t \in Tasks :
         pc[t] # "use" /\ pc[t] # "returned" /\ pc'[t] = "returned"
            => \A c \in Clients : conn'[c] \in Gone]_vars

\* Every call ends: no call waits forever for a lock that a failed or
\* cancelled call has left behind.
CallsEnd == \A t \in Tasks : pc[t] \notin AtRest ~> pc[t] \in AtRest

\* The cache keeps the promise of SharedClient.
Shared == INSTANCE SharedClient WITH
    slot <- client,
    closing <- \E t \in Tasks : pc[t] \in {"evict", "inval", "close"},
    home <- IF client = NoClient THEN NoLoop ELSE connLoop[client],
    borrowed <- [t \in Tasks |-> IF pc[t] = "use" THEN held[t] ELSE NoClient],
    loop <- loop

SharedClientSpec == Shared!Spec

\* _base.py:225 gives _on_client_ready to clients "that need an explicit start
\* step" as the one-time initialization of every created client: a client a
\* call uses has been started.
UsedClientIsStarted == \A t \in Tasks : pc[t] = "use" => held[t] \in started
=============================================================================
