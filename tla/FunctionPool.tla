---------------------------- MODULE FunctionPool ----------------------------
(***************************************************************************)
(* The function check (src/fast_healthchecks/checks/function.py) and the   *)
(* name resolution of the URL check (validate_host_ssrf_async in           *)
(* src/fast_healthchecks/utils.py).  A check of a synchronous function and *)
(* a resolution wait for a work item of one thread pool, the first with a  *)
(* timeout; a check of a coroutine function awaits it, with a timeout.     *)
(*                                                                         *)
(* run_in_executor joins two futures.  The one the call awaits is          *)
(* cancelled at once by a timeout or a caller; a callback of the event     *)
(* loop then cancels the pool's, which works only while the item is        *)
(* queued.  A worker that has begun an item is never interrupted.          *)
(***************************************************************************)
EXTENDS Naturals, Sequences, FiniteSets

CONSTANTS
    Functions,      \* tasks that call the check of a synchronous function
    Coroutines,     \* tasks that call the check of a coroutine function
    Resolvers,      \* tasks that resolve the host of a URL
    Items,          \* work items, reused once nothing refers to them
    NoItem,
    Workers         \* threads of the pool

ASSUME TasksAssumption ==
    /\ Functions \intersect Resolvers = {}
    /\ Coroutines \intersect (Functions \union Resolvers) = {}
ASSUME NoItemAssumption == NoItem \notin Items
ASSUME WorkersAssumption == Workers \in Nat \ {0}

Pooled == Functions \union Resolvers
Tasks  == Pooled \union Coroutines

VARIABLES
    pc,         \* where each call is
    item,       \* the work item each call waits for
    asked,      \* who has cancelled the await of the call
    result,     \* how the last call of each task ended
    state,      \* the work items, as the pool's futures say
    outcome,    \* what each item came to
    queue       \* the pool's queue, cancelled items included

vars == <<pc, item, asked, result, state, outcome, queue>>

\* "await": the future is pending; "answered": it has the outcome; "stopping": it
\* is cancelled; "stopped": and the pool's future has been told.
PCs      == {"idle", "await", "answered", "stopping", "stopped"}
Outcomes == {"healthy", "unhealthy", "raised"}

TypeOK ==
    /\ pc \in [Tasks -> PCs]
    /\ item \in [Tasks -> Items \union {NoItem}]
    /\ asked \in [Tasks -> {"none", "timer", "caller"}]
    /\ result \in [Tasks -> Outcomes \union {"none", "timeout", "cancelled"}]
    /\ state \in [Items -> {"free", "queued", "running", "finished", "cancelled"}]
    /\ outcome \in [Items -> Outcomes \union {"none"}]
    /\ queue \in Seq(Items)
    /\ \A t \in Pooled : pc[t] = "answered" => outcome[item[t]] \in Outcomes

Init ==
    /\ pc = [t \in Tasks |-> "idle"] /\ item = [t \in Tasks |-> NoItem]
    /\ asked = [t \in Tasks |-> "none"] /\ result = [t \in Tasks |-> "none"]
    /\ state = [i \in Items |-> "free"] /\ outcome = [i \in Items |-> "none"]
    /\ queue = <<>>

Free    == {i \in Items : state[i] = "free"}
Running == {i \in Items : state[i] = "running"}

\* The work item i is awaited by a call.
Awaited(i) == \E t \in Tasks : item[t] = i

----------------------------------------------------------------------------
(* The pool, in its own threads *)

\* An idle worker takes the next item; set_running_or_notify_cancel discards a
\* cancelled one.
WorkerTakes ==
    /\ queue # <<>> /\ Cardinality(Running) < Workers
    /\ queue' = Tail(queue)
    /\ state' = [state EXCEPT ![Head(queue)] =
                   IF @ = "queued" THEN "running" ELSE IF Awaited(Head(queue)) THEN @ ELSE "free"]
    /\ UNCHANGED <<pc, item, asked, result, outcome>>

\* The function returns or raises; nobody hears of it when its call has ended.
Finishes(i) ==
    /\ state[i] = "running"
    /\ state' = [state EXCEPT ![i] = IF Awaited(i) THEN "finished" ELSE "free"]
    /\ \E o \in Outcomes : outcome' = [outcome EXCEPT ![i] = IF Awaited(i) THEN o ELSE "none"]
    /\ UNCHANGED <<pc, item, asked, result, queue>>

----------------------------------------------------------------------------
(* The calls, in the event loop *)

\* run_in_executor: the item joins the queue.  (Bound: an item must be free.)
Submit(t) ==
    /\ pc[t] = "idle"
    /\ Free # {}
    /\ LET i == CHOOSE j \in Free : TRUE IN
         /\ state' = [state EXCEPT ![i] = "queued"]
         /\ queue' = Append(queue, i)
         /\ item' = [item EXCEPT ![t] = i]
    /\ pc' = [pc EXCEPT ![t] = "await"] /\ result' = [result EXCEPT ![t] = "none"]
    /\ UNCHANGED <<asked, outcome>>

\* Mutant: the future of the call is resolved when the function starts.
DeliveredEarly(t) ==
    /\ pc[t] = "await" /\ state[item[t]] = "running"
    /\ pc' = [pc EXCEPT ![t] = "answered"]
    /\ UNCHANGED <<item, asked, result, state, outcome, queue>>

\* The outcome is copied to the awaited future, unless that is cancelled.
Delivered(t) ==
    /\ pc[t] = "await" /\ state[item[t]] = "finished"
    /\ pc' = [pc EXCEPT ![t] = "answered"]
    /\ UNCHANGED <<item, asked, result, state, outcome, queue>>

\* Task.cancel cancels the awaited future, if it is pending.  (Bound: one
\* cancellation of a call.)
Stop(t, who) ==
    /\ pc[t] \in {"await", "answered"} /\ asked[t] = "none"
    /\ asked' = [asked EXCEPT ![t] = who]
    /\ pc' = [pc EXCEPT ![t] = IF @ = "await" THEN "stopping" ELSE @]
    /\ UNCHANGED <<item, result, state, outcome, queue>>

\* Mutant: the timeout runs from the start of the function.
TimerFiresStarted(t) ==
    t \in Functions /\ pc[t] # "idle" /\ state[item[t]] # "queued" /\ Stop(t, "timer")

\* wait_for; a resolution has no timeout.
TimerFires(t) == t \in Functions \union Coroutines /\ Stop(t, "timer")

CallerCancels(t) == Stop(t, "caller")

\* Mutant: the work item is shielded from the cancellation.
PropagatesNothing(t) ==
    /\ pc[t] = "stopping"
    /\ pc' = [pc EXCEPT ![t] = "stopped"]
    /\ UNCHANGED <<item, asked, result, state, outcome, queue>>

\* The callback that cancels the pool's future comes before the call is resumed.
Propagates(t) ==
    /\ pc[t] = "stopping"
    /\ pc' = [pc EXCEPT ![t] = "stopped"]
    /\ state' = [state EXCEPT ![item[t]] = IF @ = "queued" THEN "cancelled" ELSE @]
    /\ UNCHANGED <<item, asked, result, outcome, queue>>

\* The call ends by r and lets go of its item: one that is through is free, a
\* queued one waits to be discarded, a running one goes on without it.
EndCall(t, r) ==
    LET i == item[t]
        over == state[i] = "finished"
                  \/ (state[i] = "cancelled" /\ \A k \in DOMAIN queue : queue[k] # i)
    IN /\ result' = [result EXCEPT ![t] = r]
       /\ pc' = [pc EXCEPT ![t] = "idle"] /\ item' = [item EXCEPT ![t] = NoItem]
       /\ state' = [state EXCEPT ![i] = IF over THEN "free" ELSE @]
       /\ outcome' = [outcome EXCEPT ![i] = IF over THEN "none" ELSE @]
       /\ asked' = [asked EXCEPT ![t] = "none"]
       /\ UNCHANGED queue

\* Mutant: an interrupted call reports the outcome its item has by then.
EndedAnyway(t) ==
    EndCall(t, IF state[item[t]] = "finished" THEN outcome[item[t]] ELSE "healthy")

\* CancelledError at the await: wait_for turns its own into TimeoutError.
Ended(t) == EndCall(t, IF asked[t] = "timer" THEN "timeout" ELSE "cancelled")

\* The call is resumed.  When it was cancelled after the answer, wait_for raises
\* or returns the answer with the Python version; a plain await raises.
Resumes(t) ==
    \/ pc[t] = "answered" /\ (asked[t] = "none" \/ t \in Functions) /\ EndCall(t, outcome[item[t]])
    \/ pc[t] = "answered" /\ asked[t] # "none" /\ Ended(t)
    \/ pc[t] = "stopped" /\ Ended(t)

----------------------------------------------------------------------------
(* Coroutine functions, in the event loop *)

Called(t) ==
    /\ pc[t] = "idle"
    /\ pc' = [pc EXCEPT ![t] = "await"] /\ result' = [result EXCEPT ![t] = "none"]
    /\ UNCHANGED <<item, asked, state, outcome, queue>>

Returns(t, r) ==
    /\ result' = [result EXCEPT ![t] = r] /\ pc' = [pc EXCEPT ![t] = "idle"]
    /\ asked' = [asked EXCEPT ![t] = "none"]
    /\ UNCHANGED <<item, state, outcome, queue>>

CoroutineEnds(t) == pc[t] = "await" /\ \E o \in Outcomes : Returns(t, o)

\* A cancelled coroutine leaves its finally blocks, or catches the cancellation and
\* ends in a way of its own, which is then the answer of the call.
Unwinds(t) ==
    /\ pc[t] = "stopping"
    /\ \E o \in Outcomes \union {IF asked[t] = "timer" THEN "timeout" ELSE "cancelled"} :
         Returns(t, o)

----------------------------------------------------------------------------

Next ==
    \/ WorkerTakes
    \/ \E i \in Items : Finishes(i)
    \/ \E t \in Pooled : Submit(t) \/ Delivered(t) \/ Propagates(t) \/ Resumes(t)
    \/ \E t \in Coroutines : Called(t) \/ CoroutineEnds(t) \/ Unwinds(t)
    \/ \E t \in Tasks : TimerFires(t) \/ CallerCancels(t)

Spec == Init /\ [][Next]_vars

\* The event loop runs, timers fire and idle workers take items; a function, a
\* resolution or a coroutine may never return by itself, but a cancelled coroutine
\* comes to its end.
HungSpec ==
    /\ Spec /\ WF_vars(WorkerTakes)
    /\ \A t \in Pooled : WF_vars(Delivered(t)) /\ WF_vars(Propagates(t)) /\ WF_vars(Resumes(t))
    /\ \A t \in Coroutines : WF_vars(Unwinds(t))
    /\ \A t \in Functions \union Coroutines : WF_vars(TimerFires(t))

----------------------------------------------------------------------------
(* Properties *)

\* function.py:40 speaks of an abandoned worker, which there is only when the
\* function has begun: a function whose call has timed out or was cancelled while
\* it was queued never starts afterwards.
NoLateStart ==
    [][\A i \in Items :
         state[i] = "queued" /\ state'[i] = "running" => Awaited(i)]_vars

\* A call of a function check ends although all workers hang in abandoned
\* functions and its own function stays in the queue, or its coroutine hangs.
TimeoutBoundsCall == \A t \in Functions \union Coroutines : pc[t] # "idle" ~> pc[t] = "idle"

\* What a check reports is what the function of this very call came to: a worker
\* never answers two calls, nor an abandoned one a later call.
AnswerIsItsOwn ==
    [][\A t \in Pooled :
         pc[t] # "idle" /\ pc'[t] = "idle" /\ result'[t] \in Outcomes
            => /\ result'[t] = outcome[item[t]] /\ state[item[t]] = "finished"
               /\ \A u \in Pooled \ {t} : item[u] # item[t]]_vars
=============================================================================
