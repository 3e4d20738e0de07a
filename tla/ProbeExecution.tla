--------------------------- MODULE ProbeExecution ---------------------------
(***************************************************************************)
(* One call of run_probe (src/fast_healthchecks/execution.py): a probe's   *)
(* checks run in parallel under asyncio.gather and a semaphore, or one     *)
(* after the other with hooks, inside an optional wait_for.                *)
(*                                                                         *)
(* asyncio is external: gather, wait_for, Semaphore and Task.cancel are    *)
(* modelled as run_probe uses them.  A check is external too: it answers,  *)
(* raises, raises CancelledError of its own, or, once cancelled, ends at   *)
(* once or after the awaits of its handlers and finally blocks             *)
(* ("unwinding"), which may replace the cancellation by an Exception, as   *)
(* in the PostgreSQL checks, and which nothing bounds: asyncpg's rollback  *)
(* waits for the server without a timeout.  A hook is as free as a check.  *)
(***************************************************************************)
EXTENDS Integers, Sequences, FiniteSets

CONSTANTS
    N,              \* number of checks of the probe
    Calls,          \* the arguments of run_probe to consider
    SelfCancels,    \* a check may raise CancelledError without being cancelled
    Swallows        \* a cancelled check or hook may end otherwise than cancelled

\* execution = "sequential", the hooks that are given, max_concurrency (N or more
\* stands for None), whether there is a timeout, on_timeout_return_failure.
Arguments ==
    [sequential : BOOLEAN, startHook : BOOLEAN, endHook : BOOLEAN,
     cap : Nat \ {0}, timeout : BOOLEAN, returnFailure : BOOLEAN]

ASSUME SizeAssumption == N \in Nat
ASSUME CallsAssumption == Calls \subseteq Arguments
ASSUME OptionAssumption == {SelfCancels, Swallows} \subseteq BOOLEAN

Checks == 1..N

VARIABLES
    args,       \* the arguments of the call
    check,      \* state of each check
    answer,     \* the result of each check that ended with one
    asked,      \* checks whose cancellation is requested and not delivered
    permits,    \* the semaphore
    at,         \* Direct: the check in turn and what of it is awaited
    order,      \* the checks in the order in which they answered
    inner,      \* what the awaited execution ended with
    cause,      \* who cancelled the execution
    run,        \* how run_probe ended
    report      \* the results it returned

vars == <<args, check, answer, asked, permits, at, order, inner, cause, run, report>>

\* The checks are awaited in turn by the run itself instead of in tasks.
InTurn == args.sequential \/ args.startHook \/ args.endHook
Direct == InTurn \/ N = 1

Active  == {"running", "unwinding"}
Settled == {"done", "cancelled"}
States  == {"pending"} \union Active \union Settled
Answers == {"none", "healthy", "error"}
\* What of the check in turn is awaited: itself, a hook, or the handlers of a
\* hook that has been cancelled.
HookPhases == {"startHook", "endHook", "startUnwinding", "endUnwinding"}
Phases  == {"none", "check"} \union HookPhases
Inner   == {"pending", "results", "cancelled", "timeoutError", "hookError"}
Outcomes == {"running", "returned", "timeoutReport", "timeoutRaised", "cancelled", "raised"}
\* A result of the report: the check it belongs to and what it says.
Results == [of : Checks, says : Answers \union {"PROBE_TIMEOUT"}]

TypeOK ==
    /\ args \in Calls
    /\ check \in [Checks -> States] /\ answer \in [Checks -> Answers]
    /\ asked \subseteq Checks /\ permits \in 0..args.cap
    /\ at \in [index : 0..N, phase : Phases]
    /\ order \in Seq(Checks) /\ Len(order) <= N
    /\ inner \in Inner /\ cause \in {"none", "timer", "caller"}
    /\ run \in Outcomes /\ report \in Seq(Results)

FirstPhase == IF args.startHook THEN "startHook" ELSE "check"

Init ==
    /\ args \in Calls
    /\ answer = [i \in Checks |-> "none"]
    /\ asked = {} /\ permits = args.cap /\ order = <<>>
    /\ cause = "none" /\ run = "running" /\ report = <<>>
    /\ inner = IF N = 0 THEN "results" ELSE "pending"
    /\ at = IF Direct /\ N > 0 THEN [index |-> 1, phase |-> FirstPhase]
                               ELSE [index |-> 0, phase |-> "none"]
    /\ check = [i \in Checks |->
                  IF Direct /\ i = 1 /\ FirstPhase = "check" THEN "running" ELSE "pending"]

----------------------------------------------------------------------------
(* _run_parallel: gather over run_limited *)

\* Mutant: the permit is tested and not taken.
StartUncounted(i) ==
    /\ ~Direct
    /\ check[i] = "pending" /\ i \notin asked
    /\ permits > 0 /\ \A j \in 1..(i-1) : check[j] # "pending"
    /\ check' = [check EXCEPT ![i] = "running"]
    /\ UNCHANGED <<permits, answer, asked, at, order, inner, cause, run, report, args>>

\* Mutant: a cancelled waiter takes the permit it is woken with.
StartCancelled(i) ==
    /\ ~Direct
    /\ check[i] = "pending"
    /\ permits > 0 /\ \A j \in 1..(i-1) : check[j] # "pending"
    /\ check' = [check EXCEPT ![i] = "running"]
    /\ permits' = permits - 1
    /\ UNCHANGED <<answer, asked, at, order, inner, cause, run, report, args>>

\* The waiters of the semaphore are woken in the order of the checks.
Start(i) ==
    /\ ~Direct
    /\ check[i] = "pending" /\ i \notin asked
    /\ permits > 0 /\ \A j \in 1..(i-1) : check[j] # "pending"
    /\ check' = [check EXCEPT ![i] = "running"]
    /\ permits' = permits - 1
    /\ UNCHANGED <<answer, asked, at, order, inner, cause, run, report, args>>

\* gather ends with the first child that ends cancelled, whatever the others
\* do, or with the last answer: cancelled too if it was asked to be.
Gathered(i, how) ==
    IF inner # "pending" THEN inner
    ELSE IF how = "cancelled" THEN "cancelled"
    ELSE IF \E j \in Checks \ {i} : check[j] # "done" THEN "pending"
    ELSE IF cause = "none" THEN "results" ELSE "cancelled"

----------------------------------------------------------------------------
(* _run_sequential, and the only check of a probe *)

\* Check i is through, with checkNow the states of the checks: go on to the next
\* one, or end with the results.
Advance(i, checkNow) ==
    IF i = N
    THEN inner' = "results" /\ at' = [at EXCEPT !.phase = "none"] /\ check' = checkNow
    ELSE /\ at' = [index |-> i + 1, phase |-> FirstPhase]
         /\ check' = IF FirstPhase = "check"
                     THEN [checkNow EXCEPT ![i + 1] = "running"] ELSE checkNow
         /\ UNCHANGED inner

\* A hook ends as it may: as it does uncancelled, or, if it has been cancelled,
\* in the same ways when it swallows that.
InHook(phase, unwinding) ==
    inner = "pending" /\ (at.phase = phase \/ (Swallows /\ at.phase = unwinding))

StartHookReturns ==
    /\ InHook("startHook", "startUnwinding")
    /\ check' = [check EXCEPT ![at.index] = "running"]
    /\ at' = [at EXCEPT !.phase = "check"]
    /\ UNCHANGED <<answer, asked, permits, order, inner, cause, run, report, args>>

EndHookReturns ==
    /\ InHook("endHook", "endUnwinding")
    /\ Advance(at.index, check)
    /\ UNCHANGED <<answer, asked, permits, order, cause, run, report, args>>

\* An exception of a hook leaves _run_sequential; TimeoutError is set apart.
HookRaises ==
    /\ InHook("startHook", "startUnwinding") \/ InHook("endHook", "endUnwinding")
    /\ inner' \in {"timeoutError", "hookError"}
    /\ at' = [at EXCEPT !.phase = "none"]
    /\ UNCHANGED <<check, answer, asked, permits, order, cause, run, report, args>>

\* The handlers of a cancelled hook are through, and CancelledError leaves it.
HookUnwound ==
    /\ inner = "pending" /\ at.phase \in {"startUnwinding", "endUnwinding"}
    /\ inner' = "cancelled"
    /\ at' = [at EXCEPT !.phase = "none"]
    /\ UNCHANGED <<check, answer, asked, permits, order, cause, run, report, args>>

----------------------------------------------------------------------------
(* _run_check_safe *)

\* Mutant: the permit is not given back.
LeavesHolding(i) == asked' = asked \ {i} /\ UNCHANGED permits

\* The check and the semaphore's block are left.
Leaves(i) == asked' = asked \ {i} /\ permits' = IF Direct THEN permits ELSE permits + 1

\* The check ends with a result that says a.
EndsWith(i, a) ==
    /\ answer' = [answer EXCEPT ![i] = a]
    /\ order' = Append(order, i)
    /\ Leaves(i)
    /\ LET ended == [check EXCEPT ![i] = "done"] IN
       \/ ~Direct /\ check' = ended /\ inner' = Gathered(i, "done") /\ UNCHANGED at
       \/ /\ Direct /\ args.endHook
          /\ check' = ended /\ at' = [at EXCEPT !.phase = "endHook"] /\ UNCHANGED inner
       \/ Direct /\ ~args.endHook /\ Advance(i, ended)
    /\ UNCHANGED <<cause, run, report, args>>

\* It returns a result, or raises an Exception that becomes one.
Answered(i) ==
    /\ check[i] = "running" /\ i \notin asked
    /\ \E a \in {"healthy", "error"} : EndsWith(i, a)

\* CancelledError leaves the check, and with it its task or the whole run.
EndsCancelled(i) ==
    /\ check' = [check EXCEPT ![i] = "cancelled"]
    /\ IF Direct THEN inner' = "cancelled" /\ at' = [at EXCEPT !.phase = "none"]
                 ELSE inner' = Gathered(i, "cancelled") /\ UNCHANGED at
    /\ UNCHANGED <<answer, order, cause, run, report, args>>

\* A check raises CancelledError that nobody asked for.
CancelsItself(i) ==
    /\ SelfCancels
    /\ check[i] = "running" /\ i \notin asked
    /\ EndsCancelled(i) /\ Leaves(i)

\* Mutant: the run ends when the cancellation is delivered.
DeliveredEarly(i) ==
    /\ i \in asked /\ check[i] = "running" /\ asked' = asked \ {i}
    /\ \/ EndsCancelled(i) /\ permits' = IF Direct THEN permits ELSE permits + 1
       \/ /\ check' = [check EXCEPT ![i] = "unwinding"] /\ inner' = "cancelled"
          /\ UNCHANGED <<answer, permits, at, order, cause, run, report, args>>

\* The requested cancellation reaches a check that waits for the semaphore, or
\* one that runs, which ends or goes on to await in its finally blocks.
Delivered(i) ==
    /\ i \in asked
    /\ \/ check[i] = "pending" /\ EndsCancelled(i) /\ asked' = asked \ {i} /\ UNCHANGED permits
       \/ check[i] = "running" /\ EndsCancelled(i) /\ Leaves(i)
       \/ /\ check[i] = "running"
          /\ check' = [check EXCEPT ![i] = "unwinding"]
          /\ asked' = asked \ {i}
          /\ UNCHANGED <<answer, permits, at, order, inner, cause, run, report, args>>

\* The finally blocks are through, or raised an Exception: the run then goes on
\* as with any other result.
Unwound(i) ==
    /\ check[i] = "unwinding"
    /\ \/ EndsCancelled(i) /\ Leaves(i)
       \/ Swallows /\ EndsWith(i, "error")

----------------------------------------------------------------------------
(* run_probe: wait_for and what becomes of its outcome *)

\* Mutant: the execution is shielded from the timeout.
ToCancelShielded == asked

\* Mutant: only checks under way are cancelled.
ToCancelRunning == IF inner = "pending" THEN {i \in Checks : check[i] = "running"} ELSE asked

\* gather cancels every child that is not done; Direct has one await to cancel.
ToCancel ==
    IF inner # "pending" THEN asked
    ELSE IF Direct THEN {at.index}
    ELSE {i \in Checks : check[i] \notin Settled}

\* The hook under way is cancelled: it ends at once, or awaits in its handlers.
CancelHook ==
    /\ inner = "pending" /\ at.phase \in {"startHook", "endHook"}
    /\ UNCHANGED asked
    /\ \/ inner' = "cancelled" /\ at' = [at EXCEPT !.phase = "none"]
       \/ at.phase = "startHook" /\ at' = [at EXCEPT !.phase = "startUnwinding"] /\ UNCHANGED inner
       \/ at.phase = "endHook" /\ at' = [at EXCEPT !.phase = "endUnwinding"] /\ UNCHANGED inner

\* The execution is cancelled.  (Bound: one cancellation for each run.)
CancelExecution(who) ==
    /\ run = "running" /\ cause = "none" /\ cause' = who
    /\ \/ CancelHook
       \/ /\ inner # "pending" \/ at.phase \notin HookPhases
          /\ asked' = ToCancel /\ UNCHANGED <<inner, at>>
    /\ UNCHANGED <<check, answer, permits, order, run, report, args>>

\* The timeout of wait_for.  A probe without checks awaits nothing, so that only
\* a timeout of 0, which cancels before the first step, comes in time for it.
TimerFires == args.timeout /\ CancelExecution("timer")

CallerCancels == CancelExecution("caller")

\* Mutant: results as they complete.
CollectedAsCompleted == [k \in 1..Len(order) |-> [of |-> order[k], says |-> answer[order[k]]]]

\* list(await gather(...)) is in the order of the checks; _run_sequential
\* appends in that order.
Collected ==
    IF InTurn THEN [k \in 1..Len(order) |-> [of |-> order[k], says |-> answer[order[k]]]]
    ELSE [i \in Checks |-> [of |-> i, says |-> answer[i]]]

Returns == run' = "returned" /\ report' = Collected

\* _timeout_results: whatever the checks have answered.
TimeoutResults == [i \in Checks |-> [of |-> i, says |-> "PROBE_TIMEOUT"]]

\* except asyncio.TimeoutError
TimesOut ==
    IF args.returnFailure
    THEN run' = "timeoutReport" /\ report' = TimeoutResults
    ELSE run' = "timeoutRaised" /\ UNCHANGED report

Ends(outcome) == run' = outcome /\ UNCHANGED report

\* Mutant: a cancellation is taken for a timeout.
CancelledRunTimesOut == TimesOut

\* The execution ended with CancelledError: wait_for raises TimeoutError for the
\* one it has sent itself.
CancelledRun == IF cause = "timer" THEN TimesOut ELSE Ends("cancelled")

\* run_probe is resumed.  A cancellation that came after the results, but before
\* this step, wins or loses with the Python version.
Resumes ==
    /\ run = "running" /\ inner # "pending"
    /\ \/ inner = "results" /\ Returns
       \/ inner = "results" /\ cause = "timer" /\ TimesOut
       \/ inner = "results" /\ cause = "caller" /\ Ends("cancelled")
       \/ inner = "cancelled" /\ CancelledRun
       \/ inner = "timeoutError" /\ TimesOut
       \/ inner = "hookError" /\ Ends("raised")
    /\ UNCHANGED <<check, answer, asked, permits, at, order, inner, cause, args>>

\* Nothing of the run is left to do.
Over ==
    /\ run # "running"
    /\ \A i \in Checks : check[i] \in Settled \/ (Direct /\ check[i] = "pending")
    /\ UNCHANGED vars

Next ==
    \/ \E i \in Checks :
         Start(i) \/ Answered(i) \/ CancelsItself(i) \/ Delivered(i) \/ Unwound(i)
    \/ StartHookReturns \/ EndHookReturns \/ HookRaises \/ HookUnwound
    \/ TimerFires \/ CallerCancels \/ Resumes \/ Over

Spec == Init /\ [][Next]_vars

\* The event loop runs what is ready, and timers fire.  A check or a hook may
\* never answer, nor, once cancelled, come to the end of its finally blocks.
LoopFairness ==
    /\ WF_vars(TimerFires) /\ WF_vars(Resumes)
    /\ \A i \in Checks : WF_vars(Start(i)) /\ WF_vars(Delivered(i))

HungSpec == Spec /\ LoopFairness

\* Checks and hooks end, and so do their finally blocks.
AnsweringSpec ==
    /\ Spec /\ LoopFairness
    /\ WF_vars(StartHookReturns) /\ WF_vars(EndHookReturns) /\ WF_vars(HookUnwound)
    /\ \A i \in Checks : WF_vars(Answered(i)) /\ WF_vars(Unwound(i))

----------------------------------------------------------------------------
(* Properties *)

\* "A report containing results in input order": a returned report holds, for
\* every check of the probe and in the probe's order, what that check answered
\* in this run, however the answers were interleaved; a report made by a timeout
\* holds PROBE_TIMEOUT for every check.
ReportInOrder ==
    /\ run = "returned" =>
         /\ Len(report) = N
         /\ \A i \in Checks :
              check[i] = "done" /\ report[i] = [of |-> i, says |-> answer[i]]
    /\ run = "timeoutReport" =>
         Len(report) = N /\ \A i \in Checks : report[i] = [of |-> i, says |-> "PROBE_TIMEOUT"]

\* max_concurrency caps the checks that are under way, those that a timeout has
\* cancelled and that still run their finally blocks included, and no permit is
\* lost to a check that failed or was cancelled.
ConcurrencyCapped ==
    ~Direct => Cardinality({i \in Checks : check[i] \in Active}) = args.cap - permits

\* Once a timeout or the caller has cancelled the run, no further check starts.
NoStartAfterCancel ==
    [][cause # "none" =>
         \A i \in Checks : ~(check[i] = "pending" /\ check'[i] = "running")]_vars

\* A run that awaits its checks itself leaves nothing behind when it ends:
\* the cancelled check has run its finally blocks.
NothingLeftDirect == Direct /\ run # "running" => \A i \in Checks : check[i] \notin Active

\* What a cancelled run may still wait for: the finally blocks of the check, or
\* of the hook, it awaits itself; in parallel, as one child that ends cancelled
\* ends gather, those of every check that has not answered.
HeldByCleanup ==
    \/ at.phase \in {"startUnwinding", "endUnwinding"}
    \/ /\ \E i \in Checks : check[i] = "unwinding"
       /\ ~Direct => \A i \in Checks : check[i] \in {"done", "unwinding"}

\* With a timeout run_probe ends although checks and hooks never answer, unless
\* what the timeout has cancelled stays in its finally blocks for good, as
\* asyncpg's rollback on a server that is silent does.
TimeoutBoundsRun == <>(run # "running") \/ <>[]HeldByCleanup

\* A cancellation reaches every check of the run: in the end none is left queued
\* for a permit or going on with its work, each has ended or is in its finally
\* blocks, although those that hang there never give their permit back.
CancelledChecksEnd ==
    cause # "none" ~>
      \A i \in Checks :
        check[i] \in Settled \union {"unwinding"} \/ (Direct /\ check[i] = "pending")

\* Without a timeout run_probe ends when every check answers: none waits for the
\* semaphore forever.
AnsweredRunEnds == <>(run # "running")

\* run_probe keeps the promise of ProbeSpec, on every interleaving of the checks,
\* the timer and the caller: the report is of one moment, PROBE_TIMEOUT and
\* HealthCheckTimeoutError come only from the timer, or from a hook that raises
\* TimeoutError, and a cancellation is never taken for a timeout.
Promise == INSTANCE ProbeSpec
RunProbeSpec == Promise!Spec
=============================================================================
