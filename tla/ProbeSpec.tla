------------------------------ MODULE ProbeSpec ------------------------------
(***************************************************************************)
(* What run_probe promises its caller, without the tasks, the semaphore,   *)
(* wait_for and the hooks that keep the promise: every check answers at    *)
(* most once; the one report is either all of the answers or all           *)
(* PROBE_TIMEOUT; and each way to end has its cause.  Answers that come     *)
(* after the end of a parallel run change nothing of its report.           *)
(***************************************************************************)
EXTENDS Naturals

CONSTANTS N, Calls, SelfCancels

VARIABLES
    args,       \* the arguments of the call
    answer,     \* what each check has answered, once it has
    cause,      \* who cancelled the run
    run,        \* how it ended
    report      \* the results it returned

vars == <<args, answer, cause, run, report>>

Hooked == args.startHook \/ args.endHook
OneByOne == args.sequential \/ Hooked \/ N = 1

Init ==
    /\ args \in Calls
    /\ answer = [i \in 1..N |-> "none"]
    /\ cause = "none" /\ run = "running" /\ report = <<>>

\* One by one, the checks answer in their order and before the run ends.
Answers(i) ==
    /\ answer[i] = "none"
    /\ OneByOne => run = "running" /\ \A j \in 1..(i-1) : answer[j] # "none"
    /\ \E a \in {"healthy", "error"} : answer' = [answer EXCEPT ![i] = a]
    /\ UNCHANGED <<args, cause, run, report>>

Cancelled ==
    /\ run = "running" /\ cause = "none"
    /\ cause' = "caller" \/ (cause' = "timer" /\ args.timeout)
    /\ UNCHANGED <<args, answer, run, report>>

ReportOf(says) == [i \in 1..N |-> [of |-> i, says |-> says[i]]]

Returned ==
    /\ \A i \in 1..N : answer[i] # "none"
    /\ run' = "returned" /\ report' = ReportOf(answer)

TimedOut ==
    /\ cause = "timer" \/ Hooked        \* a hook's TimeoutError is taken for the timer's
    /\ IF args.returnFailure
       THEN run' = "timeoutReport" /\ report' = ReportOf([i \in 1..N |-> "PROBE_TIMEOUT"])
       ELSE run' = "timeoutRaised" /\ UNCHANGED report

Propagated ==
    /\ cause = "caller" \/ (cause = "none" /\ SelfCancels)
    /\ run' = "cancelled" /\ UNCHANGED report

Raised == Hooked /\ run' = "raised" /\ UNCHANGED report

Ends ==
    /\ run = "running"
    /\ Returned \/ TimedOut \/ Propagated \/ Raised
    /\ UNCHANGED <<args, answer, cause>>

Next == (\E i \in 1..N : Answers(i)) \/ Cancelled \/ Ends

Spec == Init /\ [][Next]_vars
=============================================================================
