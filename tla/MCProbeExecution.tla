-------------------------- MODULE MCProbeExecution --------------------------
(* ProbeExecution for a probe of a few checks, with the calls of run_probe to *)
(* explore.                                                                   *)
EXTENDS ProbeExecution

Call(sequential, startHook, endHook, cap, timeout, returnFailure) ==
    [sequential |-> sequential, startHook |-> startHook, endHook |-> endHook,
     cap |-> cap, timeout |-> timeout, returnFailure |-> returnFailure]

\* Two permits for the checks, a permit for each, and every form of hooks.
Modes(timeout, returnFailures) ==
    {Call(FALSE, FALSE, FALSE, cap, timeout, r) : cap \in {2, N}, r \in returnFailures}
      \union {Call(TRUE, start, end, 2, timeout, r) :
                start \in BOOLEAN, end \in BOOLEAN, r \in returnFailures}

TimedCalls   == Modes(TRUE, BOOLEAN)
UntimedCalls == Modes(FALSE, {TRUE})
AllCalls     == TimedCalls \union UntimedCalls
=============================================================================
