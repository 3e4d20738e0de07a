----------------------------- MODULE MCHealthApp -----------------------------
(* HealthApp with probes that share a check, list one twice or have one or    *)
(* none, and routes for each way of running them and answering.               *)
EXTENDS HealthApp

CONSTANTS a, b, f, u

TheProbes == <<<<a, b>>, <<b, f, b>>, <<>>, <<u>>>>

Metas == [c \in Checks |->
            CASE c = a -> {<<"key", "secret key">>, <<"key", "field", "secret field">>}
              [] c = b -> {<<"key", "list", "key", "tuple", "secret key">>, <<"key", "list">>}
              [] c = f -> {<<"key", "set", "secret field">>, <<"secret key", "object">>}
              [] c = u -> {<<"key", "tuple", "uncopyable">>}]

Runner(mode, execution, timeout, evaluation) ==
    [mode |-> mode, execution |-> execution, probe_timeout_ms |-> timeout,
     health_evaluation |-> evaluation]
Default == build_probe_route_options

Calls ==
    {[probes |-> {1}, options |-> [Default EXCEPT !.debug = TRUE, !.timeout = 500],
      runner |-> NoRunner],
     [probes |-> {1},
      options |-> [Default EXCEPT !.failure_handler = "data", !.success_status = 200],
      runner |-> Runner("reporting", "parallel", 2000, "partial_allowed")],
     [probes |-> {2}, options |-> [Default EXCEPT !.debug = TRUE, !.success_handler = "None"],
      runner |-> Runner("strict", "sequential", 1, "all_required")],
     [probes |-> {3}, options |-> [Default EXCEPT !.timeout = 0], runner |-> NoRunner],
     [probes |-> {3}, options |-> NoOptions,
      runner |-> Runner("reporting", "parallel", NoTimeout, "partial_allowed")],
     [probes |-> {4}, options |-> [Default EXCEPT !.success_status = 200,
                                     !.success_handler = "raises"],
      runner |-> Runner("reporting", "sequential", NoTimeout, "all_required")]}
=============================================================================
