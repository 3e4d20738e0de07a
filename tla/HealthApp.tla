------------------------------ MODULE HealthApp ------------------------------
(***************************************************************************)
(* An application with health routes: requests that run probes through the *)
(* runner of their route (integrations/base.py, execution.py), the mapping *)
(* of reports to responses with the redaction of their data (responses.py, *)
(* redaction.py), and the shutdown callback that closes the checks.        *)
(*                                                                         *)
(* A check is seen as ClientCache promises: its client is opened when a    *)
(* check needs it, and closed by a failure or by aclose().  A run is seen  *)
(* as ProbeExecution promises: one result for every check, or a timeout,   *)
(* which waits for the finally blocks of what it has cancelled.            *)
(***************************************************************************)
EXTENDS Integers, Sequences

CONSTANTS
    Requests,       \* requests under way at a time
    Checks,         \* the check objects
    Resources,      \* those with an aclose() method
    Probes,         \* the probes of the application: a sequence of checks for each,
                    \* in the order in which they are given to the callback
    Installations,  \* its calls of health() or HealthcheckRouter()
    MetaOf,         \* of each check: where its error's meta holds secrets, and what
                    \* cannot be copied or written
    NoTimeout, NoOptions

Statuses == 100..599
Handlers == {"default", "None", "data", "raises"}    \* what a handler returns, or that it raises
Options == [success_status : Statuses, failure_status : Statuses, debug : BOOLEAN,
            success_handler : Handlers, failure_handler : Handlers,
            timeout : Int \union {NoTimeout}]        \* in microseconds
RunPolicy == [mode : {"strict", "reporting"}, execution : {"parallel", "sequential"},
              probe_timeout_ms : (Nat \ {0}) \union {NoTimeout},
              health_evaluation : {"all_required", "partial_allowed"}]
NoRunner == [mode |-> "none"]
Route == [probe : DOMAIN Probes, options : Options, runner : RunPolicy \union {NoRunner}]

\* health(*probes, options, runner), with runner seen as its policy.
Installation == [probes : SUBSET DOMAIN Probes, options : Options \union {NoOptions},
                 runner : RunPolicy \union {NoRunner}]

\* The way from an error's meta to a value in it: the keys of dictionaries, the
\* fields of dataclasses, items of containers, the inside of any other object, or
\* of one that copy.deepcopy raises for.
Step == {"key", "secret key", "field", "secret field", "list", "tuple", "set", "object",
         "uncopyable"}

ASSUME ResourceAssumption == Resources \subseteq Checks
ASSUME ProbeAssumption == Probes \in Seq(Seq(Checks))
ASSUME RouteAssumption == Installations \subseteq Installation
\* meta is a dictionary, and a set holds no dictionary and no list.
ASSUME MetaAssumption ==
    \A c \in Checks : \A path \in MetaOf[c] :
      /\ path \in Seq(Step) /\ path # <<>> /\ path[1] \in {"key", "secret key"}
      /\ \A j, k \in DOMAIN path : j < k /\ path[j] = "set" =>
           path[k] \notin {"key", "secret key", "list"}

----------------------------------------------------------------------------
(* The routes *)

\* The defaults.
build_probe_route_options ==
    [success_status |-> 204, failure_status |-> 503, debug |-> FALSE,
     success_handler |-> "default", failure_handler |-> "default", timeout |-> NoTimeout]

\* _add_probe_route
AddProbeRoute(p, options, runner) == [probe |-> p, options |-> options, runner |-> runner]

build_health_routes(i) ==
    {AddProbeRoute(p, IF i.options = NoOptions THEN build_probe_route_options ELSE i.options,
                   i.runner) : p \in i.probes}

Routes == UNION {build_health_routes(i) : i \in Installations}

----------------------------------------------------------------------------

VARIABLES
    route,      \* of each request: its route
    stage,      \* "idle", "running" its probe, "timing out" or "dropped" while what
                \* was cancelled ends, "reporting", or "timed out" with its report
    results,    \* of each request and index: what its check has come to
    report,     \* of each request: the results in its report
    client,     \* of each check: its cached client
    shutdown,   \* the call of the shutdown callback: "idle", "closing" or "grace"
    todo,       \* the places in the probes that it has still to walk
    closed_ids, \* the checks it has walked
    stuck,      \* history: checks whose aclose() has raised in this call
    swept       \* history: no request has run since it began, "so far" or to its end

vars == <<route, stage, results, report, client, shutdown, todo, closed_ids, stuck, swept>>

\* check for probe in probes for check in probe.checks
Places == UNION {{p} \X DOMAIN Probes[p] : p \in DOMAIN Probes}
Precedes(place, other) ==
    place[1] < other[1] \/ (place[1] = other[1] /\ place[2] < other[2])

NoRoute == [probe |-> "none"]
Answers == {"healthy", "unhealthy"}
Stages == {"idle", "running", "timing out", "dropped", "reporting", "timed out"}

\* A run that has not ended, cancelled or not.
UnderWay(r) == stage[r] \in {"running", "timing out", "dropped"}
Reporting(r) == stage[r] \in {"reporting", "timed out"}

----------------------------------------------------------------------------
(* Redaction *)

\* Mutant: the walk goes through dictionaries and nothing else.
WalkedOfDicts(step) == step = "key"

\* _redact_value: the containers it looks into.
Walked(step) == step \in {"key", "list", "tuple", "set"}

\* redact_secrets_in_dict: the value at the end of a path is replaced, or lies in
\* one that is, when the walk comes to a secret key.
Redacted(path) ==
    \E k \in DOMAIN path :
      path[k] = "secret key" /\ \A j \in 1..(k - 1) : Walked(path[j])

redact_secrets(paths) == {path \in paths : ~Redacted(path)}

\* HealthError.__post_init__
HealthErrorMeta(c) == redact_secrets(MetaOf[c])

\* dataclasses.asdict: dataclasses in dictionaries, lists, tuples and dataclasses
\* become dictionaries; what lies in anything else is copied.
AsDict(path) ==
    [k \in DOMAIN path |->
       IF \E j \in 1..(k - 1) : path[j] \in {"set", "object"} THEN path[k]
       ELSE CASE path[k] = "field"        -> "key"
              [] path[k] = "secret field" -> "secret key"
              [] OTHER                    -> path[k]]

\* asdict copies all that it does not turn into a dictionary, a list or a tuple.
Copyable(path) == \A k \in DOMAIN path : path[k] # "uncopyable"

\* What json.dumps knows.
Serializable(path) ==
    \A k \in DOMAIN path : path[k] \in {"key", "secret key", "list", "tuple"}

----------------------------------------------------------------------------
(* The runner of a route *)

\* Mutant: what is below a millisecond becomes 0.
MillisecondsOf(timeout) == timeout \div 1000

\* max(int(timeout * 1000), 1)
Milliseconds(timeout) == IF timeout < 1000 THEN 1 ELSE timeout \div 1000

\* Mutant: the timeout of the route is left out.
DefaultPolicyUntimed(timeout) ==
    [mode |-> "reporting", execution |-> "parallel", probe_timeout_ms |-> NoTimeout,
     health_evaluation |-> "all_required"]

\* _build_default_runner
DefaultPolicy(timeout) ==
    [mode |-> "reporting", execution |-> "parallel",
     probe_timeout_ms |-> IF timeout = NoTimeout THEN NoTimeout ELSE Milliseconds(timeout),
     health_evaluation |-> "all_required"]

\* ProbeAsgi: a runner that is given decides, also about the timeout.
Policy(rt) == IF rt.runner # NoRunner THEN rt.runner ELSE DefaultPolicy(rt.options.timeout)

TypeOK ==
    /\ route \in [Requests -> Routes \union {NoRoute}]
    /\ \A r \in Requests : route[r] # NoRoute => Policy(route[r]) \in RunPolicy
    /\ stage \in [Requests -> Stages]
    /\ results \in [Requests -> Seq({"pending", "asking", "unwinding", "cancelled"} \union Answers)]
    /\ report \in [Requests -> Seq(Answers \union {"timeout"})]
    /\ client \in [Checks -> {"none", "open"}]
    /\ shutdown \in {"idle", "closing", "grace"}
    /\ todo \subseteq Places /\ closed_ids \subseteq Checks /\ stuck \subseteq Checks
    /\ swept \in {"no", "so far", "yes"}

Init ==
    /\ route = [r \in Requests |-> NoRoute] /\ stage = [r \in Requests |-> "idle"]
    /\ results = [r \in Requests |-> <<>>] /\ report = [r \in Requests |-> <<>>]
    /\ client = [c \in Checks |-> "none"]
    /\ shutdown = "idle" /\ todo = {} /\ closed_ids = {} /\ stuck = {} /\ swept = "no"

OnlyRequests == UNCHANGED <<shutdown, todo, closed_ids, stuck, swept>>

----------------------------------------------------------------------------
(* Requests *)

ChecksOf(r) == Probes[route[r].probe]

\* A request comes in, and the runner starts its probe.
Request(r) ==
    /\ stage[r] = "idle"
    /\ \E rt \in Routes :
         /\ route' = [route EXCEPT ![r] = rt]
         /\ results' = [results EXCEPT ![r] = [k \in DOMAIN Probes[rt.probe] |-> "pending"]]
    /\ stage' = [stage EXCEPT ![r] = "running"] /\ swept' = "no"
    /\ UNCHANGED <<report, client, shutdown, todo, closed_ids, stuck>>

Result(r, k, result) == results' = [results EXCEPT ![r][k] = result]
OnlyCheck == UNCHANGED <<route, stage, report>> /\ OnlyRequests

\* The check at index k fails, and may have dropped its client.
Fails(r, k) ==
    /\ Result(r, k, "unhealthy")
    /\ client' \in {client, [client EXCEPT ![ChecksOf(r)[k]] = "none"]}

\* Check k of the run begins, after the ones before it in a sequential run, and
\* has its client or opens it; or it cannot, and fails.
CheckStarts(r, k) ==
    /\ UnderWay(r) /\ k \in DOMAIN results[r] /\ results[r][k] = "pending"
    /\ Policy(route[r]).execution = "sequential" =>
         \A j \in 1..(k - 1) : results[r][j] \in Answers
    /\ LET c == ChecksOf(r)[k] IN
       \/ /\ Result(r, k, "asking")
          /\ client' = IF c \in Resources THEN [client EXCEPT ![c] = "open"] ELSE client
       \/ Result(r, k, "unhealthy") /\ client' = [client EXCEPT ![c] = "none"]
    /\ OnlyCheck

\* The backend answers, well or not, or the check fails.
CheckAnswers(r, k) ==
    /\ UnderWay(r) /\ k \in DOMAIN results[r] /\ results[r][k] = "asking"
    /\ \/ Result(r, k, "healthy") /\ UNCHANGED client
       \/ Fails(r, k)
    /\ OnlyCheck

\* The finally blocks of a cancelled check end, perhaps after its run; one that
\* raises makes it a failed check, and a sequential run goes on to the next.
CheckUnwinds(r, k) ==
    /\ k \in DOMAIN results[r] /\ results[r][k] = "unwinding"
    /\ \/ Result(r, k, "cancelled") /\ UNCHANGED client
       \/ Fails(r, k)
    /\ OnlyCheck

AllAnswered(r) == \A k \in DOMAIN results[r] : results[r][k] \in Answers

\* run_probe returns a report, to a request that was cancelled too if its checks
\* have swallowed that.
RunEnds(r) ==
    /\ UnderWay(r) /\ AllAnswered(r)
    /\ stage' = [stage EXCEPT ![r] = "reporting"]
    /\ report' = [report EXCEPT ![r] = results[r]]
    /\ UNCHANGED <<route, results, client>> /\ OnlyRequests

Done(r) ==
    /\ stage' = [stage EXCEPT ![r] = "idle"] /\ route' = [route EXCEPT ![r] = NoRoute]
    /\ results' = [results EXCEPT ![r] = <<>>] /\ report' = [report EXCEPT ![r] = <<>>]
    /\ UNCHANGED client /\ OnlyRequests

\* The check that a sequential run awaits; every check of a parallel one that has
\* not answered.
ToCancel(r) ==
    LET asking == {k \in DOMAIN results[r] : results[r][k] = "asking"}
    IN  IF Policy(route[r]).execution = "sequential" /\ asking # {} THEN asking
        ELSE {k \in DOMAIN results[r] : results[r][k] \notin Answers}

\* The execution is cancelled.  (Bound: once for each run.)
CancelRun(r, to) ==
    /\ stage[r] = "running" /\ stage' = [stage EXCEPT ![r] = to]
    /\ results' = [results EXCEPT ![r] = [k \in DOMAIN results[r] |->
         IF k \notin ToCancel(r) THEN results[r][k]
         ELSE IF results[r][k] = "asking" THEN "unwinding" ELSE "cancelled"]]
    /\ UNCHANGED <<route, report, client>> /\ OnlyRequests

Timed(r) == Policy(route[r]).probe_timeout_ms # NoTimeout

\* The timer fires.  It is set to a millisecond at least, and a run without checks
\* ends before it first waits.
TimerFires(r) ==
    DOMAIN results[r] # {} /\ Timed(r) /\ CancelRun(r, "timing out")

\* The server drops the request.
RequestCancelled(r) == CancelRun(r, "dropped")

\* The cancellation comes through: gather ends with the first child that it ends.
ComesThrough(r) == \E k \in DOMAIN results[r] : results[r][k] = "cancelled"

\* Mutant: the answers that are in are kept in the report of the timeout.
TimeoutResultsPartial(r) ==
    [k \in DOMAIN results[r] |->
       IF results[r][k] \in Answers THEN results[r][k] ELSE "timeout"]

\* _timeout_results
TimeoutResults(r) == [k \in DOMAIN results[r] |-> "timeout"]

\* wait_for is done with what it has cancelled: a report of timeouts, or
\* HealthCheckTimeoutError for the framework to answer.  A timer that has fired
\* on the last answer wins or loses.
RunTimesOut(r) ==
    /\ stage[r] = "timing out" /\ (ComesThrough(r) \/ AllAnswered(r))
    /\ IF Policy(route[r]).mode = "reporting"
       THEN /\ stage' = [stage EXCEPT ![r] = "timed out"]
            /\ report' = [report EXCEPT ![r] = TimeoutResults(r)]
            /\ UNCHANGED <<route, results, client>> /\ OnlyRequests
       ELSE Done(r)

RequestEnds(r) == stage[r] = "dropped" /\ (ComesThrough(r) \/ AllAnswered(r)) /\ Done(r)

----------------------------------------------------------------------------
(* The response *)

\* Mutant: in both modes a report is healthy if nothing in it has failed.
ReportHealthyAnyway(r) == \A k \in DOMAIN report[r] : report[r][k] = "healthy"

\* HealthCheckReport.healthy, of the report the runner's policy makes.
ReportHealthy(r) ==
    IF Policy(route[r]).health_evaluation = "partial_allowed"
    THEN \E k \in DOMAIN report[r] : report[r][k] = "healthy"
    ELSE \A k \in DOMAIN report[r] : report[r][k] = "healthy"

\* What the meta of the report's errors holds, at which places.
ReportMeta(r) ==
    UNION {HealthErrorMeta(ChecksOf(r)[k]) :
             k \in {j \in DOMAIN report[r] : report[r][j] = "unhealthy"}}

\* The report as a dictionary.
ReportData(r) == {AsDict(path) : path \in ReportMeta(r)}

ContentNeeded(status, healthy) == status \notin {204, 304} /\ ~(healthy /\ status < 200)

\* map_report_to_asgi_http_response: the status, whether there is a body with its
\* headers, and what is in it, redacted once more.  Where asdict, the handler or
\* json.dumps raises, the framework answers.
Response(r) ==
    LET options == route[r].options
        healthy == ReportHealthy(r)
        status  == IF healthy THEN options.success_status ELSE options.failure_status
        handler == IF healthy THEN options.success_handler ELSE options.failure_handler
        needed  == ContentNeeded(status, healthy)
        content == IF ~needed THEN "None"
                   ELSE IF options.debug /\ ~healthy THEN "data" ELSE handler
        shown   == IF content = "data" THEN redact_secrets(ReportData(r)) ELSE {}
        fine    == /\ needed => \A path \in ReportMeta(r) : Copyable(path)
                   /\ content # "raises"
                   /\ \A path \in shown : Serializable(path)
    IN  IF fine THEN [status |-> status, body |-> content # "None", shown |-> shown]
        ELSE [status |-> 500, body |-> FALSE, shown |-> {}]

\* The response goes out.
Respond(r) == Reporting(r) /\ Done(r)

----------------------------------------------------------------------------
(* Shutdown: healthcheck_shutdown(probes), router.close() *)

OnlyShutdown == UNCHANGED <<route, stage, results, report>>

\* A call of the callback; the probes are a list, walked from its start, and the
\* checks of each in their order.
Shutdown ==
    /\ shutdown = "idle" /\ shutdown' = "closing"
    /\ todo' = Places /\ closed_ids' = {} /\ stuck' = {}
    /\ swept' = IF \A r \in Requests : ~UnderWay(r) THEN "so far" ELSE "no"
    /\ OnlyShutdown /\ UNCHANGED client

\* Mutant: an aclose() that raises ends the walk.
CloseNextStopping ==
    /\ shutdown = "closing"
    /\ \E place \in todo :
       /\ \A other \in todo \ {place} : Precedes(place, other)
       /\ LET c == Probes[place[1]][place[2]] IN
          /\ closed_ids' = closed_ids \union {c}
          /\ \/ /\ todo' = todo \ {place} /\ UNCHANGED stuck
                /\ client' = IF c \in Resources \ closed_ids THEN [client EXCEPT ![c] = "none"]
                             ELSE client
             \/ /\ c \in Resources \ closed_ids /\ client[c] = "open"
                /\ todo' = {} /\ stuck' = stuck \union {c} /\ UNCHANGED client
    /\ OnlyShutdown /\ UNCHANGED <<shutdown, swept>>

\* The step of the walk at check c, unless it has been walked already; an aclose()
\* that raises is passed over.
Walk(c) ==
    /\ closed_ids' = closed_ids \union {c}
    /\ \/ /\ client' = IF c \in Resources \ closed_ids THEN [client EXCEPT ![c] = "none"]
                       ELSE client
          /\ UNCHANGED stuck
       \/ /\ c \in Resources \ closed_ids /\ client[c] = "open"
          /\ stuck' = stuck \union {c} /\ UNCHANGED client

\* _close_checks: the next check.
CloseNext ==
    /\ shutdown = "closing"
    /\ \E place \in todo :
       /\ \A other \in todo \ {place} : Precedes(place, other)
       /\ todo' = todo \ {place}
       /\ Walk(Probes[place[1]][place[2]])
    /\ OnlyShutdown /\ UNCHANGED <<shutdown, swept>>

ShutdownEnds ==
    /\ shutdown' = "idle" /\ closed_ids' = {}
    /\ swept' = IF swept = "so far" THEN "yes" ELSE swept
    /\ OnlyShutdown /\ UNCHANGED <<client, todo, stuck>>

\* With anything closed, the transports get a grace period.
WalkEnds ==
    /\ shutdown = "closing" /\ todo = {}
    /\ IF closed_ids \intersect Resources = {} THEN ShutdownEnds
       ELSE /\ shutdown' = "grace"
            /\ OnlyShutdown /\ UNCHANGED <<client, todo, closed_ids, stuck, swept>>

GraceEnds == shutdown = "grace" /\ ShutdownEnds

ShutdownCancelled ==
    /\ shutdown # "idle" /\ shutdown' = "idle"
    /\ todo' = {} /\ closed_ids' = {} /\ stuck' = {} /\ swept' = "no"
    /\ OnlyShutdown /\ UNCHANGED client

----------------------------------------------------------------------------

Next ==
    \/ \E r \in Requests :
         \/ Request(r) \/ RunEnds(r) \/ TimerFires(r) \/ RunTimesOut(r)
         \/ RequestCancelled(r) \/ RequestEnds(r) \/ Respond(r)
         \/ \E k \in DOMAIN results[r] :
              CheckStarts(r, k) \/ CheckAnswers(r, k) \/ CheckUnwinds(r, k)
    \/ Shutdown \/ CloseNext \/ WalkEnds \/ GraceEnds \/ ShutdownCancelled

Spec == Init /\ [][Next]_vars

\* The event loop goes on and timers fire.  Backends need not answer, nor need
\* the finally blocks of a check come to their end.
FairSpec ==
    /\ Spec
    /\ \A r \in Requests :
         WF_vars(TimerFires(r)) /\ WF_vars(RunTimesOut(r)) /\ WF_vars(RequestEnds(r))
           /\ WF_vars(RunEnds(r)) /\ WF_vars(Respond(r))

----------------------------------------------------------------------------
(* Properties *)

\* A response has the success status only if every check of the probe, or at least
\* one when partial failure is allowed, has itself answered well in this very run,
\* and never for a run that has timed out, half its checks answered or not
\* (docs/probe-options.md:20); it has the failure status only if they have not or
\* the run has timed out; of a probe without checks that means success, and
\* failure when partial failure is allowed (models.py:148-152); and a response
\* without content has no body (responses.py:43-49).
ResponseTellsReport ==
    \A r \in Requests : Reporting(r) =>
      LET response == Response(r)
          options  == route[r].options
          well     == {k \in DOMAIN results[r] : results[r][k] = "healthy"}
          enough   == IF Policy(route[r]).health_evaluation = "partial_allowed"
                      THEN well # {} ELSE well = DOMAIN Probes[route[r].probe]
          late     == stage[r] = "timed out"
      IN  /\ response.status = options.success_status => enough /\ ~late
          /\ response.status = options.failure_status => ~enough \/ late
          /\ response.body => response.status \notin {204, 304}

\* No response shows what a secret key or field of an error's meta holds, however
\* deep in dictionaries, dataclasses, lists and tuples it lies, in debug mode or
\* through a handler that passes the report on: what the redaction of the error
\* cannot see yet, the one of the response must (models.py:73,
\* docs/probe-options.md:26).
SecretsHidden ==
    \A r \in Requests : Reporting(r) =>
      \A path \in Response(r).shown :
        \A k \in DOMAIN path : path[k] \notin {"secret key", "secret field"}

\* When the shutdown callback has come to its end, and no request has run since it
\* began, no check has an open client in its cache, whatever runs timed out, were
\* cancelled or failed before, and however many times a check is listed; but for a
\* check whose own aclose() has raised (docs/lifecycle.md:13).
ShutdownLeavesNothing ==
    swept = "yes" => \A c \in Resources : client[c] = "open" => c \in stuck

\* A cancelled run still waits for the finally blocks of its checks.
HeldByCleanup(r) ==
    /\ stage[r] \in {"timing out", "dropped"} /\ ~ComesThrough(r)
    /\ \E k \in DOMAIN results[r] : results[r][k] = "unwinding"

\* The timeout of a route that has the default runner bounds its requests, although
\* backends never answer, unless every check it has cancelled stays in its finally
\* blocks for good.
RouteTimeoutBounds ==
    \A r \in Requests :
      (stage[r] # "idle" /\ route[r].options.timeout # NoTimeout /\ route[r].runner = NoRunner)
        ~> (stage[r] = "idle" \/ []HeldByCleanup(r))
=============================================================================
