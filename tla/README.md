# Formal models of fast-healthchecks

fast-healthchecks is an asyncio library: applications group *checks* (of Redis,
Kafka, MongoDB, OpenSearch, RabbitMQ, PostgreSQL, a URL, a function) into
*probes*, run a probe with `run_probe` or a `ProbeRunner`, and serve the report
from a framework's route. This directory holds TLA+ modules of its core, the TLC
configurations that check them on small instances, and TLAPS proofs.

## The system

| Component | State | Operations | Talks to |
|---|---|---|---|
| Client cache (`checks/_base.py`: `ClientCachingMixin`, `healthcheck_safe`) | `_client`, `_client_loop`, `_ensure_client_lock`; the client's connection | a check's `__call__` (through `_ensure_client`, `_on_client_ready`, the request, `_invalidate_client` on failure), `aclose` | the client library; called by probe runs and by close paths, concurrently |
| PostgreSQL checks (`checks/postgresql`) | one connection for each call | `__call__` | the driver; called by probe runs |
| Function check (`checks/function.py`) | the executor's queue and workers | `__call__` | a thread pool shared by the process |
| URL check and SSRF validation (`checks/url.py`, `utils.py`) | a cached HTTP client | `__call__`, host and redirect validation | DNS in the shared thread pool, the HTTP client |
| Probe execution (`execution.py`: `run_probe` and its helpers) | the results so far, the semaphore, the timer | one run: parallel, sequential, with hooks, with a timeout | the checks, the hooks, the caller who may cancel |
| Probe runner (`execution.py`: `ProbeRunner`, `close_probes`) | the registry of resource checks with its lock | `run`, `close`, `close_probes` | probe execution, `aclose` of the checks |
| Reports and errors (`models.py`, `errors.py`) | none | evaluation of a report, mapping of exceptions to error codes | |
| Responses (`responses.py`) | none | report to status, headers and body | |
| Framework integrations (`integrations/`) | the default or given runner of each route | request handlers, shutdown callbacks | probe runner, frameworks |
| DSN, TLS and configuration (`dsn.py`, `checks/dsn_parsing.py`, `checks/configs.py`) | none | parsing and validation | |
| Redaction, logging (`redaction.py`, `logging.py`) | the process-wide logger | recursive replacement of secrets, events | |

What is hard here is what asyncio makes hard. Checks on one object overlap; every
`await` is a place where a call can be cancelled, where the library can raise and
where another task sees half-done state; timeouts are cancellations, and cleaning
up after one awaits again; a check object outlives the event loop that used it;
and `close()` runs while probes do. The properties that make each component
correct:

- *client cache*: operations on the client exclude each other, no connection is
  lost but where the code suppresses what a close raises, a client is used only on
  its own loop and never closed while it starts, a failed client is not kept, every
  call ends;
- *PostgreSQL checks*: the connection is closed on every path, and an answer is
  reported only when no await of the call has raised;
- *probe execution*: a report has each check's own result in its place, the
  concurrency cap and its permits are exact, nothing starts after a cancellation,
  the timeout bounds the run but for the finally blocks it waits for, and only a
  timer is reported as a timeout;
- *probe runner*: the registry holds each check once, does not change under a
  walking `close()`, and leads the next `close()` to every open client;
- *function check*: a queued function of a call that gave up never starts, an
  abandoned worker delays others but never answers for them;
- *configuration*: what a DSN asks of TLS and gives as credentials reaches the
  client library through parsing, validation, overrides and cached SSL contexts;
- *URL check*: no request, redirected ones included, goes out unvalidated;
- *routes and shutdown*: a response agrees with the run it reports and shows no
  secret, the timeout of a route bounds its requests (with the same exception), and
  a shutdown leaves no client open.

## Modules

| Module | Models | State and steps |
|---|---|---|
| `ClientCache` | one check object with a cached client, used by several tasks and on several loops in turn | `pc[t]` names the `await` a call is suspended at; each action is the code between two awaits |
| `SharedClient` | the abstraction of `ClientCache`: one slot, no lock, no suspended calls | `slot`, `closing`, `home`, `borrowed` |
| `PostgresCheck` | calls of both PostgreSQL checks | `pc[t]`, the connection, and `out[t]`: how the body is being left |
| `ProbeExecution` | one call of `run_probe` | the checks' states, the semaphore, the outcome of the awaited execution (`inner`) and of the run |
| `ProbeSpec` | the abstraction of `ProbeExecution`: no tasks, no semaphore, no hooks | each check's `answer`, the `cause` of a cancellation, the `report` |
| `ProbeRunner` | overlapping `run()` and `close()` on one runner, composed with the clients of the checks | the registry and its lock, each call's stage, each client's lock and connection |
| `FunctionPool` | function checks with synchronous functions and name resolutions on one thread pool | each call's await (`pc`), the pool's queue, and each work item as its future says |
| `CheckConfig` | from a DSN, or a URL configuration, to the arguments of a client library, for one check after another in a process; the cache of SSL contexts and the certificate files | `stage` is how far `from_dsn` has come: `given`, `validated`, `parsed`, `configured`, `ready` |
| `CheckCall` | the calls of a check built by `CheckConfig`: what each check makes of its backend's answer, and the requests and redirects of the URL check | `result`, the `target` of the request, what the hook `resolved` |
| `HealthApp` | an application: routes, requests, reports, responses with their redaction, and the shutdown callback | each request's `stage` and `results`, each check's client, the walk of the shutdown |
| `MCClientCache`, `MCProbeExecution`, `MCProbeRunner`, `MCCheckCall`, `MCHealthApp` | instances for TLC: symmetry, and the calls, probes, DSNs and routes to explore | |
| `ClientCacheProofs`, `ProbeExecutionProofs`, `ProbeRunnerProofs`, `FunctionPoolProofs`, `PostgresCheckProofs`, `CheckCallProofs`, `HealthAppProofs` | theorems about the module of that name | |

**ClientCache.** A task is at rest or suspended at one of: the lock (`ensureWait`,
`invalWait`, `closeWait`), an operation inside the lock (`evict`, `create`,
`ready`, `inval`, `close`), or the request itself (`use`). `asyncio.Lock` hands
itself to its first waiter in the releasing step and cannot be overtaken; it binds
to the loop of its first contended acquire and raises on any other, as the
standard library does. A call that fails in the locked block leaves it and asks
for the lock again, in `Failing`; this is one step unless it must wait. The
constants `AsyncCreate`, `HasReadyHook` and `Validates` tell the six caching checks
apart (rabbitmq creates in a coroutine and validates, kafka has a ready hook, the
others have none of these). A connection is `half` from the call of close to its
end. `Evicted` and `Invalidated` suppress what the close raises and forget the
client (`_base.py:266` and `296`), so that its connection is then gone or `lost`,
half closed with nobody to close it (`Gone`); `Closed`, the end of `aclose()`, lets
the exception through and keeps the client. `Cancel` is CancelledError at any await. `Drop` is a
connection lost at the backend. `SwitchLoop` happens only between calls.

**PostgresCheck.** asyncpg asks inside a transaction whose end is awaited, and
then closes; psycopg cancels what is under way with `cancel_safe()` and then closes
without an await. Errors and cancellations at each await leave the body the way
the `try`/`finally` does, and an exception of the clean-up replaces the one under
way. The history variable `failed` says whether an await of the call has raised
(`Returned`, `Raised`). Drivers are external: an error may or may not leave the connection usable.

**ProbeExecution.** `args` are the arguments of the call, chosen in `Init`. The
run either awaits its checks itself (`Direct`: sequential, hooks, or a single
check) or in tasks under `gather` and the semaphore. `asked` holds cancellations
that were requested and not yet delivered; a cancelled check ends at once or
unwinds through the awaits of its finally blocks, and with `Swallows` may end with
a failed result instead, which `PostgresCheck` shows to be possible. A hook is
treated alike: cancelled, it ends, or awaits in its handlers (`startUnwinding`,
`endUnwinding`), and with `Swallows` may return or raise something else. `Gathered`
has gather's rule that the first cancelled child ends it. `Resumes` is the code
after `wait_for`; when a cancellation comes after the last answer, either may win.

**ProbeSpec** is what a caller of `run_probe` may rely on, as five variables and
three kinds of steps: a check answers, once and, when checks run one by one, in its
order; someone cancels; the run ends, with the report of all the answers, as a
timeout, by propagating a cancellation, or by raising a hook's exception, each with
its cause. A parallel run that has ended may still see checks answer; its report
does not change.

**ProbeRunner.** `run()` registers its checks under the registry's lock, then runs
them without it; `close()` keeps the lock over its walk, its `aclose()` calls and
its grace period. Each check's client is seen the way `SharedClient` promises, one
client behind a FIFO lock; a cancelled waiter leaves its queue (`Without`). Time-outs and cancellations stop a call anywhere and
release what it held. The history variable `passed` records the checks whose run
was under way when a `close()` took the lock.

**FunctionPool.** A call of the check of a synchronous function, and the name resolution of the URL
check, put a work item in the pool's queue and await a future that asyncio chains
to the pool's. `WorkerTakes` and `Finishes` are the pool's threads. A timeout or a
caller cancels the awaited future at once (`Stop`); `Propagates` is the loop's
callback that then cancels the pool's future, which takes effect only while the
item is queued; a running function is abandoned and frees its worker when it is
done, if ever. Only function checks have a timeout. The check of a coroutine
function awaits it in the loop; cancelled, the coroutine unwinds, or catches the
cancellation and ends in its own way, which is then the answer (`Unwinds`).

**CheckConfig.** A DSN is a record of the parts that `urlsplit` and
`parse_query_string` make of it; a text in it is `none`, `empty`, `plain`, `guest`
(RabbitMQ's default account, which may also be written out), or `encoded` while its
percent-escapes are still in it, so that a parser that forgets to unquote shows; an
option, which the query string has unquoted once, may be `encoded` again; as `urlsplit` has it, there is no password without a user name
(`UserinfoAssumption`), though that name may be empty. `ValidateDsn`, `ParseDsn`, `FromParsedDsn` and `CreateClient`
are the steps of `from_dsn` and of the first use, with one operator for each check
(`RedisParse`, `RedisConfigure`, `RedisClient` and so on), named after the method
it stands for. `AsyncPGConfigure` looks SSL contexts up in `contexts`, the
`lru_cache` of `create_ssl_context`; a context records the version of the files it
was read from, `Rotate` replaces the files, `CacheClear` empties the cache. What a
client library is told is the record `Client`, whose `tls` orders the ways of
protecting a connection.

**CheckCall** adds the calls. `Ask` is the call with its client; the answers of the
backends (`RedisAnswers`, `MongoAnswers`, `ServiceAnswers`, `PostgresAnswers`,
`UrlAnswers`) end in `Answer` or `Fail`, as `healthcheck_safe` has them. For a URL
check every request first goes through `ValidateOutboundRequest`, and
`RedirectFollowed` makes httpx ask again.

**HealthApp.** A call of `health()` or `HealthcheckRouter()` is a record of probes,
options and runner, and gives a route for each probe. `Policy` is the runner a
route ends up with: the given one, or the default one with the route's timeout in
milliseconds. A request runs its checks in parallel or in turn, in whatever order
they answer. `TimerFires` and `RequestCancelled` cancel what is under way, whose
finally blocks end later or never (`CheckUnwinds`); the run is over when the
cancellation has come through (`ComesThrough`: gather's first cancelled child, the
check in turn) or everything has answered after all. `RunTimesOut` then makes the
report of a timeout or raises, by the mode. `Response` is
`map_report_to_asgi_http_response` as a function of the report; it gives the
framework's 500 where the copy of the report, the handler or `json.dumps` raises. Secrets
are modelled as paths through the meta of an error: the walk of the redaction
covers a path up to the first container it does not look into, `asdict` turns
dataclasses into dictionaries afterwards, and the response is redacted once more.
`Shutdown`, `CloseNext`, `WalkEnds` and `GraceEnds` are `close_probes`, which goes
through `Places`, the pairs of a probe and a position in it, in their order
(`Precedes`). The history
variables `stuck` and `swept` record the checks whose `aclose()` has raised, and
whether a request has run since the callback began.

How they compose: `ClientCache` implements `SharedClient`, and `ProbeExecution`
implements `ProbeSpec` (each a checked property and a theorem); `ProbeRunner` builds its checks on that promise; `ProbeExecution` says
how a run starts, cancels and leaves the checks that `ClientCache` and
`PostgresCheck` describe; `CheckCall` extends `CheckConfig` and sees a call as one
step, whose inside those two have; `HealthApp` sees a check as `ClientCache`
promises and a run as `ProbeExecution` does.

## Runs

| Run | Shows |
|---|---|
| `cache_kafka` | three tasks on a client that needs `start()`: exclusion inside the lock, start undisturbed, failed client forgotten |
| `cache_rabbit` | two tasks, two loops, a client created in a coroutine and validated: own loop, no connection lost but by a suppressed close that raised, `aclose` leaves nothing else open, refinement of `SharedClient`, and every call ends |
| `cache_unstarted` | *violation*: a cancelled `start()` leaves an un-started client that the next call uses |
| `probe_hung` | timed runs in every mode with checks that may hang: order of the report, nothing started after a cancellation, the timeout bounds the run unless it waits for finally blocks that hang, a cancellation reaches every check |
| `probe_answered` | timed and untimed runs in every mode with checks that cancel themselves, and checks and hooks that swallow a cancellation: exact permits, the run ends when its checks answer, refinement of `ProbeSpec` |
| `runner_overlap` | three tasks, one running, one closing and one doing both: registry exact and unchanged under a walk, clients that no `close()` overtook are registered, and the runner's lock and the clients' locks do not deadlock |
| `runner_race` | *violation*: a `close()` during a run forgets a client opened afterwards |
| `function_pool` | a function check and a name resolution on one worker that may hang, and a coroutine function: a queued function of a call that gave up never starts, answers are each call's own, the timeout ends a queued call |
| `postgres` | both drivers, two cancellations each: an answer means that no await of the call has raised, asyncpg always closes |
| `postgres_leak` | *violation*: a failing `cancel_safe()` skips psycopg's `close()` |
| `check_life` | 306 DSNs of all kinds, those of Kafka and OpenSearch with every combination of keywords, and 96 URL configurations, one check after another with rotated certificates: TLS never weaker than asked, SSL contexts fit their checks, credentials arrive, every request of a URL check is validated |
| `app` | one request after another on six routes with the shutdown callback at any moment: responses agree with the runs and show no secret, nothing stays open after an undisturbed shutdown, a route's timeout bounds its requests unless it waits for finally blocks that hang |

Bounds. Three tasks are a lock owner, a waiter and one that arrives in between;
one more client than tasks lets every task hold one while another is created; two
loops are before and after. Four checks with two permits have running, woken,
queued and later-queued checks at once; a cap of as many permits as checks stands
for no cap. Three work items and one worker have an abandoned function and
two queued items at once, from one function check that is called again and again. Two probes that share a check reach every case of the registry. One
cancellation of a run and two of a PostgreSQL call are named bounds
(`CancelExecution`, `CancelRun`, `MaxCancels`): a caller that cancels a run which
its timer has cancelled already is out of the models. Symmetry is used only in runs without
refinement or liveness properties. The DSNs of `check_life` vary, for each parser,
everything it branches on that a property reads; two cached SSL contexts
(`MaxContexts`) are one to find and one to confuse it with, and one rotation
(`MaxRotations`) separates before from after; two redirects (`MaxRedirects`) are one
that is followed and the next that is too many. The probes of `app` share a check,
list one twice, have one or none; its routes have default and given runners, both
modes, both evaluations, handlers that raise, and timeouts of 0 and of less than a
millisecond. Its requests come one after another: they share nothing but the
clients, and what one leaves of these the next one and the shutdown find, also what
a cancelled check does after its run has ended. `ShutdownClosesAll` and the other
theorems are about any number at a time.

Fairness. The event loop resumes whatever can go on, so every run with a liveness
property has weak fairness on the steps that need only the loop. Steps of a client
library or a check are fair only where the property says that backends answer
(`cache_rabbit`, `probe_answered`, `runner_overlap`). In `probe_hung` checks and hooks
may hang for good, and so may their finally blocks once they are cancelled, as the
asyncpg check's does, which awaits a rollback without a timeout
(`asyncpg.py:138`); only timers, starts, resumptions and the delivery of cancellations are
fair. `TimeoutBoundsRun` therefore has the exception `HeldByCleanup`: a run that
waits for good for the finally blocks of all that it could end with. In
`function_pool` functions may hang; idle workers take items, timers fire and the
loop runs, and a cancelled coroutine comes to its end. In `app` timers fire, runs
end when they can and responses go out; checks need not answer, nor their finally
blocks end, and `RouteTimeoutBounds` has the same exception. Nobody is ever obliged to start a call, to
cancel one or to drop a connection.

## Proofs

Each theorem holds for every value of the constants that the named assumptions of
its module allow. They are what the code guarantees of its inputs: null values lie
outside their sets, flags are Boolean, sizes are natural, `Checks` of a runner is
finite, a timeout of `CheckConfig` is positive, DSNs, configurations, probes and
installations are of their type. Every strengthened invariant was checked by TLC on
the instance of a run before it was proved.

| Module | Theorem | Property |
|---|---|---|
| `ClientCacheProofs` | `TypeCorrect` | `TypeOK` |
| | `LockIsExclusive` | `LockHeldInside` |
| | `NothingLost` | `NoConnectionLost` |
| | `UsedOnOwnLoop` | `OnOwnLoop` |
| | `NeverDisturbed` | `StartUndisturbed` |
| | `FailureForgets` | `FailureForgetsClient` |
| | `Implements` | `SharedClientSpec` |
| | `AcloseCloses` | `AcloseLeavesNothingOpen` |
| `ProbeExecutionProofs` | `TypeCorrect` | `TypeOK` |
| | `ReportsInOrder` | `ReportInOrder` |
| | `NeverOverConcurrency` | `ConcurrencyCapped` |
| | `LeavesNothingInTurn` | `NothingLeftDirect` |
| | `NothingStartsLate` | `NoStartAfterCancel` |
| | `KeepsPromise` | `RunProbeSpec` |
| | `TimeoutsAreTheTimers` | only the timer, or a hook that did raise TimeoutError, makes a timeout |
| `ProbeRunnerProofs` | `TypeCorrect` | `TypeOK` |
| | `RegistryListsOnce` | `RegistryExact` |
| | `NoClientForgotten` | `OwnsClientsOfLaterRuns` |
| | `RegistryStandsStill` | `RegistryFixedWhileClosing` |
| `FunctionPoolProofs` | `TypeCorrect` | `TypeOK` |
| | `NeverStartsLate` | `NoLateStart` |
| | `AnswersAreOwn` | `AnswerIsItsOwn` |
| `PostgresCheckProofs` | `TypeCorrect` | `TypeOK` |
| | `AnswersAreWhole` | `AnswerIsWhole` |
| | `AsyncpgAlwaysCloses` | `AsyncpgClosesItsConnection` |
| `CheckCallProofs` | `TypeCorrect` | `TypeOK` |
| | `EveryRequestValidated` | `RequestsValidated` |
| | `ContextsFitTheirChecks` | `ContextIsItsOwn` |
| | `CredentialsReachClients` | `CredentialsArrive` |
| | `NeverTlsWeaker` | `NeverWeaker` |
| `HealthAppProofs` | `TypeCorrect` | `TypeOK` |
| | `ShutdownClosesAll` | `ShutdownLeavesNothing` |
| | `ResponsesTell` | `ResponseTellsReport` |
| | `SecretsStayHidden` | `SecretsHidden` |

Almost none of the properties is inductive alone. What each proof adds, and why:

**ClientCache.** Its properties are joined by `OwnerKnowsCache` (a task that awaits the close of a
client is closing the cached one, and one that awaits a creation finds the cache
empty) and by `LoopRecorded` and `HeldOnOwnLoop`, the two halves of `OnOwnLoop`.
Exclusion makes `OwnerKnowsCache` stable: nobody else changes the cache while the
owner awaits. That in turn gives `NoConnectionLost` its steps, since the client that
an `Invalidated`, an `Evicted` or a `Closed` forgets is the one whose close has
ended, well or, suppressed, not. Each lemma treats one fragment of the locked blocks (`Leave`, `Enter`,
`Wait`, `InvalidateBlock`, `Failing`, `Install`, `Create`, `EnsureBlock`), as the
actions share them; the refinement and `AcloseCloses` use the same fragments.

**ProbeExecution.** `InTurnShape` says of a run that awaits its checks itself that those
before the one in turn have answered in order and those after it have not begun;
`ResultsMeanDone` is its counterpart under `gather`. Permits are exact because
`permits` and the checks under way add up to the cap, which is counting
(`ChecksCounted` and the lemmas after it, from FiniteSetTheorems); `OrderCounts`
counts the answers. `CancelReaches` has what a cancellation reaches. The refinement
adds `AnswersMeanDone`, `HooksGiven` and `CancelsExplained`: who has answered, which
hooks a run has, and that an unexplained CancelledError is a check's own.
`NothingStartsLate` is proved for checks that neither raise CancelledError of their
own nor end a cancellation with a result; both are real exceptions, and the lemma
`AdvanceOnlyInTurn` says exactly which: a check starts late in a parallel run only if
a check may cancel itself, in another only if one may swallow its cancellation.

**ProbeRunner.** `close()` clears the registry while runs go on. No client is lost by
that, because no run begins while `close()` holds the lock, so that those under way
were there when it took it (`Overtaken`), and each check it is through with is
closed or one of theirs (`Walked`). `LocksHeld`, `StagesFit` and `CursorsStart` say
who holds which lock and which check an `aclose()` belongs to; `ProbesTracked` and
`Owned` tie runs and open clients to the registry.

**FunctionPool.** A late answer or a late start would need a work item that two calls
refer to, or that none does. `QueueExact`, `ItemsOwned`, `ItemFollowsCall` and
`NothingForgotten` say who refers to an item, and what state it has at each await.

**PostgresCheck.** `CallShape` says for each await how the block being left has ended:
no answer survives a cancellation or an await that has raised, and a call between its awaits has a connection.

**CheckCall.** A property about a client needs what each earlier step kept of the DSN:
`ParsingFits`, `ConfigurationFits` and `ClientFits` state it for each check, `CacheFits`
says what a cached SSL context was made from and when; `ConfiguredContextCached` then
gives `ContextsFitTheirChecks` the step that configures a check. `NeverTlsWeaker` and
`CredentialsReachClients` go check by check, with the ways of asking that `Asks`
lists on their own and not as the parsers combine them.

**HealthApp.** `Sweeping` carries a shutdown that no run has disturbed: every place it
has walked is in `closed_ids`, and what is in there is closed or has failed to close.
`OpenAreListed` says that there is nothing else to close. `ReportsFit` says that a
report has the answers of its run, or nothing but timeouts and at least one of them.
`ResponsesTell` assumes that the two statuses of a route
differ from each other and from the framework's 500; without this no response could
tell. The next place of the walk exists by the least-number principle (`LeastOf`,
from WellFoundedInduction).

Only model-checked, as liveness is out of the prover's reach: `CallsEnd` (of the
cache and of the runner), `TimeoutBoundsRun`, `CancelledChecksEnd`,
`AnsweredRunEnds`, `TimeoutBoundsCall` and `RouteTimeoutBounds`. Every invariant and
every action property of the passing runs has a theorem.

## What the models showed about the code

Three runs end in a violation: what a document or docstring says and the code does
not do. Besides these:

- `docs/lifecycle.md:5` still counts RabbitMQ among the checks that connect for each
  call; the code caches its connection, and the model follows the code.
- What the close of a stale or failed client raises is suppressed and the client is
  forgotten (`_base.py:266` and `296`): if it was not closed, nobody will close it
  (`lost` in `ClientCache`). `NoConnectionLost` and `AcloseLeavesNothingOpen` have
  this one exception.
- `asyncio.wait_for` waits for the finally blocks of what it has cancelled. The
  asyncpg check awaits the rollback of its transaction there without a timeout
  (`asyncpg.py:138`), so that a server that has gone silent holds the run, and the
  request of its route, past the timeout at which `docs/run-probe.md:58` says that
  "either an error is raised or a report with failures is returned".
  `TimeoutBoundsRun` and `RouteTimeoutBounds` have this exception (`HeldByCleanup`).
- `asyncio.gather` reports a cancellation as soon as one child has ended cancelled
  (`Gathered`), so a timed-out run can return while another check is still awaiting
  in its finally blocks; `docs/lifecycle.md:15` says no background task is left.
  `CancelledChecksEnd` is what holds: the cancellation reaches each of them.
- `run_probe` with `timeout=0` cancels a probe without checks before its first step.
  The report of that timeout has no results, and is therefore healthy
  (`models.py:152`), where `docs/run-probe.md:61` has a "failed `HealthCheckReport`".
  No route does this: its timeout is a millisecond at least, and the run of an empty
  probe never waits (`TimerFires` of `HealthApp`).
- `sslrootcert` "configures the CA used to verify the server"
  (`docs/dsn-formats.md:33`), but `require` makes a context that verifies nothing and
  does not read it, and without an `sslmode` asyncpg uses no TLS at all
  (`postgresql/base.py:49-52`, `138`). `NeverWeaker` lets only an sslmode ask.
- A PostgreSQL check keeps the SSL context it was configured with
  (`asyncpg.py:103-115`). `cache_clear()`, which `docs/dsn-formats.md:37` offers "to
  avoid using stale contexts" after a rotation, reaches only the checks that are
  built afterwards: `ContextIsItsOwn` is about these.
- `asdict` copies what the meta of an error holds, whatever the handler shows of it:
  a value that `copy.deepcopy` raises for makes the route answer 500 instead of its
  failure status (`Copyable`).
- MongoDB's legacy `ssl` option counts only where there is no `tls` option: with
  `?tls=false&ssl=true`, or a misspelt `tls`, the client is told not to use TLS or
  nothing. `Asks` takes `tls` to have replaced `ssl`.
- A name resolution waits in the thread pool behind abandoned functions and has no
  timeout of its own (`utils.py:81`).
- `ProbeRunner.run` waits for the registry's lock outside the timeout that
  `docs/probe-options.md:36` describes for one `run()` call; a `close()` holds that
  lock for as long as its `aclose()` calls take.
- A hook that raises TimeoutError is reported as the probe's timeout
  (`execution.py:200`), also in a run without one; `ProbeSpec` states this
  exception (`TimedOut`).
- A check whose clean-up raises after it was cancelled reports a failed result
  instead of CancelledError. A sequential run then continues with its next check,
  although its timer has fired (`Swallows`).
- `asyncio.Lock` binds itself to the loop of its first contended acquire. When calls
  contend on one loop and again on a later one, acquire raises RuntimeError in
  `_ensure_client` and once more in `_invalidate_client`, inside the except clause of
  `healthcheck_safe`, and the exception leaves the check (`CannotWait`), although
  `_base.py:121` says that all others are converted.
- The user and the password of a MongoDB, RabbitMQ or PostgreSQL DSN are not
  unquoted, those of Redis, Kafka and OpenSearch are (`Decoding`): percent-encoded,
  they reach the first three's libraries as they are written. RabbitMQ's `/%2F` of
  `docs/dsn-formats.md:10` gives the virtual host `%2F`.
- `validate_dsn` accepts a compound scheme for every check, and the parsers compare
  the whole scheme: `kafkas+x`, `amqps+x` and `https+x` pass and lose their TLS.
  `NeverWeaker` takes such a scheme to ask for nothing.
- `security_protocol=None` given to the Kafka check means PLAINTEXT, not what the
  DSN says; Redis's `?ssl=false` is a non-empty string and turns TLS on; `prefer` with
  certificate files verifies the server fully, but ignores `sslrootcert`, as does
  `require`; for `disable` and `allow` asyncpg drops the files.
- psycopg's `int(timeout)` makes 0 of a timeout below one second
  (`psycopg.py:132`).
- A route that is given a runner ignores the timeout of its options
  (`integrations/base.py:177`, `docs/probe-options.md:20`); and a strict runner
  raises, so that the framework answers instead of the route's failure status.
- Excluding `error_details` (`integrations/base.py:176`) has no effect, as reports
  have no such field; a set, or anything else JSON does not know, in an error's
  meta makes `json.dumps` raise in debug mode, and the framework answers 500.
- `healthcheck_shutdown` keeps the iterable it is given (`integrations/base.py:325`):
  a one-shot iterator that the routes have consumed leaves nothing to close.

## Not modelled

The client libraries, drivers, asyncio, frameworks and `urllib` are external:
modelled from how the code uses them, or left out. Logging, re-exports, packaging
scripts and examples hold no state of the library and are left out. Time is not measured: a
timer may fire at any moment. The content of requests and answers is abstracted to
whether they succeed; ports, pool sizes and names are left out where no property
reads them, and eviction from the cache of 128 SSL contexts is out of reach.

## Plan

1. Two requests at a time in `app`, with an application small enough for its liveness
   property, and a second cancellation of a run that its timer has cancelled.
2. A specification of what a runner promises across overlapping calls, and of what
   an application promises of a shutdown, with `ProbeRunner` and `HealthApp` shown to
   implement them.
3. Lemmas about the operators on their own: what each parser keeps of a DSN, without
   the state machine around it; what the redaction leaves of a path.
4. The safety half of the liveness properties, where it can be stated: that no state
   is without a step, and what has to be released before a waiting call goes on.
