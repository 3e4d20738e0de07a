------------------------------ MODULE CheckCall ------------------------------
(***************************************************************************)
(* The calls of a check that CheckConfig has built: what each __call__      *)
(* makes of the answer of its backend, healthcheck_safe around it, and the  *)
(* requests of UrlHealthCheck with their redirects.  A check is called one  *)
(* call at a time here; ClientCache and PostgresCheck have the steps inside *)
(* a call and the calls beside it.                                          *)
(***************************************************************************)
EXTENDS CheckConfig

CONSTANT MaxRedirects       \* redirects httpx follows in one get()

ASSUME RedirectAssumption == MaxRedirects \in Nat

VARIABLES
    result,     \* the HealthCheckResult of the last call, or None
    target,     \* the URL of the request under way
    hops,       \* redirects followed in this call
    resolved    \* what the request hook has found out about its target

callVars == <<result, target, hops, resolved>>
vars == <<configVars, callVars>>

ErrorCodes == {"CHECK_TIMEOUT", "CHECK_EXCEPTION", "DEPENDENCY_UNHEALTHY"}
HealthCheckResult == [healthy : {TRUE}, code : {"none"}]
                       \union [healthy : {FALSE}, code : ErrorCodes]
Resolutions == {"global", "private", "fails"}

TypeOK ==
    /\ ConfigTypeOK
    /\ result \in HealthCheckResult \union {None}
    /\ target \in UrlTarget \union {None}
    /\ hops \in 0..MaxRedirects
    /\ resolved \in {"unknown", "unchecked"} \union Resolutions

Init == ConfigInit /\ result = None /\ target = None /\ hops = 0 /\ resolved = "unknown"

Healthy == [healthy |-> TRUE, code |-> "none"]
result_unhealthy_dependency == [healthy |-> FALSE, code |-> "DEPENDENCY_UNHEALTHY"]

\* The code of an exception; the "unknown" one is for results of other origin.
map_exception_to_health_error(exc) ==
    IF exc = "TimeoutError" THEN "CHECK_TIMEOUT" ELSE "CHECK_EXCEPTION"

result_on_error(exc) == [healthy |-> FALSE, code |-> map_exception_to_health_error(exc)]

----------------------------------------------------------------------------
(* The call *)

Calling == stage = "calling"
PerCall == ~IsUrl /\ dsn.check \in {"asyncpg", "psycopg"}   \* a connection of its own

\* The check has its client, or has just created it.
Ask ==
    /\ stage \in {"ready", "answered"} /\ client # None
    /\ stage' = "calling" /\ result' = None
    /\ target' = IF IsUrl THEN config.url ELSE None
    /\ hops' = 0 /\ resolved' = "unknown"
    /\ UNCHANGED <<dsn, keyword, timeout, parsed, config, client, contexts, disk, cleared>>

Ended(answer, kept) ==
    /\ Calling /\ stage' = "answered" /\ result' = answer
    /\ client' = IF kept /\ ~PerCall THEN client ELSE None
    /\ target' = None /\ hops' = 0 /\ resolved' = "unknown"
    /\ UNCHANGED <<dsn, keyword, timeout, parsed, config, contexts, disk, cleared>>

Answer(healthy) ==
    Ended(IF healthy THEN Healthy ELSE result_unhealthy_dependency, TRUE)

\* healthcheck_safe: the cached client is invalidated.
Fail(exc) == Ended(result_on_error(exc), FALSE)

\* A cancellation passes through.
Cancelled == Ended(None, TRUE)

----------------------------------------------------------------------------
(* The backends *)

\* A ping, a listing of topics, a channel or a query raises.
BackendFails == Calling /\ ~IsUrl /\ \E exc \in {"TimeoutError", "other"} : Fail(exc)

RedisAnswers == Calling /\ ~IsUrl /\ dsn.check = "redis" /\ \E pong \in BOOLEAN : Answer(pong)

\* The "ok" of the reply: int() of it must be 1.  What is no number counts as 0;
\* int() of one that is not finite raises.
MongoAnswers ==
    /\ Calling /\ ~IsUrl /\ dsn.check = "mongo"
    /\ \E ok \in {"one", "true", "above one", "zero", "text", "missing", "not finite"} :
         IF ok = "not finite" THEN Fail("other") ELSE Answer(ok \in {"one", "true", "above one"})

\* These only have to answer.
ServiceAnswers ==
    Calling /\ ~IsUrl /\ dsn.check \in {"kafka", "opensearch", "rabbitmq"} /\ Answer(TRUE)

\* The row of SELECT 1.
PostgresAnswers == Calling /\ PerCall /\ \E row \in BOOLEAN : Answer(row)

----------------------------------------------------------------------------
(* The requests of UrlHealthCheck *)

Requesting == Calling /\ IsUrl

InHook(found) ==
    /\ resolved' = found
    /\ UNCHANGED <<configVars, result, target, hops>>

\* A host that is an address resolves to itself, another to anything, and one
\* address that is not global is enough to refuse it.
validate_host_ssrf_async(host) == IF host = "public" THEN {"global"} ELSE Resolutions

\* Mutant: only the first request is validated.
ValidateFirstRequest ==
    /\ Requesting /\ resolved = "unknown"
    /\ IF ~config.block_private_hosts \/ hops > 0 THEN InHook("unchecked")
       ELSE IF ~UrlAllowed(target, TRUE) THEN Fail("other")
       ELSE \E found \in validate_host_ssrf_async(target.host) :
              IF found = "global" THEN InHook(found) ELSE Fail("other")

\* The request hook, which httpx calls for every request, redirected ones too:
\* the target is validated, and its host resolved.
ValidateOutboundRequest ==
    /\ Requesting /\ resolved = "unknown"
    /\ IF ~config.block_private_hosts THEN InHook("unchecked")
       ELSE IF ~UrlAllowed(target, TRUE) THEN Fail("other")
       ELSE \E found \in validate_host_ssrf_async(target.host) :
              IF found = "global" THEN InHook(found) ELSE Fail("other")

Requested == Requesting /\ resolved # "unknown"

\* The transport raises: no connection, no answer in time, a scheme it cannot do.
RequestFails == Requested /\ Fail("other")

\* A redirect is followed to its location, and validated again, at most
\* MaxRedirects times.
RedirectFollowed ==
    /\ Requested /\ target.scheme # "other" /\ config.follow_redirects
    /\ IF hops = MaxRedirects THEN Fail("other")
       ELSE /\ target' \in {url \in UrlTarget : url.host # "none"}
            /\ hops' = hops + 1 /\ resolved' = "unknown"
            /\ UNCHANGED <<configVars, result>>

\* Statuses by what __call__ makes of them; a server error, or a refusal of the
\* credentials, is raised.
UrlAnswers ==
    /\ Requested /\ target.scheme # "other"
    /\ \E status \in {"success", "redirection", "refused", "client error", "server error"} :
         /\ status = "redirection" => ~config.follow_redirects
         /\ IF \/ status = "server error"
               \/ status = "refused" /\ config.username \notin {"none", "empty"}
            THEN Fail("other") ELSE Answer(status = "success")

----------------------------------------------------------------------------

Call == \/ Ask \/ (Calling /\ Cancelled)
        \/ BackendFails \/ RedisAnswers \/ MongoAnswers \/ ServiceAnswers \/ PostgresAnswers
        \/ ValidateOutboundRequest \/ RequestFails \/ RedirectFollowed \/ UrlAnswers

Next == \/ Build /\ UNCHANGED callVars
        \/ Call

Spec == Init /\ [][Next]_vars

----------------------------------------------------------------------------
(* Properties *)

Rank == [plain |-> 0, offered |-> 1, encrypted |-> 2, ca |-> 3, full |-> 4]

Named(text) == text \notin {"none", "empty"}

\* The sslmode of the DSN, in a spelling its check reads.
SpeltMode(mode) == \/ dsn.query.sslmode = mode
                   \/ dsn.check = "asyncpg" /\ dsn.query.ssl = mode

\* The DSN or a keyword asks for this level of protection, in one of the ways of
\* docs/dsn-formats.md:16-31 and of the docstrings.  Who asks otherwise elsewhere is
\* taken at his word: a Kafka security_protocol keyword stands for the scheme
\* (kafka.py:127), verify_certs=False is the opt-out of OpenSearch, and any tls
\* option of MongoDB, be it false or misspelt, for the legacy ssl.
Asks(level) ==
    \/ /\ dsn.check = "redis" /\ level = "encrypted"
       /\ dsn.scheme = "rediss" \/ dsn.query.ssl = "true" \/ Named(dsn.query.ca)
    \/ /\ dsn.check = "kafka" /\ level = "encrypted"
       /\ \/ keyword.security_protocol \in {"SSL", "SASL_SSL"}
          \/ keyword.security_protocol = "absent" /\ Is("kafkas")
    \/ /\ dsn.check = "mongo" /\ level = "encrypted"
       /\ \/ dsn.query.tls = "true"
          \/ ~Named(dsn.query.tls) /\ dsn.query.ssl = "true"
          \/ /\ Scheme = <<"mongodb", "srv">>
             /\ dsn.query.tls # "false" /\ (Named(dsn.query.tls) \/ dsn.query.ssl # "false")
    \/ /\ dsn.check = "opensearch" /\ Is("https")
       /\ level = "encrypted" \/ (level = "full" /\ keyword.verify_certs # "false")
    \/ dsn.check = "rabbitmq" /\ level = "encrypted" /\ Is("amqps")
    \/ /\ dsn.check \in {"asyncpg", "psycopg"}
       /\ \/ level = "offered" /\ SpeltMode("prefer")
          \/ level = "encrypted" /\ SpeltMode("require")
          \/ level = "ca" /\ SpeltMode("verify-ca")
          \/ level = "full" /\ SpeltMode("verify-full")

\* No client is told to protect its connection less than any way of asking asks,
\* through parsing, aliases, keyword overrides and the SSL contexts cached for
\* other checks.  A CA file asks for TLS with Redis only (redis.py:155): PostgreSQL's
\* sslrootcert, although docs/dsn-formats.md:33 says that it verifies the server, is
\* without effect under "require" and asks for no TLS where no mode is given
\* (base.py:49-52, 138-139).  A compound scheme (amqps+x) asks for nothing.
NeverWeaker ==
    client # None /\ ~IsUrl =>
      \A level \in Levels : Asks(level) => Rank[client.tls] >= Rank[level]

ByContext == ~IsUrl /\ dsn.check = "asyncpg" /\ config.ssl = "context"

\* The SSL context a check is configured with does what its own sslmode says with
\* its own files, whatever checks were built before it, and was made after the last
\* cache_clear().  It is the check's for good: one that was configured before goes on
\* with a context of rotated files (asyncpg.py:104-113), although
\* docs/dsn-formats.md:37 takes cache_clear() for enough.
ContextIsItsOwn ==
    [][stage # "configured" /\ stage' = "configured" /\ ByContext' =>
         /\ SpeltMode(config'.context.mode)
         /\ config'.context.cert = OrNone(Unquote(dsn.query.cert))
         /\ config'.context.mode \in {"verify-ca", "verify-full"}
              => config'.context.ca = OrNone(Unquote(dsn.query.ca))
         /\ config'.context.version >= cleared]_vars

\* The checks that unquote the user and the password of their DSN.  To the others
\* they arrive as they are written, percent-escapes included.
Decoding == {"redis", "kafka", "opensearch"}
Arriving(text) == IF dsn.check \in Decoding THEN Unquote(text) ELSE text

\* The user and the password of the DSN reach the client library, each without the
\* other too and under every SASL protocol that is asked for or follows from the
\* DSN; and RabbitMQ's guest account, written out or filled in, is only ever offered
\* to a broker on the loopback interface (SECURITY.md:9, configs.py:134-139).
CredentialsArrive ==
    client # None /\ ~IsUrl =>
      /\ (dsn.check = "kafka" =>
            keyword.security_protocol \in {"absent", "SASL_PLAINTEXT", "SASL_SSL"}) =>
           /\ Named(dsn.user) => client.user = Arriving(dsn.user)
           /\ Named(dsn.password) => client.password = Arriving(dsn.password)
      /\ dsn.check = "rabbitmq" /\ client.user = "guest" /\ client.password = "guest"
           => Host = "loopback"

\* With block_private_hosts, no request of a check goes out before its own target,
\* a redirect's like the configured one, is validated and its host resolved to
\* global addresses (url.py:120).
RequestsValidated ==
    Requested /\ config.block_private_hosts => UrlAllowed(target, TRUE) /\ resolved = "global"
=============================================================================
