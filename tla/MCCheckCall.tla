------------------------------ MODULE MCCheckCall ------------------------------
(* CheckCall for DSNs that exercise each parser: every way of asking for TLS  *)
(* and of giving credentials, with the rest of the DSN as in Plain.           *)
EXTENDS CheckCall

NoQuery == [tls |-> "none", ssl |-> "none", sslmode |-> "none", ca |-> "none",
            cert |-> "none", key |-> "none", authSource |-> "none", direct |-> "none"]

Plain(check, scheme) ==
    [check |-> check, form |-> "url", scheme |-> scheme, suffix |-> "none",
     user |-> "none", password |-> "none", host |-> "remote", port |-> "none",
     path |-> "empty", query |-> NoQuery]

\* No credentials, a user alone, a password alone, and both.
WithCredentials(d) ==
    {d, [d EXCEPT !.user = "plain"], [d EXCEPT !.user = "empty", !.password = "plain"],
     [d EXCEPT !.user = "encoded", !.password = "encoded"]}

Bad == {[Plain("redis", "redis") EXCEPT !.form = form] : form \in {"blank", "notStr"}}
         \union {Plain("kafka", "redis")}

Redis ==
    UNION {WithCredentials([Plain("redis", scheme) EXCEPT !.query.ssl = ssl, !.query.ca = ca]) :
             scheme \in {"redis", "rediss"}, ssl \in {"none", "empty", "true", "false"},
             ca \in {"none", "encoded"}}
      \union {[Plain("redis", "rediss") EXCEPT !.suffix = "driver"]}

Kafka ==
    UNION {WithCredentials([Plain("kafka", scheme) EXCEPT
                              !.suffix = suffix, !.host = host, !.path = path]) :
             scheme \in {"kafka", "kafkas"}, suffix \in {"none", "driver"},
             host \in {"none", "several"}, path \in {"empty", "plain"}}

Mongo ==
    {[Plain("mongo", "mongodb") EXCEPT !.suffix = suffix, !.query.tls = tls, !.query.ssl = ssl] :
       suffix \in {"none", "srv"}, tls \in {"none", "empty", "true", "false", "other"},
       ssl \in {"none", "true", "false"}}
      \union WithCredentials([Plain("mongo", "mongodb") EXCEPT !.host = "several"])
      \union {[Plain("mongo", "mongodb") EXCEPT !.host = "none", !.port = port, !.path = path,
                                                !.query.authSource = source, !.query.ca = "plain"] :
                port \in {"none", "given"}, path \in {"empty", "plain"},
                source \in {"none", "empty"}}

OpenSearch ==
    UNION {WithCredentials([Plain("opensearch", scheme) EXCEPT !.host = host, !.port = port]) :
             scheme \in {"http", "https"}, host \in {"none", "remote"}, port \in {"none", "given"}}

RabbitMQ ==
    UNION {WithCredentials([Plain("rabbitmq", scheme) EXCEPT !.host = host, !.path = path]) :
             scheme \in {"amqp", "amqps"}, host \in {"none", "remote"},
             path \in {"empty", "encoded"}}
      \union {[Plain("rabbitmq", "amqp") EXCEPT !.user = "guest", !.password = password,
                                                !.host = host] :
                password \in {"guest", "plain"}, host \in {"loopback", "remote"}}

\* Both spellings of the mode, and the certificate files.
Modes ==
    {[Plain(check, "postgresql") EXCEPT !.query.sslmode = mode, !.query.ssl = alias] :
       check \in {"asyncpg", "psycopg"}, mode \in SslMode \union {"none", "unknown"},
       alias \in {"none", "require", "verify-full"}}
Files ==
    {[Plain("asyncpg", "postgres") EXCEPT !.query.sslmode = mode, !.query.ca = "plain",
                                          !.query.cert = "plain"] :
       mode \in {"disable", "prefer", "require", "verify-ca", "verify-full"}}
      \union {[Plain("asyncpg", "postgres") EXCEPT !.query.sslmode = "verify-full",
                                          !.query.cert = cert, !.query.key = "encoded"] :
       cert \in {"none", "encoded"}}
      \union {[Plain("asyncpg", "postgres") EXCEPT !.query.ca = "encoded"],
              [Plain("asyncpg", "postgres") EXCEPT !.query.sslmode = "require",
                                                   !.query.ca = "encoded"]}
Postgres ==
    Modes \union Files
      \union WithCredentials([Plain("psycopg", "postgres") EXCEPT !.suffix = "driver"])
      \union WithCredentials(Plain("asyncpg", "postgresql"))

NoKeywords == [security_protocol |-> "absent", sasl_mechanism |-> "absent",
               verify_certs |-> "absent"]
Keywords ==
    {NoKeywords, [NoKeywords EXCEPT !.security_protocol = "none", !.verify_certs = "true"],
     [NoKeywords EXCEPT !.security_protocol = "SSL", !.verify_certs = "false"],
     [NoKeywords EXCEPT !.security_protocol = "SASL_SSL"],
     [NoKeywords EXCEPT !.security_protocol = "SASL_PLAINTEXT"],
     [NoKeywords EXCEPT !.sasl_mechanism = "unknown"]}

SomeInputs ==
    ((Bad \union Redis \union Mongo \union RabbitMQ \union Postgres) \X {NoKeywords})
      \union ((Kafka \union OpenSearch) \X Keywords)

SomeUrls ==
    {[url |-> [scheme |-> scheme, host |-> host], username |-> username, verify_ssl |-> verify,
      follow_redirects |-> follow, block_private_hosts |-> block, timeout |-> 5000] :
       scheme \in {"http", "https", "other"}, host \in {"private", "name"},
       username \in {"none", "plain"}, verify \in BOOLEAN, follow \in BOOLEAN,
       block \in BOOLEAN}

Seconds == {5000}
================================================================================
