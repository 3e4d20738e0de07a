----------------------------- MODULE CheckConfig -----------------------------
(***************************************************************************)
(* From a DSN to the arguments of a client library: HealthCheckDSN.from_dsn *)
(* (validate_dsn, parse_dsn, _from_parsed_dsn), the frozen dataclasses of   *)
(* checks/configs.py with their validation, and _create_client or, for the  *)
(* PostgreSQL checks, the call of connect().  A process builds one check    *)
(* after another; the SSL contexts of the asyncpg checks are cached across  *)
(* them (lru_cache), while the certificate files may be rotated.            *)
(*                                                                         *)
(* A DSN is what urlsplit and parse_query_string make of it: a record of    *)
(* its parts.  A text is "none" (Python's None), "empty", "plain", "guest"   *)
(* (RabbitMQ's default account), or "encoded" while percent-escapes are     *)
(* still in it.                                                             *)
(***************************************************************************)
EXTENDS Naturals, FiniteSets

CONSTANTS
    Inputs,         \* the calls of from_dsn to consider: DSN and keyword arguments
    Urls,           \* the UrlConfig objects to consider
    Timeouts,       \* timeouts in milliseconds
    MaxContexts,    \* bound: no check is begun with this many SSL contexts cached
    MaxRotations    \* bound: rotations of the certificate files

Texts    == {"none", "empty", "plain", "encoded", "guest"}
Hosts    == {"none", "loopback", "remote", "several"}
Booleans == {"unset", "on", "off"}          \* bool | None
Drivers  == {"redis", "kafka", "mongo", "opensearch", "rabbitmq", "asyncpg", "psycopg"}

SslMode == {"disable", "allow", "prefer", "require", "verify-ca", "verify-full"}
SecurityProtocol == {"SSL", "PLAINTEXT", "SASL_PLAINTEXT", "SASL_SSL"}
SaslMechanism == {"PLAIN", "GSSAPI", "SCRAM-SHA-256", "SCRAM-SHA-512", "OAUTHBEARER"}

\* The options of the query string, "none" when not there.  parse_query_string has
\* unquoted their values: in an "encoded" one, what then stands there still reads
\* as an escape (a file whose name has a percent sign).
Options == Texts \ {"guest"}
Query == [tls : {"none", "empty", "true", "false", "other"},
          ssl : {"none", "empty", "true", "false", "unknown"} \union SslMode,
          sslmode : {"none", "unknown"} \union SslMode,
          ca : Options, cert : Options, key : Options,
          authSource : Options, direct : {"none", "true", "other"}]

Dsn == [check : Drivers, form : {"url", "blank", "notStr"},
        scheme : STRING, suffix : {"none", "srv", "driver"},
        user : Texts, password : Texts, host : Hosts, port : {"none", "given"},
        path : Texts \ {"none"}, query : Query]

Keyword == [security_protocol : {"absent", "none", "unknown"} \union SecurityProtocol,
            sasl_mechanism : {"absent", "unknown"} \union SaslMechanism,
            verify_certs : {"absent", "true", "false"}]

ASSUME InputAssumption == Inputs \subseteq Dsn \X Keyword
\* urlsplit finds no password without a user name, which may be empty.
ASSUME UserinfoAssumption ==
    \A input \in Inputs : input[1].password # "none" => input[1].user # "none"
ASSUME TimeoutAssumption == Timeouts \subseteq Nat \ {0}
ASSUME BoundAssumption == MaxContexts \in Nat \ {0} /\ MaxRotations \in Nat

\* urllib's unquote; "x or None" and "x or default".
Unquote(text) == IF text = "encoded" THEN "plain" ELSE text
OrNone(text) == IF text = "empty" THEN "none" ELSE text
Or(text, default) == IF text \in {"none", "empty"} THEN default ELSE text

----------------------------------------------------------------------------
(* What parse_dsn returns *)

RedisParseDsnResult == [user : Texts, password : Texts, host : Hosts, ssl : BOOLEAN,
                        ssl_ca_certs : Texts, scheme : STRING]
KafkaParseDsnResult == [bootstrap_servers : Hosts \union {"path"},
                        sasl_plain_username : Texts, sasl_plain_password : Texts,
                        security_protocol : SecurityProtocol]
MongoParseDsnResult == [authSource : Texts \union {"admin"}, tls : Booleans,
                        tls_ca_file : Texts]
OpenSearchParseDsnResult == [hosts : Hosts, port : {"given", "443", "9200"},
                             http_auth : Texts \X Texts,
                             use_ssl : BOOLEAN, verify_certs : BOOLEAN]
PostgresParseDsnResult == [sslmode : SslMode, sslcert : Texts, sslkey : Texts,
                           sslrootcert : Texts, direct_tls : BOOLEAN]

----------------------------------------------------------------------------
(* The configurations *)

\* An SSL context: the verification it does, the files it was made from and
\* their version.  "none" is what the modes without a context give.
NoContext == [mode |-> "none"]
Contexts == [mode : SslMode, verifies : {"nothing", "ca", "full"},
             ca : Texts, cert : Texts, version : 0..MaxRotations]
              \union {NoContext}

RedisConfig == [host : Hosts, user : Texts, password : Texts, ssl : BOOLEAN,
                ssl_ca_certs : Texts, timeout : Timeouts]
KafkaConfig == [bootstrap_servers : Hosts \union {"path"},
                security_protocol : SecurityProtocol, sasl_mechanism : SaslMechanism,
                sasl_plain_username : Texts, sasl_plain_password : Texts,
                timeout : Timeouts]
MongoConfig == [hosts : Hosts, port : {"none", "given", "27017"},
                user : Texts, password : Texts, database : Texts,
                auth_source : Texts \union {"admin"}, tls : Booleans,
                tls_ca_file : Texts, timeout : Timeouts]
OpenSearchConfig == [hosts : Hosts, port : {"given", "443", "9200"},
                     http_auth : Texts \X Texts, use_ssl : BOOLEAN,
                     verify_certs : BOOLEAN, timeout : Timeouts]
RabbitMQConfig == [host : Hosts, user : Texts, password : Texts, vhost : Texts \union {"/"},
                   secure : BOOLEAN, timeout : Timeouts]
UrlHosts == {"none", "localhost", "private", "public", "name"}
UrlTarget == [scheme : {"http", "https", "other"}, host : UrlHosts]
UrlConfig == [url : UrlTarget, username : Texts, verify_ssl : BOOLEAN, follow_redirects : BOOLEAN,
              block_private_hosts : BOOLEAN, timeout : Timeouts]
ASSUME UrlAssumption == Urls \subseteq UrlConfig

PostgresAsyncPGConfig == [host : Hosts, user : Texts,
                          password : Texts, database : Texts,
                          ssl : SslMode \union {"context"}, context : Contexts,
                          direct_tls : BOOLEAN, timeout : Timeouts]
PostgresPsycopgConfig == [host : Hosts, user : Texts,
                          password : Texts, database : Texts, sslmode : SslMode,
                          sslcert : Texts, sslkey : Texts, sslrootcert : Texts,
                          timeout : Timeouts]

\* Mutant: only the protocol is validated.
KafkaAcceptsProtocol(protocol, mechanism) == protocol \in SecurityProtocol

\* KafkaConfig.__post_init__
KafkaAccepts(protocol, mechanism) ==
    protocol \in SecurityProtocol /\ mechanism \in SaslMechanism

\* RabbitMQConfig.__post_init__: the broker's default credentials, spelt out in
\* the DSN or filled in, are for loopback hosts.
RabbitAccepts(config) ==
    ~ /\ config.user = "guest" /\ config.password = "guest"
      /\ config.host # "loopback"

----------------------------------------------------------------------------
(* State *)

None == [absent |-> "none"]                 \* nothing built yet

Levels == {"plain", "offered", "encrypted", "ca", "full"}

\* What the client library is told: how it protects the connection and checks
\* the server, the CA file it trusts, the credentials, the name in the path of
\* the DSN (a database or a virtual host), and its timeout.
\* "encrypted" is TLS with whatever the library verifies on its own.
Client == [tls : Levels, ca : Texts, user : Texts, password : Texts,
           path : Texts \union {"/", "admin"}, timeout : Nat]

VARIABLES
    stage,      \* how far the check is
    dsn,        \* the DSN it is built from
    keyword,    \* the keyword arguments
    timeout,    \* the timeout argument
    parsed,     \* the result of parse_dsn
    config,     \* the check's _config
    client,     \* the arguments of its client
    contexts,   \* the cache of create_ssl_context
    disk,       \* version of the certificate files on disk
    cleared     \* version of the files at the last cache_clear()

configVars == <<stage, dsn, keyword, timeout, parsed, config, client, contexts, disk, cleared>>

Stages == {"idle", "given", "rejected", "validated", "parsed", "configured", "ready",
           "calling", "answered"}

ConfigTypeOK ==
    /\ stage \in Stages
    /\ dsn \in Dsn \union Urls \union {None} /\ keyword \in Keyword \union {None}
    /\ timeout \in Timeouts
    /\ parsed \in {None} \union RedisParseDsnResult \union KafkaParseDsnResult
                    \union MongoParseDsnResult \union OpenSearchParseDsnResult
                    \union PostgresParseDsnResult
    /\ config \in {None} \union RedisConfig \union KafkaConfig \union MongoConfig
                    \union OpenSearchConfig \union RabbitMQConfig \union UrlConfig
                    \union PostgresAsyncPGConfig \union PostgresPsycopgConfig
    /\ client \in Client \union {None}
    /\ \A key \in DOMAIN contexts : contexts[key] \in Contexts
    /\ disk \in 0..MaxRotations /\ cleared \in 0..disk

ConfigInit ==
    /\ stage = "idle" /\ timeout \in Timeouts
    /\ dsn = None /\ keyword = None /\ parsed = None /\ config = None /\ client = None
    /\ contexts = <<>> /\ disk = 0 /\ cleared = 0

----------------------------------------------------------------------------
(* from_dsn *)

MayBegin == stage = "idle" /\ Cardinality(DOMAIN contexts) < MaxContexts

\* The process builds a check.
Begin ==
    /\ MayBegin /\ stage' = "given"
    /\ \E input \in Inputs : dsn' = input[1] /\ keyword' = input[2]
    /\ timeout' \in Timeouts
    /\ UNCHANGED <<parsed, config, client, contexts, disk, cleared>>

\* It has done with a check; the next one finds the cached SSL contexts.
Discard ==
    /\ stage \in {"rejected", "ready", "answered"} /\ stage' = "idle"
    /\ dsn' = None /\ keyword' = None /\ parsed' = None /\ config' = None /\ client' = None
    /\ UNCHANGED <<timeout, contexts, disk, cleared>>

Reject ==
    /\ stage' = "rejected" /\ parsed' = None
    /\ UNCHANGED <<dsn, keyword, timeout, config, client, contexts, disk, cleared>>

Scheme == <<dsn.scheme, dsn.suffix>>
Is(scheme) == Scheme = <<scheme, "none">>

\* _allowed_schemes of each check
AllowedSchemes ==
    [redis |-> {"redis", "rediss"}, kafka |-> {"kafka", "kafkas"},
     mongo |-> {"mongodb"}, opensearch |-> {"http", "https"},
     rabbitmq |-> {"amqp", "amqps"}, asyncpg |-> {"postgresql", "postgres"},
     psycopg |-> {"postgresql", "postgres"}]

\* The part of the scheme before a "+" may be allowed instead of the whole.
ValidateDsn ==
    /\ stage = "given"
    /\ IF dsn.form = "url" /\ dsn.scheme \in AllowedSchemes[dsn.check]
       THEN /\ stage' = "validated"
            /\ UNCHANGED <<dsn, keyword, timeout, parsed, config, client, contexts, disk, cleared>>
       ELSE Reject

Parsed(result) ==
    /\ stage' = "parsed" /\ parsed' = result
    /\ UNCHANGED <<dsn, keyword, timeout, config, client, contexts, disk, cleared>>

Configured(result) ==
    /\ stage' = "configured" /\ config' = result /\ parsed' = None
    /\ UNCHANGED <<dsn, keyword, timeout, client>>

Connected(arguments) ==
    /\ stage' = "ready" /\ client' = arguments
    /\ UNCHANGED <<dsn, keyword, timeout, parsed, config, contexts, disk, cleared>>

Host == IF dsn.host = "none" THEN "loopback" ELSE dsn.host
Secure(tls) == IF tls THEN "encrypted" ELSE "plain"

----------------------------------------------------------------------------
(* Redis.  The library's parse_url knows no compound scheme; it unquotes, the *)
(* options (once more) too.                                                   *)

RedisParse ==
    IF dsn.suffix # "none" THEN Reject
    ELSE Parsed([user |-> OrNone(Unquote(dsn.user)), password |-> OrNone(Unquote(dsn.password)),
                 host |-> dsn.host, ssl |-> dsn.query.ssl \notin {"none", "empty"},
                 ssl_ca_certs |-> OrNone(Unquote(dsn.query.ca)), scheme |-> dsn.scheme])

\* Mutant: the scheme is left to the library.
RedisTlsByOption(p) == p.ssl \/ p.ssl_ca_certs # "none"

RedisTls(p) == p.ssl \/ p.ssl_ca_certs # "none" \/ p.scheme = "rediss"

RedisConfigure ==
    /\ Configured([host |-> Host, user |-> parsed.user,
                   password |-> parsed.password,
                   ssl |-> RedisTls(parsed),
                   ssl_ca_certs |-> parsed.ssl_ca_certs, timeout |-> timeout])
    /\ UNCHANGED <<contexts, disk, cleared>>

RedisClient(c) ==
    [tls |-> Secure(c.ssl), ca |-> c.ssl_ca_certs, user |-> c.user, password |-> c.password,
     path |-> "none", timeout |-> c.timeout]

----------------------------------------------------------------------------
(* Kafka *)

\* Mutant: a password alone is no credential.
SaslByName(name, secret) == name # "none"

Sasl(name, secret) == name # "none" \/ secret # "none"

\* The servers may stand in the path; credentials choose the SASL protocols.
KafkaParse ==
    LET name    == OrNone(Unquote(dsn.user))
        secret  == OrNone(Unquote(dsn.password))
        sasl    == Sasl(name, secret)
        servers == IF dsn.host # "none" THEN dsn.host
                   ELSE IF dsn.path # "empty" THEN "path" ELSE "none"
    IN  IF servers = "none" THEN Reject
        ELSE Parsed([bootstrap_servers |-> servers,
                     sasl_plain_username |-> name, sasl_plain_password |-> secret,
                     security_protocol |->
                        IF Is("kafkas") THEN (IF sasl THEN "SASL_SSL" ELSE "SSL")
                        ELSE (IF sasl THEN "SASL_PLAINTEXT" ELSE "PLAINTEXT")])

\* The keywords override what the DSN says; None means PLAINTEXT.
KafkaConfigure ==
    LET asked     == keyword.security_protocol
        protocol  == CASE asked = "absent" -> parsed.security_protocol
                       [] asked = "none"   -> "PLAINTEXT"
                       [] OTHER            -> asked
        mechanism == IF keyword.sasl_mechanism = "absent" THEN "PLAIN"
                     ELSE keyword.sasl_mechanism
    IN  IF ~KafkaAccepts(protocol, mechanism) THEN Reject
        ELSE /\ Configured([bootstrap_servers |-> parsed.bootstrap_servers,
                            security_protocol |-> protocol, sasl_mechanism |-> mechanism,
                            sasl_plain_username |-> parsed.sasl_plain_username,
                            sasl_plain_password |-> parsed.sasl_plain_password,
                            timeout |-> timeout])
             /\ UNCHANGED <<contexts, disk, cleared>>

KafkaClient(c) ==
    LET sasl == c.security_protocol \in {"SASL_PLAINTEXT", "SASL_SSL"}
    IN  [tls |-> Secure(c.security_protocol \in {"SSL", "SASL_SSL"}), ca |-> "none",
         user |-> IF sasl THEN c.sasl_plain_username ELSE "none",
         password |-> IF sasl THEN c.sasl_plain_password ELSE "none",
         path |-> "none", timeout |-> c.timeout]

----------------------------------------------------------------------------
(* MongoDB.  Several hosts keep their own ports; nothing is unquoted. *)

MongoParse ==
    LET tls == Or(dsn.query.tls, dsn.query.ssl)
    IN  Parsed([authSource |-> IF dsn.query.authSource = "none" THEN "admin"
                               ELSE dsn.query.authSource,
                tls |-> CASE tls = "true"  -> "on"
                          [] tls = "false" -> "off"
                          [] OTHER -> IF Scheme = <<"mongodb", "srv">> THEN "on" ELSE "unset",
                tls_ca_file |-> OrNone(dsn.query.ca)])

MongoConfigure ==
    /\ Configured([hosts |-> Host,
                   port |-> CASE dsn.host = "several" -> "none"
                              [] dsn.port = "none"    -> "27017"
                              [] OTHER                -> "given",
                   user |-> dsn.user, password |-> dsn.password,
                   database |-> OrNone(dsn.path), auth_source |-> parsed.authSource,
                   tls |-> parsed.tls, tls_ca_file |-> parsed.tls_ca_file,
                   timeout |-> timeout])
    /\ UNCHANGED <<contexts, disk, cleared>>

\* The database that is pinged is part of the call.
MongoClient(c) ==
    [tls |-> Secure(c.tls = "on"), ca |-> c.tls_ca_file, user |-> c.user,
     password |-> c.password, path |-> Or(c.database, c.auth_source), timeout |-> c.timeout]

----------------------------------------------------------------------------
(* OpenSearch *)

OpenSearchParse ==
    IF dsn.host = "none" THEN Reject
    ELSE Parsed([hosts |-> dsn.host,
                 port |-> CASE dsn.port = "given" -> "given"
                            [] Is("https")        -> "443"
                            [] OTHER              -> "9200",
                 http_auth |-> IF dsn.user = "none" THEN <<"none", "none">>
                               ELSE <<Unquote(dsn.user),
                                      IF dsn.password = "none" THEN "empty"
                                      ELSE Unquote(dsn.password)>>,
                 use_ssl |-> Is("https"), verify_certs |-> Is("https")])

OpenSearchConfigure ==
    /\ Configured([hosts |-> parsed.hosts, port |-> parsed.port,
                   http_auth |-> parsed.http_auth, use_ssl |-> parsed.use_ssl,
                   verify_certs |-> IF keyword.verify_certs = "absent" THEN parsed.verify_certs
                                    ELSE keyword.verify_certs = "true",
                   timeout |-> timeout])
    /\ UNCHANGED <<contexts, disk, cleared>>

OpenSearchClient(c) ==
    [tls |-> IF c.use_ssl /\ c.verify_certs THEN "full" ELSE Secure(c.use_ssl), ca |-> "none",
     user |-> c.http_auth[1], password |-> c.http_auth[2], path |-> "none",
     timeout |-> c.timeout]

----------------------------------------------------------------------------
(* RabbitMQ *)

RabbitConfigure ==
    LET built == [host |-> Host, user |-> Or(dsn.user, "guest"),
                  password |-> Or(dsn.password, "guest"), vhost |-> Or(dsn.path, "/"),
                  secure |-> Is("amqps"), timeout |-> timeout]
    IN  IF ~RabbitAccepts(built) THEN Reject
        ELSE Configured(built) /\ UNCHANGED <<contexts, disk, cleared>>

RabbitClient(c) ==
    [tls |-> Secure(c.secure), ca |-> "none", user |-> c.user, password |-> c.password,
     path |-> c.vhost, timeout |-> c.timeout]

----------------------------------------------------------------------------
(* PostgreSQL *)

\* _sslmode_query_keys: asyncpg also takes SQLAlchemy's spelling.
GivenModes ==
    ({dsn.query.sslmode} \union (IF dsn.check = "asyncpg" THEN {dsn.query.ssl} ELSE {}))
      \ {"none"}

\* Every mode that is given must be known, and all must agree; a key needs its
\* certificate.  The names of the files are unquoted a second time.
PostgresParse ==
    IF \/ ~ GivenModes \subseteq SslMode
       \/ Cardinality(GivenModes) > 1
       \/ OrNone(dsn.query.key) # "none" /\ OrNone(dsn.query.cert) = "none"
    THEN Reject
    ELSE Parsed([sslmode |-> CHOOSE mode \in SslMode :
                               IF GivenModes = {} THEN mode = "disable" ELSE mode \in GivenModes,
                 sslcert |-> OrNone(Unquote(dsn.query.cert)),
                 sslkey |-> OrNone(Unquote(dsn.query.key)),
                 sslrootcert |-> OrNone(Unquote(dsn.query.ca)),
                 direct_tls |-> dsn.query.direct = "true"])

\* create_ssl_context: "prefer" has the defaults of a verifying context, and
\* only the verifying modes read sslrootcert.
SslContext(mode, cert, ca) ==
    IF mode \in {"disable", "allow"} THEN NoContext
    ELSE [mode |-> mode,
          verifies |-> CASE mode = "require"   -> "nothing"
                         [] mode = "verify-ca" -> "ca"
                         [] OTHER              -> "full",
          ca |-> IF mode \in {"verify-ca", "verify-full"} THEN ca ELSE "none",
          cert |-> cert, version |-> disk]

\* Mutant: the cache is keyed by the files alone.
ContextKeyOfFiles(mode, files) == <<"any", files>>

\* lru_cache: the arguments are the key.
ContextKey(mode, files) == <<mode, files>>

AsyncPGConfig(ssl, context) ==
    [host |-> Host, user |-> dsn.user, password |-> dsn.password, database |-> dsn.path,
     ssl |-> ssl, context |-> context, direct_tls |-> parsed.direct_tls, timeout |-> timeout]

\* Without certificate files the driver gets the mode; with them it gets the
\* context, from the cache or new, or the mode when there is no context.  A file
\* that cannot be read raises, and nothing is cached.
AsyncPGConfigure ==
    LET mode  == parsed.sslmode
        files == <<parsed.sslcert, parsed.sslkey, parsed.sslrootcert>>
        key   == ContextKey(mode, files)
        made  == SslContext(mode, parsed.sslcert, parsed.sslrootcert)
        found == IF key \in DOMAIN contexts THEN contexts[key] ELSE made
    IN  IF files = <<"none", "none", "none">>
        THEN Configured(AsyncPGConfig(mode, NoContext)) /\ UNCHANGED <<contexts, disk, cleared>>
        ELSE \/ /\ Configured(AsyncPGConfig(IF found = NoContext THEN mode ELSE "context", found))
                /\ contexts' = [k \in DOMAIN contexts \union {key} |->
                                  IF k = key THEN found ELSE contexts[k]]
                /\ UNCHANGED <<disk, cleared>>
             \/ /\ key \notin DOMAIN contexts /\ made # NoContext
                /\ <<made.ca, made.cert>> # <<"none", "none">>
                /\ Reject

\* asyncpg's reading of its ssl argument.
DriverLevel(mode) ==
    CASE mode = "disable"              -> "plain"
      [] mode \in {"allow", "prefer"}  -> "offered"
      [] mode = "require"              -> "encrypted"
      [] mode = "verify-ca"            -> "ca"
      [] mode = "verify-full"          -> "full"

AsyncPGClient(c) ==
    [tls |-> IF c.ssl # "context" THEN DriverLevel(c.ssl)
             ELSE CASE c.context.verifies = "nothing" -> "encrypted"
                    [] c.context.verifies = "ca"      -> "ca"
                    [] c.context.verifies = "full"    -> "full",
     ca |-> IF c.ssl = "context" THEN c.context.ca ELSE "none",
     user |-> c.user, password |-> c.password, path |-> c.database, timeout |-> c.timeout]

PsycopgConfigure ==
    /\ Configured([host |-> Host, user |-> dsn.user, password |-> dsn.password,
                   database |-> dsn.path, sslmode |-> parsed.sslmode,
                   sslcert |-> parsed.sslcert, sslkey |-> parsed.sslkey,
                   sslrootcert |-> parsed.sslrootcert, timeout |-> timeout])
    /\ UNCHANGED <<contexts, disk, cleared>>

\* connect_timeout is a whole number of seconds.
PsycopgClient(c) ==
    [tls |-> DriverLevel(c.sslmode), ca |-> c.sslrootcert, user |-> c.user,
     password |-> c.password, path |-> c.database, timeout |-> (c.timeout \div 1000) * 1000]

----------------------------------------------------------------------------
(* UrlHealthCheck *)

\* validate_url_ssrf
UrlAllowed(url, blockPrivate) ==
    /\ url.scheme \in {"http", "https"} /\ url.host # "none"
    /\ blockPrivate => url.host \notin {"localhost", "private"}

\* __init__: basic auth over https needs a verified certificate.
BeginUrl ==
    /\ MayBegin
    /\ dsn' \in Urls /\ timeout' = dsn'.timeout
    /\ IF /\ UrlAllowed(dsn'.url, dsn'.block_private_hosts)
          /\ ~ (/\ dsn'.username \notin {"none", "empty"}
                /\ ~dsn'.verify_ssl /\ dsn'.url.scheme = "https")
       THEN stage' = "configured" /\ config' = dsn'
       ELSE stage' = "rejected" /\ UNCHANGED config
    /\ UNCHANGED <<keyword, parsed, client, contexts, disk, cleared>>

\* The hook on its requests is part of the call.
UrlClient(c) ==
    [tls |-> IF c.url.scheme = "http" THEN "plain"
             ELSE IF c.verify_ssl THEN "full" ELSE "encrypted",
     ca |-> "none", user |-> OrNone(c.username), password |-> "none", path |-> "none",
     timeout |-> c.timeout]

----------------------------------------------------------------------------
(* The steps of a check, and what happens around them *)

ParseDsn ==
    /\ stage = "validated"
    /\ CASE dsn.check = "redis"      -> RedisParse
         [] dsn.check = "kafka"      -> KafkaParse
         [] dsn.check = "mongo"      -> MongoParse
         [] dsn.check = "opensearch" -> OpenSearchParse
         [] dsn.check = "rabbitmq"   -> Parsed(None)
         [] dsn.check \in {"asyncpg", "psycopg"} -> PostgresParse

FromParsedDsn ==
    /\ stage = "parsed"
    /\ CASE dsn.check = "redis"      -> RedisConfigure
         [] dsn.check = "kafka"      -> KafkaConfigure
         [] dsn.check = "mongo"      -> MongoConfigure
         [] dsn.check = "opensearch" -> OpenSearchConfigure
         [] dsn.check = "rabbitmq"   -> RabbitConfigure
         [] dsn.check = "asyncpg"    -> AsyncPGConfigure
         [] dsn.check = "psycopg"    -> PsycopgConfigure

IsUrl == dsn \in Urls

\* _create_client, for a check that has none.
CreateClient ==
    /\ stage \in {"configured", "answered"} /\ client = None
    /\ Connected(IF IsUrl THEN UrlClient(config)
                 ELSE CASE dsn.check = "redis"      -> RedisClient(config)
                        [] dsn.check = "kafka"      -> KafkaClient(config)
                        [] dsn.check = "mongo"      -> MongoClient(config)
                        [] dsn.check = "opensearch" -> OpenSearchClient(config)
                        [] dsn.check = "rabbitmq"   -> RabbitClient(config)
                        [] dsn.check = "asyncpg"    -> AsyncPGClient(config)
                        [] dsn.check = "psycopg"    -> PsycopgClient(config))

\* The certificate files are replaced.
Rotate ==
    /\ disk < MaxRotations /\ disk' = disk + 1
    /\ UNCHANGED <<stage, dsn, keyword, timeout, parsed, config, client, contexts, cleared>>

\* create_ssl_context.cache_clear()
CacheClear ==
    /\ contexts' = <<>> /\ cleared' = disk
    /\ UNCHANGED <<stage, dsn, keyword, timeout, parsed, config, client, disk>>

Build == \/ Begin \/ BeginUrl \/ Discard \/ ValidateDsn \/ ParseDsn \/ FromParsedDsn
         \/ CreateClient \/ Rotate \/ CacheClear
=============================================================================
