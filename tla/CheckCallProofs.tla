--------------------------- MODULE CheckCallProofs ---------------------------
(***************************************************************************)
(* Proofs about CheckCall, for any DSNs, keywords and URL configurations,  *)
(* any timeouts and any bounds.                                            *)
(***************************************************************************)
EXTENDS CheckCall, FiniteSetTheorems, TLAPS

(***************************************************************************)
(* The inductive invariant.  A property about a client needs to know what  *)
(* each step before it has kept of the DSN: what parse_dsn returned, what  *)
(* the configuration holds, what the SSL contexts of the cache were made   *)
(* from.                                                                   *)
(***************************************************************************)

\* What parse_dsn has kept of the DSN.
RedisParsed(p) ==
    /\ p \in RedisParseDsnResult
    /\ p.user = OrNone(Unquote(dsn.user)) /\ p.password = OrNone(Unquote(dsn.password))
    /\ p.ssl_ca_certs = OrNone(Unquote(dsn.query.ca)) /\ p.scheme = dsn.scheme
    /\ dsn.query.ssl = "true" => p.ssl

KafkaParsed(p) ==
    /\ p \in KafkaParseDsnResult
    /\ p.sasl_plain_username = OrNone(Unquote(dsn.user))
    /\ p.sasl_plain_password = OrNone(Unquote(dsn.password))
    /\ p.security_protocol \in {"SSL", "SASL_SSL"} <=> Is("kafkas")
    /\ p.security_protocol \in {"SASL_PLAINTEXT", "SASL_SSL"}
         <=> p.sasl_plain_username # "none" \/ p.sasl_plain_password # "none"

\* The ways of asking for TLS that Asks names.
MongoAsks ==
    \/ dsn.query.tls = "true"
    \/ ~Named(dsn.query.tls) /\ dsn.query.ssl = "true"
    \/ /\ Scheme = <<"mongodb", "srv">>
       /\ dsn.query.tls # "false" /\ (Named(dsn.query.tls) \/ dsn.query.ssl # "false")

MongoParsed(p) ==
    /\ p \in MongoParseDsnResult
    /\ MongoAsks => p.tls = "on"

OpenSearchParsed(p) ==
    /\ p \in OpenSearchParseDsnResult
    /\ dsn.user # "none" => p.http_auth[1] = Unquote(dsn.user)
    /\ dsn.user # "none" /\ dsn.password # "none" => p.http_auth[2] = Unquote(dsn.password)
    /\ p.use_ssl <=> Is("https")
    /\ p.verify_certs <=> Is("https")

\* Every mode that is given is the one that was kept.
PostgresParsed(p) ==
    /\ p \in PostgresParseDsnResult
    /\ GivenModes \subseteq {p.sslmode} /\ (GivenModes = {} => p.sslmode = "disable")
    /\ p.sslcert = OrNone(Unquote(dsn.query.cert)) /\ p.sslrootcert = OrNone(Unquote(dsn.query.ca))

ParsedFits(p) ==
    /\ dsn.check = "redis" => RedisParsed(p)
    /\ dsn.check = "kafka" => KafkaParsed(p)
    /\ dsn.check = "mongo" => MongoParsed(p)
    /\ dsn.check = "opensearch" => OpenSearchParsed(p)
    /\ dsn.check = "rabbitmq" => p = None
    /\ dsn.check \in {"asyncpg", "psycopg"} => PostgresParsed(p)

\* What the check's configuration holds of its DSN and its keywords.
RedisFits(c) ==
    /\ c \in RedisConfig
    /\ c.user = OrNone(Unquote(dsn.user)) /\ c.password = OrNone(Unquote(dsn.password))
    /\ dsn.scheme = "rediss" \/ dsn.query.ssl = "true" \/ Named(dsn.query.ca) => c.ssl

KafkaFits(c) ==
    /\ c \in KafkaConfig
    /\ c.sasl_plain_username = OrNone(Unquote(dsn.user))
    /\ c.sasl_plain_password = OrNone(Unquote(dsn.password))
    /\ keyword.security_protocol \in {"SSL", "SASL_SSL", "SASL_PLAINTEXT"}
         => c.security_protocol = keyword.security_protocol
    /\ keyword.security_protocol = "absent" =>
         /\ Is("kafkas") => c.security_protocol \in {"SSL", "SASL_SSL"}
         /\ c.sasl_plain_username # "none" \/ c.sasl_plain_password # "none"
              => c.security_protocol \in {"SASL_PLAINTEXT", "SASL_SSL"}

MongoFits(c) ==
    /\ c \in MongoConfig
    /\ c.user = dsn.user /\ c.password = dsn.password
    /\ MongoAsks => c.tls = "on"

OpenSearchFits(c) ==
    /\ c \in OpenSearchConfig
    /\ dsn.user # "none" => c.http_auth[1] = Unquote(dsn.user)
    /\ dsn.password # "none" => c.http_auth[2] = Unquote(dsn.password)
    /\ Is("https") => c.use_ssl
    /\ Is("https") /\ keyword.verify_certs # "false" => c.verify_certs

RabbitFits(c) ==
    /\ c \in RabbitMQConfig
    /\ c.user = Or(dsn.user, "guest") /\ c.password = Or(dsn.password, "guest")
    /\ Is("amqps") => c.secure
    /\ c.user = "guest" /\ c.password = "guest" => Host = "loopback"

\* A context does what its mode says, with the files it is looked up by.
Made(context, mode, cert, ca) ==
    /\ context \in Contexts
    /\ mode \in {"disable", "allow"} => context = NoContext
    /\ context # NoContext =>
         /\ context.mode = mode /\ context.cert = cert
         /\ mode \in {"verify-ca", "verify-full"} => context.ca = ca
         /\ mode = "require" => context.verifies = "nothing"
         /\ mode = "verify-ca" => context.verifies = "ca"
         /\ mode \in {"prefer", "verify-full"} => context.verifies = "full"

AsyncPGFits(c) ==
    /\ c \in PostgresAsyncPGConfig
    /\ c.user = dsn.user /\ c.password = dsn.password
    /\ c.ssl # "context" => GivenModes \subseteq {c.ssl}
    /\ c.ssl = "context" =>
         /\ c.context # NoContext /\ GivenModes = {c.context.mode}
         /\ Made(c.context, c.context.mode, OrNone(Unquote(dsn.query.cert)), OrNone(Unquote(dsn.query.ca)))

PsycopgFits(c) ==
    /\ c \in PostgresPsycopgConfig
    /\ c.user = dsn.user /\ c.password = dsn.password
    /\ GivenModes \subseteq {c.sslmode}

ConfigFits(c) ==
    /\ dsn.check = "redis" => RedisFits(c)
    /\ dsn.check = "kafka" => KafkaFits(c)
    /\ dsn.check = "mongo" => MongoFits(c)
    /\ dsn.check = "opensearch" => OpenSearchFits(c)
    /\ dsn.check = "rabbitmq" => RabbitFits(c)
    /\ dsn.check = "asyncpg" => AsyncPGFits(c)
    /\ dsn.check = "psycopg" => PsycopgFits(c)

\* What the client is given.
ClientOf(c) ==
    /\ IsUrl => client = UrlClient(c)
    /\ ~IsUrl =>
         /\ dsn.check = "redis" => client = RedisClient(c)
         /\ dsn.check = "kafka" => client = KafkaClient(c)
         /\ dsn.check = "mongo" => client = MongoClient(c)
         /\ dsn.check = "opensearch" => client = OpenSearchClient(c)
         /\ dsn.check = "rabbitmq" => client = RabbitClient(c)
         /\ dsn.check = "asyncpg" => client = AsyncPGClient(c)
         /\ dsn.check = "psycopg" => client = PsycopgClient(c)

Built == stage \in {"configured", "ready", "calling", "answered"}

FromDsn == /\ dsn \in Dsn /\ keyword \in Keyword
           /\ dsn.password # "none" => dsn.user # "none"

ParsingFits ==
    /\ stage \in {"given", "validated", "parsed"} => FromDsn
    /\ stage = "parsed" => ParsedFits(parsed)

ConfigurationFits ==
    Built => IF IsUrl THEN config = dsn ELSE FromDsn /\ ConfigFits(config)

ClientFits == client # None => Built /\ ClientOf(config)

\* The cache of SSL contexts: its keys say what its contexts do.
CacheFits ==
    \A key \in DOMAIN contexts :
      /\ Made(contexts[key], key[1], key[2][1], key[2][3])
      /\ contexts[key] # NoContext => contexts[key].version >= cleared

IInv == TypeOK /\ ParsingFits /\ ConfigurationFits /\ ClientFits /\ CacheFits /\ RequestsValidated

LEMMA UrlsApart == \A d \in Dsn : d \notin Urls
<1> SUFFICES ASSUME NEW d \in Dsn, d \in UrlConfig PROVE FALSE
  BY UrlAssumption
<1>1. "check" \in DOMAIN d
  BY DEF Dsn
<1>2. "check" \notin DOMAIN d
  BY DEF UrlConfig
<1> QED  BY <1>1, <1>2

LEMMA TextFacts ==
  \A text \in Texts :
    /\ Unquote(text) \in Texts /\ OrNone(text) \in Texts
    /\ Named(text) <=> OrNone(Unquote(text)) # "none"
    /\ Named(text) => OrNone(Unquote(text)) = Unquote(text) /\ Or(text, "guest") = text
BY DEF Texts, Unquote, OrNone, Or, Named

LEMMA DsnFacts ==
  \A d \in Dsn :
    /\ d.check \in Drivers /\ d.user \in Texts /\ d.password \in Texts /\ d.path \in Texts
    /\ d.host \in Hosts /\ d.query \in Query /\ d.path # "none"
BY DEF Dsn

LEMMA QueryFacts ==
  \A q \in Query :
    /\ q.ca \in Texts /\ q.cert \in Texts /\ q.key \in Texts
    /\ q.authSource \in Texts /\ q.ssl \in {"none", "empty", "true", "false", "unknown"} \union SslMode
    /\ q.sslmode \in {"none", "unknown"} \union SslMode
BY DEF Query, Options

LEMMA InitInvariant == Init => IInv
<1> SUFFICES ASSUME Init PROVE IInv
  OBVIOUS
<1> USE DEF Init, ConfigInit
<1>1. DOMAIN contexts = {}
  OBVIOUS
<1>2. TypeOK
  BY <1>1, BoundAssumption, RedirectAssumption DEF TypeOK, ConfigTypeOK, Stages
<1>3. ParsingFits /\ ConfigurationFits /\ ClientFits /\ CacheFits /\ RequestsValidated
  BY <1>1 DEF ParsingFits, ConfigurationFits, ClientFits, CacheFits, Built, RequestsValidated,
              Requested, Requesting, Calling
<1> QED  BY <1>2, <1>3 DEF IInv

\* The fragments that say what was kept read the DSN and the keywords alone.
LEMMA FragmentsStand ==
  ASSUME dsn' = dsn, keyword' = keyword
  PROVE  /\ FromDsn' <=> FromDsn
         /\ parsed' = parsed => (ParsedFits(parsed)' <=> ParsedFits(parsed))
         /\ config' = config => (ConfigFits(config)' <=> ConfigFits(config))
         /\ config' = config /\ client' = client => (ClientOf(config)' <=> ClientOf(config))
<1>1. FromDsn' <=> FromDsn
  BY DEF FromDsn
<1>2. ASSUME parsed' = parsed PROVE ParsedFits(parsed)' <=> ParsedFits(parsed)
  BY <1>2 DEF ParsedFits, RedisParsed, KafkaParsed, MongoParsed, OpenSearchParsed, PostgresParsed,
              Is, Scheme, MongoAsks, Named, GivenModes
<1>3. ASSUME config' = config PROVE ConfigFits(config)' <=> ConfigFits(config)
  BY <1>3 DEF ConfigFits, RedisFits, KafkaFits, MongoFits, OpenSearchFits, RabbitFits,
              AsyncPGFits, PsycopgFits, Is, Scheme, MongoAsks, Named, GivenModes, Host
<1>4. ASSUME config' = config, client' = client PROVE ClientOf(config)' <=> ClientOf(config)
  BY <1>4 DEF ClientOf, IsUrl
<1> QED  BY <1>1, <1>2, <1>3, <1>4

-----------------------------------------------------------------------------
(* The calls.  They change nothing of the check but its client. *)

CallTypeOK ==
    /\ result \in HealthCheckResult \union {None} /\ target \in UrlTarget \union {None}
    /\ hops \in 0..MaxRedirects
    /\ resolved \in {"unknown", "unchecked"} \union Resolutions

CallOnly == UNCHANGED <<dsn, keyword, timeout, parsed, config, contexts, disk, cleared>>

LEMMA CallFragment ==
  ASSUME IInv, Built, stage' \in {"ready", "calling", "answered"}, client' \in {client, None},
         CallOnly, CallTypeOK', RequestsValidated'
  PROVE  IInv'
<1>1. TypeOK'
  BY DEF IInv, TypeOK, ConfigTypeOK, CallTypeOK, CallOnly, Stages
<1>2. ParsingFits' /\ ConfigurationFits'
  BY FragmentsStand DEF IInv, ParsingFits, ConfigurationFits, Built, CallOnly, IsUrl
<1>3. ClientFits'
  BY FragmentsStand DEF IInv, ClientFits, Built, CallOnly
<1>4. CacheFits'
  BY DEF IInv, CacheFits, CallOnly
<1> QED  BY <1>1, <1>2, <1>3, <1>4 DEF IInv

LEMMA EndedStep ==
  ASSUME IInv, NEW answer \in HealthCheckResult \union {None}, NEW kept \in BOOLEAN, Ended(answer, kept)
  PROVE  IInv'
<1>1. Built /\ stage' = "answered" /\ client' \in {client, None} /\ CallOnly
  BY DEF Ended, Calling, Built, CallOnly
<1>2. CallTypeOK'
  BY RedirectAssumption DEF Ended, CallTypeOK
<1>3. RequestsValidated'
  BY <1>1 DEF RequestsValidated, Requested, Requesting, Calling
<1> QED  BY <1>1, <1>2, <1>3, CallFragment

LEMMA FailStep == ASSUME IInv, NEW exc, Fail(exc) PROVE IInv'
<1>1. result_on_error(exc) \in HealthCheckResult
  BY DEF result_on_error, map_exception_to_health_error, HealthCheckResult, ErrorCodes
<1> QED  BY <1>1, EndedStep DEF Fail

LEMMA AnswerStep == ASSUME IInv, NEW healthy, Answer(healthy) PROVE IInv'
<1> DEFINE answer == IF healthy THEN Healthy ELSE result_unhealthy_dependency
<1>1. answer \in HealthCheckResult
  BY DEF Healthy, result_unhealthy_dependency, HealthCheckResult, ErrorCodes
<1>2. Ended(answer, TRUE)
  BY DEF Answer
<1> HIDE DEF answer
<1> QED  BY <1>1, <1>2, EndedStep

LEMMA ConfigOfUrl == ASSUME IInv, Built, IsUrl PROVE config \in UrlConfig
BY UrlAssumption DEF IInv, ConfigurationFits, IsUrl

LEMMA AskStep == ASSUME IInv, Ask PROVE IInv'
<1>1. Built /\ stage' = "calling" /\ client' = client /\ CallOnly
  BY DEF Ask, Built, CallOnly
<1>2. target' \in UrlTarget \union {None}
  BY <1>1, ConfigOfUrl DEF Ask, UrlConfig
<1>3. CallTypeOK'
  BY <1>2, RedirectAssumption DEF Ask, CallTypeOK
<1>4. RequestsValidated'
  BY DEF Ask, RequestsValidated, Requested
<1> QED  BY <1>1, <1>3, <1>4, CallFragment

LEMMA ValidateStep == ASSUME IInv, ValidateOutboundRequest PROVE IInv'
<1>1. CASE \E exc : Fail(exc)
  BY <1>1, FailStep
<1>2. CASE ~ \E exc : Fail(exc)
  <2>1. PICK found \in {"unchecked", "global"} :
          /\ InHook(found)
          /\ config.block_private_hosts => found = "global" /\ UrlAllowed(target, TRUE)
    BY <1>2 DEF ValidateOutboundRequest
  <2>2. Built /\ stage' = "calling" /\ client' = client /\ CallOnly
    BY <2>1 DEF ValidateOutboundRequest, Requesting, Calling, InHook, configVars, CallOnly, Built
  <2>3. CallTypeOK'
    BY <2>1 DEF IInv, TypeOK, CallTypeOK, InHook, Resolutions
  <2>4. RequestsValidated'
    BY <2>1, <2>2 DEF InHook, RequestsValidated, CallOnly, UrlAllowed
  <2> QED  BY <2>2, <2>3, <2>4, CallFragment
<1> QED  BY <1>1, <1>2

LEMMA RedirectStep == ASSUME IInv, RedirectFollowed PROVE IInv'
<1>1. CASE hops = MaxRedirects
  BY <1>1, FailStep DEF RedirectFollowed
<1>2. CASE hops # MaxRedirects
  <2>1. Built /\ stage' = "calling" /\ client' = client /\ CallOnly
    BY <1>2 DEF RedirectFollowed, Requested, Requesting, Calling, configVars, CallOnly, Built
  <2>2. CallTypeOK'
    BY <1>2, RedirectAssumption DEF RedirectFollowed, IInv, TypeOK, CallTypeOK
  <2>3. RequestsValidated'
    BY <1>2 DEF RedirectFollowed, RequestsValidated, Requested
  <2> QED  BY <2>1, <2>2, <2>3, CallFragment
<1> QED  BY <1>1, <1>2

LEMMA CallStep == ASSUME IInv, Call PROVE IInv'
<1>1. CASE Ask
  BY <1>1, AskStep
<1>2. CASE Calling /\ Cancelled
  BY <1>2, EndedStep DEF Cancelled
<1>3. CASE BackendFails
  BY <1>3, FailStep DEF BackendFails
<1>4. CASE RedisAnswers \/ ServiceAnswers \/ PostgresAnswers
  BY <1>4, AnswerStep DEF RedisAnswers, ServiceAnswers, PostgresAnswers
<1>5. CASE MongoAnswers
  BY <1>5, AnswerStep, FailStep DEF MongoAnswers
<1>6. CASE ValidateOutboundRequest
  BY <1>6, ValidateStep
<1>7. CASE RequestFails
  BY <1>7, FailStep DEF RequestFails
<1>8. CASE RedirectFollowed
  BY <1>8, RedirectStep
<1>9. CASE UrlAnswers
  BY <1>9, AnswerStep, FailStep DEF UrlAnswers
<1> QED  BY <1>1, <1>2, <1>3, <1>4, <1>5, <1>6, <1>7, <1>8, <1>9 DEF Call

-----------------------------------------------------------------------------
(* from_dsn *)

\* What the steps of from_dsn leave alone.
OthersKept == UNCHANGED <<dsn, keyword, timeout, client, contexts, disk, cleared>> /\ UNCHANGED callVars

LEMMA NotCalling ==
  ASSUME stage' # "calling" PROVE RequestsValidated'
BY DEF RequestsValidated, Requested, Requesting, Calling

LEMMA BeginStep == ASSUME IInv, Begin, UNCHANGED callVars PROVE IInv'
<1>1. PICK input \in Inputs : dsn' = input[1] /\ keyword' = input[2]
  BY DEF Begin
<1>2. FromDsn'
  BY <1>1, InputAssumption, UserinfoAssumption DEF FromDsn
<1>3. stage' = "given" /\ client' = None /\ timeout' \in Timeouts
      /\ UNCHANGED <<parsed, config, client, contexts, disk, cleared>>
  BY DEF Begin, MayBegin, IInv, ClientFits, Built
<1>4. TypeOK'
  BY <1>2, <1>3 DEF IInv, TypeOK, ConfigTypeOK, Stages, callVars, FromDsn
<1>5. ParsingFits' /\ ConfigurationFits' /\ ClientFits'
  BY <1>2, <1>3 DEF ParsingFits, ConfigurationFits, ClientFits, Built
<1>6. CacheFits'
  BY <1>3 DEF IInv, CacheFits
<1> QED  BY <1>3, <1>4, <1>5, <1>6, NotCalling DEF IInv

LEMMA BeginUrlStep == ASSUME IInv, BeginUrl, UNCHANGED callVars PROVE IInv'
<1>1. /\ stage' \in {"configured", "rejected"} /\ client' = None /\ dsn' \in Urls
      /\ UNCHANGED <<keyword, parsed, client, contexts, disk, cleared>>
  BY DEF BeginUrl, MayBegin, IInv, ClientFits, Built
<1>2. timeout' \in Timeouts
  BY <1>1, UrlAssumption DEF BeginUrl, UrlConfig
<1>3. config' = config \/ (config' = dsn' /\ dsn' \in UrlConfig)
  BY <1>1, UrlAssumption DEF BeginUrl
<1>4. TypeOK'
  BY <1>1, <1>2, <1>3 DEF IInv, TypeOK, ConfigTypeOK, Stages, callVars
<1>5. ConfigurationFits'
  BY <1>1 DEF BeginUrl, ConfigurationFits, Built, IsUrl
<1>6. ParsingFits' /\ ClientFits'
  BY <1>1 DEF ParsingFits, ClientFits
<1>7. CacheFits'
  BY <1>1 DEF IInv, CacheFits
<1> QED  BY <1>1, <1>4, <1>5, <1>6, <1>7, NotCalling DEF IInv

LEMMA DiscardStep == ASSUME IInv, Discard, UNCHANGED callVars PROVE IInv'
<1>1. TypeOK'
  BY DEF IInv, Discard, TypeOK, ConfigTypeOK, Stages, callVars
<1>2. ParsingFits' /\ ConfigurationFits' /\ ClientFits'
  BY DEF Discard, ParsingFits, ConfigurationFits, ClientFits, Built
<1>3. CacheFits'
  BY DEF IInv, Discard, CacheFits
<1> QED  BY <1>1, <1>2, <1>3, NotCalling DEF IInv, Discard

LEMMA RejectStep ==
  ASSUME IInv, stage \in {"given", "validated", "parsed"}, Reject, UNCHANGED callVars
  PROVE  IInv'
<1>1. TypeOK'
  BY DEF IInv, Reject, TypeOK, ConfigTypeOK, Stages, callVars
<1>2. ParsingFits' /\ ConfigurationFits' /\ ClientFits'
  BY DEF IInv, Reject, ParsingFits, ConfigurationFits, ClientFits, Built
<1>3. CacheFits'
  BY DEF IInv, Reject, CacheFits
<1> QED  BY <1>1, <1>2, <1>3, NotCalling DEF IInv, Reject

LEMMA ValidateDsnStep == ASSUME IInv, ValidateDsn, UNCHANGED callVars PROVE IInv'
<1>1. CASE Reject
  BY <1>1, RejectStep DEF ValidateDsn
<1>2. CASE ~Reject
  <2>1. stage = "given" /\ stage' = "validated" /\ UNCHANGED <<parsed, config>> /\ OthersKept
    BY <1>2 DEF ValidateDsn, OthersKept
  <2>2. TypeOK'
    BY <2>1 DEF IInv, TypeOK, ConfigTypeOK, Stages, callVars, OthersKept
  <2>3. ParsingFits' /\ ConfigurationFits' /\ ClientFits'
    BY <2>1, FragmentsStand
       DEF IInv, ParsingFits, ConfigurationFits, ClientFits, Built, OthersKept
  <2>4. CacheFits'
    BY <2>1 DEF IInv, CacheFits, OthersKept
  <2> QED  BY <2>1, <2>2, <2>3, <2>4, NotCalling DEF IInv
<1> QED  BY <1>1, <1>2

\* parse_dsn has ended.
ParseResults == {None} \union RedisParseDsnResult \union KafkaParseDsnResult
                  \union MongoParseDsnResult \union OpenSearchParseDsnResult
                  \union PostgresParseDsnResult

LEMMA ParsedTyped ==
  ASSUME FromDsn, NEW p, ParsedFits(p)
  PROVE  p \in ParseResults
BY DsnFacts DEF FromDsn, ParsedFits, RedisParsed, KafkaParsed, MongoParsed, OpenSearchParsed,
                PostgresParsed, ParseResults, Drivers

LEMMA ParsedStep ==
  ASSUME IInv, stage = "validated", NEW p, Parsed(p), ParsedFits(p), UNCHANGED callVars
  PROVE  IInv'
<1>1. stage' = "parsed" /\ parsed' = p /\ config' = config /\ OthersKept
  BY DEF Parsed, OthersKept
<1>2. FromDsn /\ FromDsn'
  BY <1>1, FragmentsStand DEF IInv, ParsingFits, OthersKept
<1>3. p \in ParseResults
  BY <1>2, ParsedTyped
<1>4. TypeOK'
  BY <1>1, <1>3 DEF IInv, TypeOK, ConfigTypeOK, Stages, callVars, OthersKept, ParseResults
<1>5. ParsedFits(parsed)'
  BY <1>1 DEF ParsedFits, RedisParsed, KafkaParsed, MongoParsed, OpenSearchParsed, PostgresParsed,
              Is, Scheme, MongoAsks, Named, GivenModes, OthersKept
<1>6. ParsingFits' /\ ConfigurationFits' /\ ClientFits'
  BY <1>1, <1>2, <1>5 DEF IInv, ParsingFits, ConfigurationFits, ClientFits, Built, OthersKept
<1>7. CacheFits'
  BY <1>1 DEF IInv, CacheFits, OthersKept
<1> QED  BY <1>1, <1>4, <1>6, <1>7, NotCalling DEF IInv

LEMMA RedisParseStep ==
  ASSUME IInv, stage = "validated", dsn.check = "redis", RedisParse, UNCHANGED callVars
  PROVE  IInv'
<1> DEFINE p == [user |-> OrNone(Unquote(dsn.user)), password |-> OrNone(Unquote(dsn.password)),
                 host |-> dsn.host, ssl |-> dsn.query.ssl \notin {"none", "empty"},
                 ssl_ca_certs |-> OrNone(Unquote(dsn.query.ca)), scheme |-> dsn.scheme]
<1>1. CASE Reject
  BY <1>1, RejectStep
<1>2. CASE Parsed(p)
  <2>1. dsn \in Dsn
    BY DEF IInv, ParsingFits, FromDsn
  <2>2. dsn.scheme \in STRING /\ (dsn.query.ssl \notin {"none", "empty"}) \in BOOLEAN
    BY <2>1 DEF Dsn
  <2>3. RedisParsed(p)
    BY <2>1, <2>2, DsnFacts, QueryFacts, TextFacts DEF RedisParsed, RedisParseDsnResult
  <2>4. ParsedFits(p)
    BY <2>3 DEF ParsedFits
  <2> HIDE DEF p
  <2> QED  BY <1>2, <2>4, ParsedStep
<1> QED  BY <1>1, <1>2 DEF RedisParse

LEMMA KafkaParseStep ==
  ASSUME IInv, stage = "validated", dsn.check = "kafka", KafkaParse, UNCHANGED callVars
  PROVE  IInv'
<1> DEFINE name    == OrNone(Unquote(dsn.user))
           secret  == OrNone(Unquote(dsn.password))
           sasl    == Sasl(name, secret)
           servers == IF dsn.host # "none" THEN dsn.host
                      ELSE IF dsn.path # "empty" THEN "path" ELSE "none"
           p == [bootstrap_servers |-> servers,
                 sasl_plain_username |-> name, sasl_plain_password |-> secret,
                 security_protocol |->
                    IF Is("kafkas") THEN (IF sasl THEN "SASL_SSL" ELSE "SSL")
                    ELSE (IF sasl THEN "SASL_PLAINTEXT" ELSE "PLAINTEXT")]
<1>1. CASE Reject
  BY <1>1, RejectStep
<1>2. CASE Parsed(p)
  <2>1. dsn \in Dsn
    BY DEF IInv, ParsingFits, FromDsn
  <2>2. name \in Texts /\ secret \in Texts /\ servers \in Hosts \union {"path"}
    BY <2>1, DsnFacts, TextFacts
  <2>3. KafkaParsed(p)
    BY <2>2 DEF KafkaParsed, KafkaParseDsnResult, SecurityProtocol, Sasl
  <2>4. ParsedFits(p)
    BY <2>3 DEF ParsedFits
  <2> HIDE DEF p
  <2> QED  BY <1>2, <2>4, ParsedStep
<1> QED  BY <1>1, <1>2 DEF KafkaParse

LEMMA MongoParseStep ==
  ASSUME IInv, stage = "validated", dsn.check = "mongo", MongoParse, UNCHANGED callVars
  PROVE  IInv'
<1> DEFINE tls == Or(dsn.query.tls, dsn.query.ssl)
           p == [authSource |-> IF dsn.query.authSource = "none" THEN "admin"
                                ELSE dsn.query.authSource,
                 tls |-> CASE tls = "true"  -> "on"
                           [] tls = "false" -> "off"
                           [] OTHER -> IF Scheme = <<"mongodb", "srv">> THEN "on" ELSE "unset",
                 tls_ca_file |-> OrNone(dsn.query.ca)]
<1>1. Parsed(p)
  BY DEF MongoParse
<1>2. dsn \in Dsn
  BY DEF IInv, ParsingFits, FromDsn
<1>3. p.tls \in Booleans /\ p.authSource \in Texts \union {"admin"} /\ p.tls_ca_file \in Texts
  BY <1>2, DsnFacts, QueryFacts, TextFacts DEF Booleans
<1>4. MongoParsed(p)
  <2>1. p \in MongoParseDsnResult
    BY <1>3 DEF MongoParseDsnResult
  <2>2. ASSUME MongoAsks PROVE p.tls = "on"
    BY <2>2 DEF MongoAsks, Named, Or
  <2> QED  BY <2>1, <2>2 DEF MongoParsed
<1>5. ParsedFits(p)
  BY <1>4 DEF ParsedFits
<1> HIDE DEF p
<1> QED  BY <1>1, <1>5, ParsedStep

LEMMA OpenSearchParseStep ==
  ASSUME IInv, stage = "validated", dsn.check = "opensearch", OpenSearchParse, UNCHANGED callVars
  PROVE  IInv'
<1> DEFINE auth == IF dsn.user = "none" THEN <<"none", "none">>
                   ELSE <<Unquote(dsn.user),
                          IF dsn.password = "none" THEN "empty" ELSE Unquote(dsn.password)>>
           port == CASE dsn.port = "given" -> "given"
                     [] Is("https")        -> "443"
                     [] OTHER              -> "9200"
           https == Is("https")
           p == [hosts |-> dsn.host, port |-> port, http_auth |-> auth,
                 use_ssl |-> https, verify_certs |-> https]
<1>1. CASE Reject
  BY <1>1, RejectStep
<1>2. CASE Parsed(p)
  <2>1. dsn \in Dsn
    BY DEF IInv, ParsingFits, FromDsn
  <2>2. port \in {"given", "443", "9200"} /\ https \in BOOLEAN
    BY DEF Is
  <2>3. auth \in Texts \X Texts
    BY <2>1, DsnFacts, TextFacts DEF Texts
  <2>4. /\ dsn.user # "none" => auth[1] = Unquote(dsn.user)
        /\ dsn.user # "none" /\ dsn.password # "none" => auth[2] = Unquote(dsn.password)
    BY <2>1, DsnFacts, TextFacts
  <2>5. dsn.host \in Hosts
    BY <2>1, DsnFacts
  <2> HIDE DEF port, auth, https
  <2>6. OpenSearchParsed(p)
    BY <2>2, <2>3, <2>4, <2>5 DEF OpenSearchParsed, OpenSearchParseDsnResult, https
  <2>7. ParsedFits(p)
    BY <2>6 DEF ParsedFits
  <2> HIDE DEF p
  <2> QED  BY <1>2, <2>7, ParsedStep
<1> QED  BY <1>1, <1>2 DEF OpenSearchParse

\* The modes that are given agree, so the one that is kept stands for all of them.
LEMMA OneMode ==
  ASSUME ~ Cardinality(GivenModes) > 1
  PROVE  \A m, n \in GivenModes : m = n
<1> SUFFICES ASSUME NEW m \in GivenModes, NEW n \in GivenModes, m # n PROVE FALSE
  OBVIOUS
<1> DEFINE spellings == {dsn.query.sslmode, dsn.query.ssl}
<1>1. IsFiniteSet(spellings) /\ GivenModes \in SUBSET spellings
  <2>1. IsFiniteSet({dsn.query.sslmode}) /\ spellings = {dsn.query.sslmode} \union {dsn.query.ssl}
    BY FS_Singleton
  <2>2. IsFiniteSet({dsn.query.sslmode} \union {dsn.query.ssl})
    BY <2>1, FS_AddElement
  <2> QED  BY <2>1, <2>2 DEF GivenModes
<1> HIDE DEF spellings
<1>2. IsFiniteSet(GivenModes) /\ Cardinality(GivenModes) \in Nat
  BY <1>1, FS_Subset, FS_CardinalityType
<1>3. Cardinality({m, n}) = 2
  <2>1. IsFiniteSet({m}) /\ Cardinality({m}) = 1 /\ {m, n} = {m} \union {n}
    BY FS_Singleton
  <2> QED  BY <2>1, FS_AddElement
<1>4. Cardinality({m, n}) <= Cardinality(GivenModes)
  <2>1. {m, n} \in SUBSET GivenModes
    OBVIOUS
  <2> QED  BY <1>2, <2>1, FS_Subset
<1> QED  BY <1>2, <1>3, <1>4

LEMMA PostgresParseStep ==
  ASSUME IInv, stage = "validated", dsn.check \in {"asyncpg", "psycopg"}, PostgresParse,
         UNCHANGED callVars
  PROVE  IInv'
<1> DEFINE mode == CHOOSE mode \in SslMode :
                     IF GivenModes = {} THEN mode = "disable" ELSE mode \in GivenModes
           p == [sslmode |-> mode,
                 sslcert |-> OrNone(Unquote(dsn.query.cert)),
                 sslkey |-> OrNone(Unquote(dsn.query.key)),
                 sslrootcert |-> OrNone(Unquote(dsn.query.ca)),
                 direct_tls |-> dsn.query.direct = "true"]
<1>1. CASE Reject
  BY <1>1, RejectStep
<1>2. CASE ~Reject
  <2>1. dsn \in Dsn
    BY DEF IInv, ParsingFits, FromDsn
  <2>2. GivenModes \subseteq SslMode /\ ~ Cardinality(GivenModes) > 1 /\ Parsed(p)
    BY <1>2 DEF PostgresParse
  <2>3. mode \in SslMode /\ (IF GivenModes = {} THEN mode = "disable" ELSE mode \in GivenModes)
    <3>1. \E m \in SslMode : IF GivenModes = {} THEN m = "disable" ELSE m \in GivenModes
      BY <2>2 DEF SslMode
    <3> QED  BY <3>1
  <2> HIDE DEF mode
  <2>4. GivenModes \subseteq {mode}
    BY <2>2, <2>3, OneMode
  <2>5. p \in PostgresParseDsnResult
    BY <2>1, <2>3, DsnFacts, QueryFacts, TextFacts DEF PostgresParseDsnResult
  <2>6. /\ p.sslcert = OrNone(Unquote(dsn.query.cert))
        /\ p.sslrootcert = OrNone(Unquote(dsn.query.ca))
    OBVIOUS
  <2>7. PostgresParsed(p)
    BY <2>3, <2>4, <2>5, <2>6 DEF PostgresParsed
  <2>8. ParsedFits(p)
    BY <2>7 DEF ParsedFits
  <2> HIDE DEF p
  <2> QED  BY <2>2, <2>8, ParsedStep
<1> QED  BY <1>1, <1>2

LEMMA ParseDsnStep == ASSUME IInv, ParseDsn, UNCHANGED callVars PROVE IInv'
<1>1. stage = "validated" /\ dsn.check \in Drivers
  BY DsnFacts DEF ParseDsn, IInv, ParsingFits, FromDsn
<1>2. CASE dsn.check = "redis"
  BY <1>1, <1>2, RedisParseStep DEF ParseDsn
<1>3. CASE dsn.check = "kafka"
  BY <1>1, <1>3, KafkaParseStep DEF ParseDsn
<1>4. CASE dsn.check = "mongo"
  BY <1>1, <1>4, MongoParseStep DEF ParseDsn
<1>5. CASE dsn.check = "opensearch"
  BY <1>1, <1>5, OpenSearchParseStep DEF ParseDsn
<1>6. CASE dsn.check = "rabbitmq"
  <2>1. Parsed(None) /\ ParsedFits(None)
    BY <1>6 DEF ParseDsn, ParsedFits
  <2> QED  BY <1>1, <2>1, ParsedStep
<1>7. CASE dsn.check \in {"asyncpg", "psycopg"}
  BY <1>1, <1>7, PostgresParseStep DEF ParseDsn
<1> QED  BY <1>1, <1>2, <1>3, <1>4, <1>5, <1>6, <1>7 DEF Drivers

-----------------------------------------------------------------------------
(* The configurations *)

Configs == {None} \union RedisConfig \union KafkaConfig \union MongoConfig
             \union OpenSearchConfig \union RabbitMQConfig \union UrlConfig
             \union PostgresAsyncPGConfig \union PostgresPsycopgConfig

LEMMA ConfigTyped ==
  ASSUME FromDsn, NEW c, ConfigFits(c)
  PROVE  c \in Configs
BY DsnFacts DEF FromDsn, ConfigFits, RedisFits, KafkaFits, MongoFits, OpenSearchFits, RabbitFits,
                AsyncPGFits, PsycopgFits, Configs, Drivers

CacheTypeOK == \A key \in DOMAIN contexts : contexts[key] \in Contexts

LEMMA ConfiguredStep ==
  ASSUME IInv, stage = "parsed", NEW c, Configured(c), ConfigFits(c), UNCHANGED callVars,
         UNCHANGED <<disk, cleared>>, CacheTypeOK', CacheFits'
  PROVE  IInv'
<1>1. /\ stage' = "configured" /\ config' = c /\ parsed' = None
      /\ UNCHANGED <<dsn, keyword, timeout, client>>
  BY DEF Configured
<1>2. FromDsn /\ FromDsn'
  BY <1>1, FragmentsStand DEF IInv, ParsingFits
<1>3. c \in Configs
  BY <1>2, ConfigTyped
<1>4. TypeOK'
  BY <1>1, <1>3 DEF IInv, TypeOK, ConfigTypeOK, Stages, callVars, Configs, CacheTypeOK
<1>5. ConfigFits(config)'
  BY <1>1 DEF ConfigFits, RedisFits, KafkaFits, MongoFits, OpenSearchFits, RabbitFits,
              AsyncPGFits, PsycopgFits, Is, Scheme, MongoAsks, Named, GivenModes, Host
<1>6. ~IsUrl'
  BY <1>1, <1>2, UrlsApart DEF IsUrl, FromDsn
<1>7. ParsingFits' /\ ConfigurationFits' /\ ClientFits'
  BY <1>1, <1>2, <1>5, <1>6 DEF IInv, ParsingFits, ConfigurationFits, ClientFits, Built
<1> QED  BY <1>1, <1>4, <1>7, NotCalling DEF IInv

LEMMA CacheStands ==
  ASSUME IInv, UNCHANGED <<contexts, disk, cleared>>
  PROVE  CacheTypeOK' /\ CacheFits'
BY DEF IInv, TypeOK, ConfigTypeOK, CacheTypeOK, CacheFits

LEMMA Configuring ==
  ASSUME IInv, stage = "parsed"
  PROVE  FromDsn /\ ParsedFits(parsed) /\ timeout \in Timeouts
         /\ Host \in Hosts \ {"none"} /\ dsn.check \in Drivers
BY DsnFacts DEF IInv, ParsingFits, TypeOK, ConfigTypeOK, Host, Hosts, FromDsn

LEMMA RedisConfigureStep ==
  ASSUME IInv, stage = "parsed", dsn.check = "redis", RedisConfigure, UNCHANGED callVars
  PROVE  IInv'
<1> DEFINE tls == RedisTls(parsed)
           c == [host |-> Host, user |-> parsed.user, password |-> parsed.password,
                 ssl |-> tls, ssl_ca_certs |-> parsed.ssl_ca_certs, timeout |-> timeout]
<1>1. Configured(c) /\ UNCHANGED <<contexts, disk, cleared>>
  BY DEF RedisConfigure
<1>2. RedisParsed(parsed)
  BY Configuring DEF ParsedFits
<1>3. parsed.ssl \in BOOLEAN
  BY <1>2 DEF RedisParsed, RedisParseDsnResult
<1>4. /\ tls \in BOOLEAN
      /\ dsn.scheme = "rediss" \/ dsn.query.ssl = "true" \/ Named(dsn.query.ca) => tls
  <2>1. dsn.query.ca \in Texts
    BY Configuring, DsnFacts, QueryFacts DEF FromDsn
  <2> QED  BY <1>2, <1>3, <2>1, TextFacts DEF RedisTls, RedisParsed
<1> HIDE DEF tls
<1>5. RedisFits(c)
  BY <1>2, <1>4, Configuring DEF RedisFits, RedisParsed, RedisParseDsnResult, RedisConfig
<1>6. ConfigFits(c)
  BY <1>5 DEF ConfigFits
<1> HIDE DEF c
<1> QED  BY <1>1, <1>6, CacheStands, ConfiguredStep

LEMMA KafkaConfigureStep ==
  ASSUME IInv, stage = "parsed", dsn.check = "kafka", KafkaConfigure, UNCHANGED callVars
  PROVE  IInv'
<1> DEFINE asked     == keyword.security_protocol
           protocol  == CASE asked = "absent" -> parsed.security_protocol
                          [] asked = "none"   -> "PLAINTEXT"
                          [] OTHER            -> asked
           mechanism == IF keyword.sasl_mechanism = "absent" THEN "PLAIN"
                        ELSE keyword.sasl_mechanism
           c == [bootstrap_servers |-> parsed.bootstrap_servers,
                 security_protocol |-> protocol, sasl_mechanism |-> mechanism,
                 sasl_plain_username |-> parsed.sasl_plain_username,
                 sasl_plain_password |-> parsed.sasl_plain_password,
                 timeout |-> timeout]
<1>1. CASE Reject
  BY <1>1, RejectStep
<1>2. CASE ~Reject
  <2>1. /\ Configured(c) /\ UNCHANGED <<contexts, disk, cleared>>
        /\ protocol \in SecurityProtocol /\ mechanism \in SaslMechanism
    BY <1>2 DEF KafkaConfigure, KafkaAccepts
  <2>2. KafkaParsed(parsed)
    BY Configuring DEF ParsedFits
  <2>3. /\ asked = "absent" => protocol = parsed.security_protocol
        /\ asked \in {"SSL", "SASL_SSL", "SASL_PLAINTEXT"} => protocol = asked
    OBVIOUS
  <2> HIDE DEF protocol, mechanism
  <2>4. c \in KafkaConfig
    BY <2>1, <2>2, Configuring DEF KafkaParsed, KafkaParseDsnResult, KafkaConfig
  <2>5. KafkaFits(c)
    BY <2>2, <2>3, <2>4 DEF KafkaParsed, KafkaFits
  <2>6. ConfigFits(c)
    BY <2>5 DEF ConfigFits
  <2> HIDE DEF c
  <2> QED  BY <2>1, <2>6, CacheStands, ConfiguredStep
<1> QED  BY <1>1, <1>2

LEMMA MongoConfigureStep ==
  ASSUME IInv, stage = "parsed", dsn.check = "mongo", MongoConfigure, UNCHANGED callVars
  PROVE  IInv'
<1> DEFINE port == CASE dsn.host = "several" -> "none"
                     [] dsn.port = "none"    -> "27017"
                     [] OTHER                -> "given"
           c == [hosts |-> Host, port |-> port,
                 user |-> dsn.user, password |-> dsn.password,
                 database |-> OrNone(dsn.path), auth_source |-> parsed.authSource,
                 tls |-> parsed.tls, tls_ca_file |-> parsed.tls_ca_file,
                 timeout |-> timeout]
<1>1. Configured(c) /\ UNCHANGED <<contexts, disk, cleared>>
  BY DEF MongoConfigure
<1>2. MongoParsed(parsed)
  BY Configuring DEF ParsedFits
<1>3. port \in {"none", "given", "27017"}
  OBVIOUS
<1> HIDE DEF port
<1>4. MongoFits(c)
  BY <1>2, <1>3, Configuring, DsnFacts, TextFacts
     DEF MongoFits, MongoParsed, MongoParseDsnResult, MongoConfig, FromDsn
<1>5. ConfigFits(c)
  BY <1>4 DEF ConfigFits
<1> HIDE DEF c
<1> QED  BY <1>1, <1>5, CacheStands, ConfiguredStep

LEMMA OpenSearchConfigureStep ==
  ASSUME IInv, stage = "parsed", dsn.check = "opensearch", OpenSearchConfigure, UNCHANGED callVars
  PROVE  IInv'
<1> DEFINE verify == IF keyword.verify_certs = "absent" THEN parsed.verify_certs
                     ELSE keyword.verify_certs = "true"
           c == [hosts |-> parsed.hosts, port |-> parsed.port, http_auth |-> parsed.http_auth,
                 use_ssl |-> parsed.use_ssl, verify_certs |-> verify, timeout |-> timeout]
<1>1. Configured(c) /\ UNCHANGED <<contexts, disk, cleared>>
  BY DEF OpenSearchConfigure
<1>2. OpenSearchParsed(parsed)
  BY Configuring DEF ParsedFits
<1>3. keyword.verify_certs \in {"absent", "true", "false"}
  BY Configuring DEF FromDsn, Keyword
<1>4. parsed.verify_certs \in BOOLEAN
  BY <1>2 DEF OpenSearchParsed, OpenSearchParseDsnResult
<1>5. verify \in BOOLEAN /\ (Is("https") /\ keyword.verify_certs # "false" => verify)
  BY <1>2, <1>3, <1>4 DEF OpenSearchParsed
<1> HIDE DEF verify
<1>6. c \in OpenSearchConfig
  BY <1>2, <1>5, Configuring DEF OpenSearchParsed, OpenSearchParseDsnResult, OpenSearchConfig
<1>7. dsn.password # "none" => dsn.user # "none"
  BY Configuring DEF FromDsn
<1>8. OpenSearchFits(c)
  BY <1>2, <1>5, <1>6, <1>7 DEF OpenSearchParsed, OpenSearchFits
<1>9. ConfigFits(c)
  BY <1>8 DEF ConfigFits
<1> HIDE DEF c
<1> QED  BY <1>1, <1>9, CacheStands, ConfiguredStep

LEMMA RabbitConfigureStep ==
  ASSUME IInv, stage = "parsed", dsn.check = "rabbitmq", RabbitConfigure, UNCHANGED callVars
  PROVE  IInv'
<1> DEFINE secure == Is("amqps")
           c == [host |-> Host, user |-> Or(dsn.user, "guest"),
                 password |-> Or(dsn.password, "guest"), vhost |-> Or(dsn.path, "/"),
                 secure |-> secure, timeout |-> timeout]
<1>1. CASE Reject
  BY <1>1, RejectStep
<1>2. CASE ~Reject
  <2>1. Configured(c) /\ UNCHANGED <<contexts, disk, cleared>> /\ RabbitAccepts(c)
    BY <1>2 DEF RabbitConfigure
  <2>2. secure \in BOOLEAN /\ (Is("amqps") => secure)
    BY DEF Is
  <2> HIDE DEF secure
  <2>3. c \in RabbitMQConfig
    <3>1. "guest" \in Texts
      BY DEF Texts
    <3> QED  BY <2>2, <3>1, Configuring, DsnFacts DEF FromDsn, RabbitMQConfig, Or
  <2>4. RabbitFits(c)
    BY <2>1, <2>2, <2>3 DEF RabbitFits, RabbitAccepts
  <2>5. ConfigFits(c)
    BY <2>4 DEF ConfigFits
  <2> HIDE DEF c
  <2> QED  BY <2>1, <2>5, CacheStands, ConfiguredStep
<1> QED  BY <1>1, <1>2

LEMMA PsycopgConfigureStep ==
  ASSUME IInv, stage = "parsed", dsn.check = "psycopg", PsycopgConfigure, UNCHANGED callVars
  PROVE  IInv'
<1> DEFINE c == [host |-> Host, user |-> dsn.user, password |-> dsn.password,
                 database |-> dsn.path, sslmode |-> parsed.sslmode,
                 sslcert |-> parsed.sslcert, sslkey |-> parsed.sslkey,
                 sslrootcert |-> parsed.sslrootcert, timeout |-> timeout]
<1>1. Configured(c) /\ UNCHANGED <<contexts, disk, cleared>>
  BY DEF PsycopgConfigure
<1>2. PostgresParsed(parsed)
  BY Configuring DEF ParsedFits
<1>3. PsycopgFits(c)
  BY <1>2, Configuring, DsnFacts
     DEF PsycopgFits, PostgresParsed, PostgresParseDsnResult, PostgresPsycopgConfig, FromDsn
<1>4. ConfigFits(c)
  BY <1>3 DEF ConfigFits
<1> HIDE DEF c
<1> QED  BY <1>1, <1>4, CacheStands, ConfiguredStep

\* create_ssl_context makes what its arguments say.
LEMMA SslContextMade ==
  ASSUME IInv, NEW mode \in SslMode, NEW cert \in Texts, NEW ca \in Texts
  PROVE  /\ Made(SslContext(mode, cert, ca), mode, cert, ca)
         /\ SslContext(mode, cert, ca) # NoContext => SslContext(mode, cert, ca).version = disk
<1>1. disk \in 0..MaxRotations
  BY DEF IInv, TypeOK, ConfigTypeOK
<1> DEFINE verifies == CASE mode = "require"   -> "nothing"
                         [] mode = "verify-ca" -> "ca"
                         [] OTHER              -> "full"
           trusted == IF mode \in {"verify-ca", "verify-full"} THEN ca ELSE "none"
           made == [mode |-> mode, verifies |-> verifies, ca |-> trusted, cert |-> cert,
                    version |-> disk]
<1>2. CASE mode \in {"disable", "allow"}
  BY <1>2 DEF SslContext, Made, Contexts
<1>3. CASE mode \notin {"disable", "allow"}
  <2>1. SslContext(mode, cert, ca) = made
    BY <1>3 DEF SslContext
  <2>2. /\ verifies \in {"nothing", "ca", "full"} /\ trusted \in Texts
        /\ mode = "require" => verifies = "nothing"
        /\ mode = "verify-ca" => verifies = "ca"
        /\ mode \in {"prefer", "verify-full"} => verifies = "full"
        /\ mode \in {"verify-ca", "verify-full"} => trusted = ca
    BY DEF Texts
  <2> HIDE DEF verifies, trusted
  <2>3. made \in Contexts
    BY <1>1, <2>2 DEF Contexts
  <2> QED  BY <1>3, <2>1, <2>2, <2>3 DEF Made
<1> QED  BY <1>2, <1>3

LEMMA AsyncPGConfigureStep ==
  ASSUME IInv, stage = "parsed", dsn.check = "asyncpg", AsyncPGConfigure, UNCHANGED callVars
  PROVE  IInv'
<1> DEFINE mode  == parsed.sslmode
           files == <<parsed.sslcert, parsed.sslkey, parsed.sslrootcert>>
           key   == ContextKey(mode, files)
           made  == SslContext(mode, parsed.sslcert, parsed.sslrootcert)
           found == IF key \in DOMAIN contexts THEN contexts[key] ELSE made
           ssl   == IF found = NoContext THEN mode ELSE "context"
<1>1. PostgresParsed(parsed) /\ FromDsn /\ timeout \in Timeouts /\ Host \in Hosts
  BY Configuring DEF ParsedFits
<1>2. /\ mode \in SslMode /\ parsed.sslcert \in Texts /\ parsed.sslrootcert \in Texts
      /\ parsed.direct_tls \in BOOLEAN
  BY <1>1 DEF PostgresParsed, PostgresParseDsnResult
<1>3. \A c : c \in PostgresAsyncPGConfig /\ AsyncPGFits(c) => ConfigFits(c)
  BY DEF ConfigFits
<1>4. dsn.user \in Texts /\ dsn.password \in Texts /\ dsn.path \in Texts
  BY <1>1, DsnFacts DEF FromDsn
<1>5. GivenModes \subseteq {mode} /\ (GivenModes = {} => mode = "disable")
  BY <1>1 DEF PostgresParsed
<1>6. CASE Reject
  BY <1>6, RejectStep
\* The driver gets the mode.
<1>7. ASSUME NEW c, c = AsyncPGConfig(mode, NoContext) PROVE ConfigFits(c)
  <2>1. NoContext \in Contexts
    BY DEF Contexts
  <2>2. c \in PostgresAsyncPGConfig
    BY <1>1, <1>2, <1>4, <1>7, <2>1 DEF AsyncPGConfig, PostgresAsyncPGConfig
  <2>3. mode # "context"
    BY <1>2 DEF SslMode
  <2> HIDE DEF mode
  <2>4. AsyncPGFits(c)
    BY <1>5, <1>7, <2>2, <2>3 DEF AsyncPGFits, AsyncPGConfig
  <2> QED  BY <1>3, <2>2, <2>4
<1>8. CASE Configured(AsyncPGConfig(mode, NoContext)) /\ UNCHANGED <<contexts, disk, cleared>>
  BY <1>7, <1>8, CacheStands, ConfiguredStep
\* It gets a context, from the cache or new.
<1>9. CASE /\ Configured(AsyncPGConfig(ssl, found))
           /\ contexts' = [k \in DOMAIN contexts \union {key} |->
                             IF k = key THEN found ELSE contexts[k]]
           /\ UNCHANGED <<disk, cleared>>
  <2>1. /\ Made(made, mode, parsed.sslcert, parsed.sslrootcert)
        /\ made # NoContext => made.version = disk
    BY <1>2, SslContextMade
  <2>2. key = <<mode, files>> /\ key[1] = mode /\ key[2][1] = parsed.sslcert
        /\ key[2][3] = parsed.sslrootcert
    BY DEF ContextKey
  <2>3. cleared \in Nat /\ disk \in Nat /\ cleared <= disk
    BY BoundAssumption DEF IInv, TypeOK, ConfigTypeOK
  <2>4. /\ Made(found, mode, parsed.sslcert, parsed.sslrootcert)
        /\ found # NoContext => found.version >= cleared
    <3>1. CASE key \in DOMAIN contexts
      BY <2>2, <3>1 DEF IInv, CacheFits
    <3>2. CASE key \notin DOMAIN contexts
      BY <2>1, <2>3, <3>2
    <3> QED  BY <3>1, <3>2
  <2>5. found \in Contexts
    BY <2>4 DEF Made
  <2> HIDE DEF key, made, found
  <2>6. CacheTypeOK'
    BY <1>9, <2>5 DEF CacheTypeOK, IInv, TypeOK, ConfigTypeOK
  <2>7. CacheFits'
    <3> SUFFICES ASSUME NEW k \in DOMAIN contexts'
                 PROVE  /\ Made(contexts'[k], k[1], k[2][1], k[2][3])
                        /\ contexts'[k] # NoContext => contexts'[k].version >= cleared'
      BY DEF CacheFits, Made
    <3>1. CASE k = key
      BY <1>9, <2>2, <2>4, <3>1
    <3>2. CASE k # key
      BY <1>9, <3>2 DEF IInv, CacheFits
    <3> QED  BY <3>1, <3>2
  <2> DEFINE c == AsyncPGConfig(ssl, found)
  <2>8. ssl \in SslMode \union {"context"} /\ (ssl = "context" <=> found # NoContext)
        /\ (ssl # "context" => ssl = mode)
    BY <1>2 DEF SslMode
  <2> HIDE DEF ssl, mode
  <2>9. c \in PostgresAsyncPGConfig
    BY <1>1, <1>2, <1>4, <2>5, <2>8 DEF AsyncPGConfig, PostgresAsyncPGConfig
  <2>10. c.user = dsn.user /\ c.password = dsn.password /\ c.ssl = ssl /\ c.context = found
    BY DEF AsyncPGConfig
  <2>11. ASSUME ssl = "context"
         PROVE  /\ found # NoContext /\ GivenModes = {found.mode}
                /\ Made(found, found.mode, OrNone(Unquote(dsn.query.cert)), OrNone(Unquote(dsn.query.ca)))
    <3>1. found # NoContext /\ found.mode = mode /\ mode \notin {"disable", "allow"}
      BY <2>4, <2>8, <2>11 DEF Made
    <3>2. /\ parsed.sslcert = OrNone(Unquote(dsn.query.cert))
          /\ parsed.sslrootcert = OrNone(Unquote(dsn.query.ca))
      BY <1>1 DEF PostgresParsed
    <3> QED  BY <1>5, <2>4, <3>1, <3>2
  <2> HIDE DEF c
  <2>12. AsyncPGFits(c)
    BY <1>5, <2>8, <2>9, <2>10, <2>11 DEF AsyncPGFits
  <2>13. ConfigFits(c)
    BY <1>3, <2>9, <2>12
  <2>14. Configured(c)
    BY <1>9 DEF c
  <2> QED  BY <1>9, <2>6, <2>7, <2>13, <2>14, ConfiguredStep
<1> QED  BY <1>6, <1>8, <1>9 DEF AsyncPGConfigure

LEMMA FromParsedDsnStep == ASSUME IInv, FromParsedDsn, UNCHANGED callVars PROVE IInv'
<1>1. stage = "parsed" /\ dsn.check \in Drivers
  BY Configuring DEF FromParsedDsn
<1>2. CASE dsn.check = "redis"
  BY <1>1, <1>2, RedisConfigureStep DEF FromParsedDsn
<1>3. CASE dsn.check = "kafka"
  BY <1>1, <1>3, KafkaConfigureStep DEF FromParsedDsn
<1>4. CASE dsn.check = "mongo"
  BY <1>1, <1>4, MongoConfigureStep DEF FromParsedDsn
<1>5. CASE dsn.check = "opensearch"
  BY <1>1, <1>5, OpenSearchConfigureStep DEF FromParsedDsn
<1>6. CASE dsn.check = "rabbitmq"
  BY <1>1, <1>6, RabbitConfigureStep DEF FromParsedDsn
<1>7. CASE dsn.check = "asyncpg"
  BY <1>1, <1>7, AsyncPGConfigureStep DEF FromParsedDsn
<1>8. CASE dsn.check = "psycopg"
  BY <1>1, <1>8, PsycopgConfigureStep DEF FromParsedDsn
<1> QED  BY <1>1, <1>2, <1>3, <1>4, <1>5, <1>6, <1>7, <1>8 DEF Drivers

-----------------------------------------------------------------------------
(* The client, and the certificates *)

LEMMA LevelFacts ==
  /\ \A mode \in SslMode : DriverLevel(mode) \in Levels
  /\ \A tls : Secure(tls) \in Levels
BY DEF SslMode, DriverLevel, Levels, Secure

LEMMA UrlClientTyped ==
  ASSUME NEW c \in UrlConfig
  PROVE  UrlClient(c) \in Client
<1> DEFINE tls == IF c.url.scheme = "http" THEN "plain"
                  ELSE IF c.verify_ssl THEN "full" ELSE "encrypted"
<1>1. tls \in Levels
  BY DEF Levels
<1>2. OrNone(c.username) \in Texts /\ c.timeout \in Nat /\ "none" \in Texts
  BY TextFacts, TimeoutAssumption DEF UrlConfig, Texts
<1> HIDE DEF tls
<1> QED  BY <1>1, <1>2 DEF UrlClient, Client, tls

LEMMA RedisClientTyped == ASSUME NEW c \in RedisConfig PROVE RedisClient(c) \in Client
BY LevelFacts, TimeoutAssumption DEF RedisConfig, RedisClient, Client, Texts

LEMMA KafkaClientTyped == ASSUME NEW c \in KafkaConfig PROVE KafkaClient(c) \in Client
<1> DEFINE sasl == c.security_protocol \in {"SASL_PLAINTEXT", "SASL_SSL"}
           user == IF sasl THEN c.sasl_plain_username ELSE "none"
           password == IF sasl THEN c.sasl_plain_password ELSE "none"
           tls == Secure(c.security_protocol \in {"SSL", "SASL_SSL"})
<1>1. user \in Texts /\ password \in Texts /\ "none" \in Texts
  BY DEF KafkaConfig, Texts
<1>2. tls \in Levels /\ c.timeout \in Nat
  BY LevelFacts, TimeoutAssumption DEF KafkaConfig
<1>3. KafkaClient(c) = [tls |-> tls, ca |-> "none", user |-> user, password |-> password,
                        path |-> "none", timeout |-> c.timeout]
  BY DEF KafkaClient
<1> HIDE DEF user, password, tls
<1> QED  BY <1>1, <1>2, <1>3 DEF Client

LEMMA MongoClientTyped == ASSUME NEW c \in MongoConfig PROVE MongoClient(c) \in Client
<1>1. Or(c.database, c.auth_source) \in Texts \union {"admin"}
  BY DEF MongoConfig, Or
<1> QED  BY <1>1, LevelFacts, TimeoutAssumption DEF MongoConfig, MongoClient, Client

LEMMA OpenSearchClientTyped ==
  ASSUME NEW c \in OpenSearchConfig
  PROVE  OpenSearchClient(c) \in Client
<1> DEFINE tls == IF c.use_ssl /\ c.verify_certs THEN "full" ELSE Secure(c.use_ssl)
<1>1. tls \in Levels
  BY LevelFacts DEF Levels
<1>2. c.http_auth[1] \in Texts /\ c.http_auth[2] \in Texts /\ "none" \in Texts /\ c.timeout \in Nat
  BY TimeoutAssumption DEF OpenSearchConfig, Texts
<1> HIDE DEF tls
<1> QED  BY <1>1, <1>2 DEF OpenSearchClient, Client, tls

LEMMA RabbitClientTyped == ASSUME NEW c \in RabbitMQConfig PROVE RabbitClient(c) \in Client
BY LevelFacts, TimeoutAssumption DEF RabbitMQConfig, RabbitClient, Client, Texts

LEMMA PsycopgClientTyped ==
  ASSUME NEW c \in PostgresPsycopgConfig
  PROVE  PsycopgClient(c) \in Client
<1>1. c.timeout \in Nat
  BY TimeoutAssumption DEF PostgresPsycopgConfig
<1>2. (c.timeout \div 1000) * 1000 \in Nat
  BY <1>1
<1> QED  BY <1>2, LevelFacts DEF PostgresPsycopgConfig, PsycopgClient, Client

LEMMA AsyncPGClientTyped == ASSUME NEW c, AsyncPGFits(c) PROVE AsyncPGClient(c) \in Client
<1> DEFINE tls == IF c.ssl # "context" THEN DriverLevel(c.ssl)
                  ELSE CASE c.context.verifies = "nothing" -> "encrypted"
                         [] c.context.verifies = "ca"      -> "ca"
                         [] c.context.verifies = "full"    -> "full"
           ca == IF c.ssl = "context" THEN c.context.ca ELSE "none"
<1>1. /\ c.ssl \in SslMode \union {"context"} /\ c.timeout \in Nat
      /\ c.user \in Texts /\ c.password \in Texts /\ c.database \in Texts
  BY TimeoutAssumption DEF AsyncPGFits, PostgresAsyncPGConfig
<1>2. ASSUME c.ssl = "context"
      PROVE  c.context.ca \in Texts /\ c.context.verifies \in {"nothing", "ca", "full"}
  BY <1>2 DEF AsyncPGFits, PostgresAsyncPGConfig, Contexts
<1>3. tls \in Levels
  BY <1>1, <1>2, LevelFacts DEF Levels
<1>4. ca \in Texts
  BY <1>2 DEF Texts
<1>5. AsyncPGClient(c) = [tls |-> tls, ca |-> ca, user |-> c.user, password |-> c.password,
                          path |-> c.database, timeout |-> c.timeout]
  BY DEF AsyncPGClient
<1> HIDE DEF tls, ca
<1> QED  BY <1>1, <1>3, <1>4, <1>5 DEF Client

LEMMA CreateClientStep == ASSUME IInv, CreateClient, UNCHANGED callVars PROVE IInv'
<1>1. /\ Built /\ stage' = "ready"
      /\ UNCHANGED <<dsn, keyword, timeout, parsed, config, contexts, disk, cleared>>
  BY DEF CreateClient, Connected, Built
<1>2. dsn.check \in Drivers \/ IsUrl
  BY <1>1, DsnFacts DEF IInv, ConfigurationFits, FromDsn
<1>3. ClientOf(config)'
  BY <1>1 DEF CreateClient, Connected, ClientOf, IsUrl
<1>4. client' \in Client
  <2>1. CASE IsUrl
    BY <1>1, <2>1, ConfigOfUrl, UrlClientTyped DEF CreateClient, Connected
  <2>2. CASE ~IsUrl
    <3>1. ConfigFits(config) /\ ClientOf(config)' /\ ~IsUrl' /\ dsn' = dsn /\ config' = config
      BY <1>1, <1>3, <2>2 DEF IInv, ConfigurationFits, IsUrl
    <3>2. CASE dsn.check = "redis"
      BY <3>1, <3>2, RedisClientTyped DEF ClientOf, ConfigFits, RedisFits
    <3>3. CASE dsn.check = "kafka"
      BY <3>1, <3>3, KafkaClientTyped DEF ClientOf, ConfigFits, KafkaFits
    <3>4. CASE dsn.check = "mongo"
      BY <3>1, <3>4, MongoClientTyped DEF ClientOf, ConfigFits, MongoFits
    <3>5. CASE dsn.check = "opensearch"
      BY <3>1, <3>5, OpenSearchClientTyped DEF ClientOf, ConfigFits, OpenSearchFits
    <3>6. CASE dsn.check = "rabbitmq"
      BY <3>1, <3>6, RabbitClientTyped DEF ClientOf, ConfigFits, RabbitFits
    <3>7. CASE dsn.check = "asyncpg"
      BY <3>1, <3>7, AsyncPGClientTyped DEF ClientOf, ConfigFits
    <3>8. CASE dsn.check = "psycopg"
      BY <3>1, <3>8, PsycopgClientTyped DEF ClientOf, ConfigFits, PsycopgFits
    <3> QED  BY <1>2, <2>2, <3>2, <3>3, <3>4, <3>5, <3>6, <3>7, <3>8 DEF Drivers
  <2> QED  BY <2>1, <2>2
<1>5. TypeOK'
  BY <1>1, <1>4 DEF IInv, TypeOK, ConfigTypeOK, Stages, callVars
<1>6. ParsingFits' /\ ConfigurationFits' /\ ClientFits'
  BY <1>1, <1>3, FragmentsStand
     DEF IInv, ParsingFits, ConfigurationFits, ClientFits, Built, IsUrl
<1>7. CacheFits'
  BY <1>1 DEF IInv, CacheFits
<1> QED  BY <1>1, <1>5, <1>6, <1>7, NotCalling DEF IInv

\* Neither changes anything of the check.
LEMMA CheckStands ==
  ASSUME IInv, UNCHANGED <<stage, dsn, keyword, timeout, parsed, config, client>>,
         UNCHANGED callVars
  PROVE  ParsingFits' /\ ConfigurationFits' /\ ClientFits' /\ RequestsValidated'
<1>1. ParsingFits' /\ ConfigurationFits' /\ ClientFits'
  BY FragmentsStand DEF IInv, ParsingFits, ConfigurationFits, ClientFits, Built, IsUrl
<1>2. RequestsValidated'
  BY DEF IInv, RequestsValidated, Requested, Requesting, Calling, IsUrl, UrlAllowed, callVars
<1> QED  BY <1>1, <1>2

LEMMA RotateStep == ASSUME IInv, Rotate, UNCHANGED callVars PROVE IInv'
<1>1. TypeOK'
  BY BoundAssumption DEF IInv, Rotate, TypeOK, ConfigTypeOK, callVars
<1>2. CacheFits'
  BY DEF IInv, Rotate, CacheFits
<1> QED  BY <1>1, <1>2, CheckStands DEF Rotate, IInv

LEMMA CacheClearStep == ASSUME IInv, CacheClear, UNCHANGED callVars PROVE IInv'
<1>1. DOMAIN contexts' = {}
  BY DEF CacheClear
<1>2. TypeOK'
  BY <1>1, BoundAssumption DEF IInv, CacheClear, TypeOK, ConfigTypeOK, callVars
<1>3. CacheFits'
  BY <1>1 DEF CacheFits
<1> QED  BY <1>2, <1>3, CheckStands DEF CacheClear, IInv

LEMMA BuildStep == ASSUME IInv, Build, UNCHANGED callVars PROVE IInv'
<1>1. CASE Begin
  BY <1>1, BeginStep
<1>2. CASE BeginUrl
  BY <1>2, BeginUrlStep
<1>3. CASE Discard
  BY <1>3, DiscardStep
<1>4. CASE ValidateDsn
  BY <1>4, ValidateDsnStep
<1>5. CASE ParseDsn
  BY <1>5, ParseDsnStep
<1>6. CASE FromParsedDsn
  BY <1>6, FromParsedDsnStep
<1>7. CASE CreateClient
  BY <1>7, CreateClientStep
<1>8. CASE Rotate
  BY <1>8, RotateStep
<1>9. CASE CacheClear
  BY <1>9, CacheClearStep
<1> QED  BY <1>1, <1>2, <1>3, <1>4, <1>5, <1>6, <1>7, <1>8, <1>9 DEF Build

LEMMA StutterStep == ASSUME IInv, UNCHANGED vars PROVE IInv'
<1>1. TypeOK'
  BY DEF IInv, TypeOK, ConfigTypeOK, vars, configVars, callVars
<1>2. CacheFits'
  BY DEF IInv, CacheFits, vars, configVars
<1> QED  BY <1>1, <1>2, CheckStands DEF IInv, vars, configVars

LEMMA Invariant == Spec => []IInv
<1>1. IInv /\ [Next]_vars => IInv'
  BY BuildStep, CallStep, StutterStep DEF Next
<1> QED  BY <1>1, InitInvariant, PTL DEF Spec

-----------------------------------------------------------------------------
(* The properties *)

\* Every variable keeps its type; the configuration is one of its check's type.
THEOREM TypeCorrect == Spec => []TypeOK
<1>1. IInv => TypeOK
  BY DEF IInv
<1> QED  BY <1>1, Invariant, PTL

\* With block_private_hosts, no request, a redirected one included, goes out before
\* its own target is validated and resolved to global addresses (url.py:120).
THEOREM EveryRequestValidated == Spec => []RequestsValidated
<1>1. IInv => RequestsValidated
  BY DEF IInv
<1> QED  BY <1>1, Invariant, PTL

\* The context an asyncpg check is configured with is in the cache.
LEMMA ConfiguredContextCached ==
  ASSUME IInv, FromParsedDsn, stage' = "configured", ByContext'
  PROVE  \E key \in DOMAIN contexts' : config'.context = contexts'[key]
<1>1. stage = "parsed" /\ dsn' = dsn /\ dsn.check = "asyncpg" /\ config'.ssl = "context"
  <2>1. stage = "parsed" /\ dsn.check \in Drivers
    BY Configuring DEF FromParsedDsn
  <2>2. dsn' = dsn
    BY <2>1 DEF FromParsedDsn, Drivers, Configured, Reject, RedisConfigure, KafkaConfigure,
                MongoConfigure, OpenSearchConfigure, RabbitConfigure, AsyncPGConfigure,
                PsycopgConfigure
  <2> QED  BY <2>1, <2>2 DEF ByContext
<1> DEFINE mode  == parsed.sslmode
           files == <<parsed.sslcert, parsed.sslkey, parsed.sslrootcert>>
           key   == ContextKey(mode, files)
           made  == SslContext(mode, parsed.sslcert, parsed.sslrootcert)
           found == IF key \in DOMAIN contexts THEN contexts[key] ELSE made
           ssl   == IF found = NoContext THEN mode ELSE "context"
<1>2. mode # "context"
  BY <1>1, Configuring DEF ParsedFits, PostgresParsed, PostgresParseDsnResult, SslMode
<1>3. AsyncPGConfigure /\ ~Reject
  BY <1>1 DEF FromParsedDsn, Reject
<1>4. ~Configured(AsyncPGConfig(mode, NoContext))
  BY <1>1, <1>2 DEF Configured, AsyncPGConfig
<1>5. /\ Configured(AsyncPGConfig(ssl, found))
      /\ contexts' = [k \in DOMAIN contexts \union {key} |->
                        IF k = key THEN found ELSE contexts[k]]
  BY <1>3, <1>4 DEF AsyncPGConfigure
<1> HIDE DEF key, found, ssl
<1>6. config'.context = found
  BY <1>5 DEF Configured, AsyncPGConfig
<1>7. key \in DOMAIN contexts' /\ contexts'[key] = found
  BY <1>5
<1> QED  BY <1>6, <1>7

\* The context a check is configured with is that of its own mode and files, however
\* many checks were built before, and was made after the last cache_clear().
THEOREM ContextsFitTheirChecks == Spec => ContextIsItsOwn
<1> DEFINE Own ==
      stage # "configured" /\ stage' = "configured" /\ ByContext' =>
        /\ SpeltMode(config'.context.mode)
        /\ config'.context.cert = OrNone(Unquote(dsn.query.cert))
        /\ config'.context.mode \in {"verify-ca", "verify-full"}
             => config'.context.ca = OrNone(Unquote(dsn.query.ca))
        /\ config'.context.version >= cleared
<1>1. IInv /\ IInv' /\ [Next]_vars => Own
  <2> SUFFICES ASSUME IInv, IInv', [Next]_vars,
                      stage # "configured", stage' = "configured", ByContext'
               PROVE  /\ SpeltMode(config'.context.mode)
                      /\ config'.context.cert = OrNone(Unquote(dsn.query.cert))
                      /\ config'.context.mode \in {"verify-ca", "verify-full"}
                           => config'.context.ca = OrNone(Unquote(dsn.query.ca))
                      /\ config'.context.version >= cleared
    OBVIOUS
  <2>1. FromParsedDsn
    <3>1. Build
      BY DEF Next, Call, Ask, Cancelled, BackendFails, RedisAnswers, MongoAnswers, ServiceAnswers,
             PostgresAnswers, ValidateOutboundRequest, RequestFails, RedirectFollowed, UrlAnswers,
             Answer, Fail, Ended, InHook, Calling, Requested, Requesting, vars, configVars
    <3>2. ~BeginUrl
      BY DEF BeginUrl, ByContext, IsUrl
    <3>3. ~ParseDsn
      <4> SUFFICES ASSUME ParseDsn PROVE FALSE
        OBVIOUS
      <4>1. dsn.check \in Drivers
        BY DsnFacts DEF ParseDsn, IInv, ParsingFits, FromDsn
      <4> QED  BY <4>1 DEF ParseDsn, Drivers, RedisParse, KafkaParse, MongoParse, OpenSearchParse,
                           PostgresParse, Parsed, Reject
    <3> QED  BY <3>1, <3>2, <3>3
             DEF Build, Begin, Discard, ValidateDsn, Reject, CreateClient, Connected, Rotate,
                 CacheClear
  <2>2. dsn' = dsn /\ cleared' = cleared
    <3>1. dsn.check \in Drivers
      BY <2>1, Configuring DEF FromParsedDsn
    <3> QED  BY <2>1, <3>1
             DEF FromParsedDsn, Drivers, Configured, Reject, RedisConfigure, KafkaConfigure,
                 MongoConfigure, OpenSearchConfigure, RabbitConfigure, AsyncPGConfigure,
                 PsycopgConfigure
  <2>3. AsyncPGFits(config)' /\ FromDsn'
    BY DEF IInv, ConfigurationFits, Built, ByContext, ConfigFits
  <2>4. /\ config'.context # NoContext /\ GivenModes' = {config'.context.mode}
        /\ Made(config.context, config.context.mode, OrNone(Unquote(dsn.query.cert)),
                OrNone(Unquote(dsn.query.ca)))'
    BY <2>2, <2>3 DEF AsyncPGFits, ByContext
  <2>5. SpeltMode(config'.context.mode)
    BY <2>2, <2>4 DEF GivenModes, SpeltMode
  <2>6. /\ config'.context.cert = OrNone(Unquote(dsn.query.cert))
        /\ config'.context.mode \in {"verify-ca", "verify-full"}
             => config'.context.ca = OrNone(Unquote(dsn.query.ca))
    BY <2>2, <2>4 DEF Made
  <2>7. config'.context.version >= cleared
    <3>1. PICK key \in DOMAIN contexts' : config'.context = contexts'[key]
      BY <2>1, ConfiguredContextCached
    <3> QED  BY <2>2, <2>4, <3>1 DEF IInv, CacheFits
  <2> QED  BY <2>5, <2>6, <2>7
<1> QED  BY <1>1, Invariant, PTL DEF Spec, ContextIsItsOwn

\* A client of a check of a DSN, its configuration and what they come from.
LEMMA ClientKnown ==
  ASSUME IInv, client # None, ~IsUrl
  PROVE  /\ FromDsn /\ ConfigFits(config) /\ ClientOf(config) /\ dsn.check \in Drivers
         /\ dsn.user \in Texts /\ dsn.password \in Texts /\ dsn.query \in Query
BY DsnFacts DEF IInv, ClientFits, ConfigurationFits, FromDsn

\* The user and the password of any DSN reach the client library, decoded by the
\* checks that decode and as written by the others, through defaults and SASL, when
\* SASL is asked for by keyword too; the guest account only a loopback broker.
THEOREM CredentialsReachClients == Spec => []CredentialsArrive
<1>1. IInv => CredentialsArrive
  <2> DEFINE Saslable == dsn.check = "kafka" =>
                           keyword.security_protocol \in {"absent", "SASL_PLAINTEXT", "SASL_SSL"}
             Arrive == /\ Named(dsn.user) => client.user = Arriving(dsn.user)
                       /\ Named(dsn.password) => client.password = Arriving(dsn.password)
  <2> SUFFICES ASSUME IInv, client # None, ~IsUrl
               PROVE  /\ Saslable => Arrive
                      /\ dsn.check = "rabbitmq" /\ client.user = "guest"
                         /\ client.password = "guest" => Host = "loopback"
    BY DEF CredentialsArrive
  <2>1. CASE dsn.check = "redis"
    <3>1. client.user = OrNone(Unquote(dsn.user)) /\ client.password = OrNone(Unquote(dsn.password))
      BY <2>1, ClientKnown DEF ConfigFits, RedisFits, ClientOf, RedisClient
    <3>2. Arrive
      BY <2>1, <3>1, ClientKnown, TextFacts DEF Arriving, Decoding
    <3> QED  BY <2>1, <3>2
  <2>2. CASE dsn.check = "kafka"
    <3>1. KafkaFits(config) /\ client = KafkaClient(config)
      BY <2>2, ClientKnown DEF ConfigFits, ClientOf
    <3>2. ASSUME config.security_protocol \in {"SASL_PLAINTEXT", "SASL_SSL"} PROVE Arrive
      <4>1. /\ client.user = OrNone(Unquote(dsn.user))
            /\ client.password = OrNone(Unquote(dsn.password))
        BY <3>1, <3>2 DEF KafkaFits, KafkaClient
      <4> QED  BY <2>2, <4>1, ClientKnown, TextFacts DEF Arriving, Decoding
    <3>3. CASE keyword.security_protocol \in {"SASL_PLAINTEXT", "SASL_SSL"}
      BY <2>2, <3>1, <3>2, <3>3 DEF KafkaFits
    <3>4. CASE keyword.security_protocol = "absent"
      <4>1. CASE Named(dsn.user) \/ Named(dsn.password)
        <5>1. config.sasl_plain_username # "none" \/ config.sasl_plain_password # "none"
          BY <3>1, <4>1, ClientKnown, TextFacts DEF KafkaFits
        <5> QED  BY <2>2, <3>1, <3>2, <3>4, <5>1 DEF KafkaFits
      <4>2. CASE ~ (Named(dsn.user) \/ Named(dsn.password))
        BY <2>2, <4>2
      <4> QED  BY <4>1, <4>2
    <3> QED  BY <2>2, <3>3, <3>4
  <2>3. CASE dsn.check = "mongo"
    <3>1. client.user = dsn.user /\ client.password = dsn.password
      BY <2>3, ClientKnown DEF ConfigFits, MongoFits, ClientOf, MongoClient
    <3> QED  BY <2>3, <3>1 DEF Arriving, Decoding
  <2>4. CASE dsn.check = "opensearch"
    <3>1. OpenSearchFits(config) /\ client = OpenSearchClient(config)
      BY <2>4, ClientKnown DEF ConfigFits, ClientOf
    <3>2. client.user = config.http_auth[1] /\ client.password = config.http_auth[2]
      BY <3>1 DEF OpenSearchClient
    <3> QED  BY <2>4, <3>1, <3>2 DEF OpenSearchFits, Arriving, Decoding, Named
  <2>5. CASE dsn.check = "rabbitmq"
    <3>1. RabbitFits(config) /\ client = RabbitClient(config)
      BY <2>5, ClientKnown DEF ConfigFits, ClientOf
    <3>2. client.user = Or(dsn.user, "guest") /\ client.password = Or(dsn.password, "guest")
      BY <3>1 DEF RabbitFits, RabbitClient
    <3>3. Arrive
      BY <2>5, <3>2 DEF Or, Named, Arriving, Decoding
    <3>4. client.user = "guest" /\ client.password = "guest" => Host = "loopback"
      BY <3>1 DEF RabbitFits, RabbitClient
    <3> QED  BY <3>3, <3>4
  <2>6. CASE dsn.check \in {"asyncpg", "psycopg"}
    <3>1. client.user = dsn.user /\ client.password = dsn.password
      BY <2>6, ClientKnown
         DEF ConfigFits, AsyncPGFits, PsycopgFits, ClientOf, AsyncPGClient, PsycopgClient
    <3> QED  BY <2>6, <3>1 DEF Arriving, Decoding
  <2> QED  BY <2>1, <2>2, <2>3, <2>4, <2>5, <2>6, ClientKnown DEF Drivers
<1> QED  BY <1>1, Invariant, PTL

LEMMA RankFacts ==
  /\ Rank["plain"] = 0 /\ Rank["offered"] = 1 /\ Rank["encrypted"] = 2
  /\ Rank["ca"] = 3 /\ Rank["full"] = 4
  /\ \A tls \in Levels : Rank[tls] \in Nat /\ Rank[tls] <= 4
BY DEF Rank, Levels

LEMMA SecureFacts ==
  ASSUME NEW told, told
  PROVE  Rank[Secure(told)] >= Rank["encrypted"]
BY RankFacts DEF Secure

\* No client protects its connection less than any way of asking, scheme, option,
\* alias or keyword, asks (CheckCall names the exceptions), for any DSN and after
\* any other checks.
THEOREM NeverTlsWeaker == Spec => []NeverWeaker
<1>1. IInv => NeverWeaker
  <2> SUFFICES ASSUME IInv, client # None, ~IsUrl, NEW level \in Levels, Asks(level)
               PROVE  Rank[client.tls] >= Rank[level]
    BY DEF NeverWeaker
  <2>1. CASE dsn.check = "redis"
    <3> DEFINE told == config.ssl
    <3>1. /\ client.tls = Secure(told) /\ level = "encrypted"
          /\ dsn.scheme = "rediss" \/ dsn.query.ssl = "true" \/ Named(dsn.query.ca)
      BY <2>1, ClientKnown DEF Asks, ConfigFits, ClientOf, RedisClient
    <3>2. told
      BY <2>1, <3>1, ClientKnown DEF ConfigFits, RedisFits
    <3> HIDE DEF told
    <3> QED  BY <3>1, <3>2, SecureFacts
  <2>2. CASE dsn.check = "kafka"
    <3> DEFINE told == config.security_protocol \in {"SSL", "SASL_SSL"}
    <3>1. KafkaFits(config) /\ client.tls = Secure(told)
      BY <2>2, ClientKnown DEF ConfigFits, ClientOf, KafkaClient
    <3>2. /\ level = "encrypted"
          /\ \/ keyword.security_protocol \in {"SSL", "SASL_SSL"}
             \/ keyword.security_protocol = "absent" /\ Is("kafkas")
      BY <2>2 DEF Asks
    <3>3. told
      BY <3>1, <3>2 DEF KafkaFits
    <3> HIDE DEF told
    <3> QED  BY <3>1, <3>2, <3>3, SecureFacts
  <2>3. CASE dsn.check = "mongo"
    <3> DEFINE told == config.tls = "on"
    <3>1. client.tls = Secure(told) /\ MongoFits(config)
      BY <2>3, ClientKnown DEF ConfigFits, ClientOf, MongoClient
    <3>2. level = "encrypted" /\ MongoAsks
      BY <2>3 DEF Asks, MongoAsks
    <3>3. told
      BY <3>1, <3>2 DEF MongoFits
    <3> HIDE DEF told
    <3> QED  BY <3>1, <3>2, <3>3, SecureFacts
  <2>4. CASE dsn.check = "opensearch"
    <3> DEFINE use == config.use_ssl
               verify == config.verify_certs
    <3>1. /\ client.tls = IF use /\ verify THEN "full" ELSE Secure(use)
          /\ Is("https") => use
          /\ Is("https") /\ keyword.verify_certs # "false" => verify
      BY <2>4, ClientKnown DEF ConfigFits, OpenSearchFits, ClientOf, OpenSearchClient
    <3>2. /\ Is("https")
          /\ level = "encrypted" \/ (level = "full" /\ keyword.verify_certs # "false")
      BY <2>4 DEF Asks
    <3> HIDE DEF use, verify
    <3> QED  BY <3>1, <3>2, RankFacts DEF Secure
  <2>5. CASE dsn.check = "rabbitmq"
    <3> DEFINE told == config.secure
    <3>1. client.tls = Secure(told) /\ (Is("amqps") => told)
      BY <2>5, ClientKnown DEF ConfigFits, RabbitFits, ClientOf, RabbitClient
    <3>2. level = "encrypted" /\ Is("amqps")
      BY <2>5 DEF Asks
    <3> HIDE DEF told
    <3> QED  BY <3>1, <3>2, SecureFacts
  <2>6. CASE dsn.check \in {"asyncpg", "psycopg"}
    <3>1. PICK mode \in GivenModes : level = DriverLevel(mode)
      <4>1. PICK mode \in {"prefer", "require", "verify-ca", "verify-full"} :
              SpeltMode(mode) /\ level = DriverLevel(mode)
        BY <2>6 DEF Asks, DriverLevel
      <4>2. mode \in GivenModes
        BY <4>1 DEF SpeltMode, GivenModes
      <4> QED  BY <4>1, <4>2
    <3>2. CASE dsn.check = "psycopg"
      <4>1. config.sslmode = mode /\ client.tls = DriverLevel(config.sslmode)
            /\ config.sslmode \in SslMode
        BY <3>1, <3>2, ClientKnown
           DEF ConfigFits, PsycopgFits, PostgresPsycopgConfig, ClientOf, PsycopgClient
      <4> QED  BY <3>1, <4>1, LevelFacts, RankFacts
    <3>3. CASE dsn.check = "asyncpg"
      <4>1. AsyncPGFits(config) /\ client = AsyncPGClient(config)
        BY <3>3, ClientKnown DEF ConfigFits, ClientOf
      <4>2. CASE config.ssl # "context"
        <5>1. config.ssl = mode /\ client.tls = DriverLevel(mode) /\ mode \in SslMode
          BY <3>1, <4>1, <4>2 DEF AsyncPGFits, AsyncPGClient, PostgresAsyncPGConfig
        <5> QED  BY <3>1, <5>1, LevelFacts, RankFacts
      <4>3. CASE config.ssl = "context"
        <5>1. /\ config.context.mode = mode /\ config.context # NoContext
              /\ Made(config.context, mode, OrNone(Unquote(dsn.query.cert)), OrNone(Unquote(dsn.query.ca)))
          BY <3>1, <4>1, <4>3 DEF AsyncPGFits
        <5>2. mode \in SslMode \ {"disable", "allow"}
          BY <5>1 DEF Made, Contexts
        <5>3. client.tls = CASE config.context.verifies = "nothing" -> "encrypted"
                             [] config.context.verifies = "ca"      -> "ca"
                             [] config.context.verifies = "full"    -> "full"
          BY <4>1, <4>3 DEF AsyncPGClient
        <5>4. CASE mode = "require"
          BY <3>1, <5>1, <5>3, <5>4, RankFacts DEF Made, DriverLevel
        <5>5. CASE mode = "verify-ca"
          BY <3>1, <5>1, <5>3, <5>5, RankFacts DEF Made, DriverLevel
        <5>6. CASE mode \in {"prefer", "verify-full"}
          <6>1. client.tls = "full" /\ DriverLevel(mode) \in Levels
            BY <5>1, <5>2, <5>3, <5>6, LevelFacts DEF Made
          <6> QED  BY <3>1, <6>1, RankFacts
        <5> QED  BY <5>2, <5>4, <5>5, <5>6 DEF SslMode
      <4> QED  BY <4>2, <4>3
    <3> QED  BY <2>6, <3>2, <3>3
  <2> QED  BY <2>1, <2>2, <2>3, <2>4, <2>5, <2>6, ClientKnown DEF Drivers
<1> QED  BY <1>1, Invariant, PTL
=============================================================================
