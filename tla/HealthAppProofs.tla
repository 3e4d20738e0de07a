-------------------------- MODULE HealthAppProofs --------------------------
(***************************************************************************)
(* Proofs about HealthApp, for any requests, checks, probes, routes and    *)
(* error data.                                                             *)
(***************************************************************************)
EXTENDS HealthApp, TLAPS, SequenceTheorems, WellFoundedInduction

(***************************************************************************)
(* The inductive invariant.  A shutdown that no run disturbs has closed,   *)
(* or failed to close, every check it has walked (Sweeping), and there are *)
(* no other clients to close, as only a check of a probe opens one         *)
(* (OpenAreListed).  A report is of the answers, or of a timeout of the    *)
(* whole run, which has checks (ReportsFit).                               *)
(***************************************************************************)

CheckAt(place) == Probes[place[1]][place[2]]

RequestsFit ==
    \A r \in Requests :
      /\ stage[r] # "idle" => route[r] \in Routes /\ DOMAIN results[r] = DOMAIN ChecksOf(r)
      /\ stage[r] = "idle" => results[r] = <<>>

ReportsFit ==
    \A r \in Requests :
      /\ stage[r] = "reporting" => report[r] = results[r] /\ AllAnswered(r)
      /\ stage[r] \in {"timing out", "timed out"} => DOMAIN results[r] # {}
      /\ stage[r] = "timed out" =>
           /\ DOMAIN report[r] = DOMAIN results[r]
           /\ \A k \in DOMAIN report[r] : report[r][k] = "timeout"

OpenAreListed ==
    \A c \in Checks : client[c] = "open" =>
      c \in Resources /\ \E place \in Places : CheckAt(place) = c

NobodyRuns == \A r \in Requests : ~UnderWay(r)

Sweeping ==
    swept = "so far" =>
      /\ shutdown # "idle" /\ NobodyRuns
      /\ shutdown = "grace" => todo = {}
      /\ \A place \in Places \ todo : CheckAt(place) \in closed_ids
      /\ \A c \in closed_ids \intersect Resources : client[c] = "open" => c \in stuck

Swept == swept = "yes" => shutdown = "idle" /\ NobodyRuns /\ ShutdownLeavesNothing

IInv ==
    /\ TypeOK /\ RequestsFit /\ ReportsFit
    /\ OpenAreListed /\ Sweeping /\ Swept

-----------------------------------------------------------------------------
(* The constants *)

LEMMA RoutesTyped ==
  ASSUME NEW rt \in Routes
  PROVE  /\ rt.probe \in DOMAIN Probes /\ rt.options \in Options
         /\ rt.runner \in RunPolicy \union {NoRunner}
<1>1. PICK i \in Installations : rt \in build_health_routes(i)
  BY DEF Routes
<1>2. i \in Installation
  BY RouteAssumption
<1>3. PICK p \in i.probes :
        rt = AddProbeRoute(p, IF i.options = NoOptions THEN build_probe_route_options
                              ELSE i.options, i.runner)
  BY <1>1 DEF build_health_routes
<1>4. build_probe_route_options \in Options
  BY DEF build_probe_route_options, Options, Statuses, Handlers
<1>5. /\ p \in DOMAIN Probes /\ i.options \in Options \union {NoOptions}
      /\ i.runner \in RunPolicy \union {NoRunner}
  BY <1>2 DEF Installation
<1> QED  BY <1>3, <1>4, <1>5 DEF AddProbeRoute

LEMMA MillisecondsPositive ==
  ASSUME NEW t \in Int
  PROVE  Milliseconds(t) \in Nat \ {0}
<1>1. t >= 1000 => t \div 1000 \in Nat /\ t \div 1000 >= 1
  OBVIOUS
<1> QED  BY <1>1 DEF Milliseconds

LEMMA PolicyTyped ==
  ASSUME NEW rt \in Routes
  PROVE  Policy(rt) \in RunPolicy
<1>1. rt.options.timeout \in Int \union {NoTimeout} /\ rt.runner \in RunPolicy \union {NoRunner}
  BY RoutesTyped DEF Options
<1>2. DefaultPolicy(rt.options.timeout) \in RunPolicy
  <2>1. CASE rt.options.timeout = NoTimeout
    BY <2>1 DEF DefaultPolicy, RunPolicy
  <2>2. CASE rt.options.timeout # NoTimeout
    BY <1>1, <2>2, MillisecondsPositive DEF DefaultPolicy, RunPolicy
  <2> QED  BY <2>1, <2>2
<1> QED  BY <1>1, <1>2 DEF Policy

\* The checks of a probe have their places in it.
LEMMA ProbesTyped ==
  ASSUME NEW p \in DOMAIN Probes
  PROVE  /\ Probes[p] \in Seq(Checks) /\ DOMAIN Probes[p] = 1..Len(Probes[p])
         /\ \A k \in DOMAIN Probes[p] :
              /\ Probes[p][k] \in Checks
              /\ <<p, k>> \in Places /\ CheckAt(<<p, k>>) = Probes[p][k]
<1>1. Probes[p] \in Seq(Checks)
  BY ProbeAssumption
<1>2. ASSUME NEW k \in DOMAIN Probes[p]
      PROVE  Probes[p][k] \in Checks /\ <<p, k>> \in Places /\ CheckAt(<<p, k>>) = Probes[p][k]
  BY <1>1, <1>2 DEF Places, CheckAt
<1> QED  BY <1>1, <1>2

LEMMA PlacesTyped ==
  ASSUME NEW place \in Places
  PROVE  CheckAt(place) \in Checks
<1>1. PICK p \in DOMAIN Probes : place \in {p} \X DOMAIN Probes[p]
  BY DEF Places
<1> QED  BY <1>1, ProbesTyped DEF CheckAt

LEMMA InitInvariant == Init => IInv
<1> SUFFICES ASSUME Init PROVE IInv
  OBVIOUS
<1>1. TypeOK
  BY DEF Init, TypeOK, Stages
<1>2. RequestsFit /\ ReportsFit /\ OpenAreListed
  BY DEF Init, RequestsFit, ReportsFit, OpenAreListed
<1>3. Sweeping /\ Swept
  BY DEF Init, Sweeping, Swept
<1> QED  BY <1>1, <1>2, <1>3 DEF IInv

-----------------------------------------------------------------------------
(* Requests *)

ResultValues == {"pending", "asking", "unwinding", "cancelled"} \union Answers
ReportValues == Answers \union {"timeout"}

\* Request r goes on to stage s, on route rt, with results res and report rep.
RequestMove(r, rt, s, res, rep) ==
    /\ route' = [route EXCEPT ![r] = rt] /\ stage' = [stage EXCEPT ![r] = s]
    /\ results' = [results EXCEPT ![r] = res] /\ report' = [report EXCEPT ![r] = rep]
    /\ s # "idle" => rt \in Routes /\ DOMAIN res = DOMAIN Probes[rt.probe]
    /\ s = "idle" => res = <<>>
    /\ s = "reporting" => rep = res /\ \A k \in DOMAIN res : res[k] \in Answers
    /\ s \in {"timing out", "timed out"} => DOMAIN res # {}
    /\ s = "timed out" => DOMAIN rep = DOMAIN res /\ \A k \in DOMAIN rep : rep[k] = "timeout"
    /\ client' \in [Checks -> {"none", "open"}]
    /\ \A c \in Checks : client'[c] = "open" =>
         \/ client[c] = "open"
         \/ /\ UnderWay(r) /\ c \in Resources
            /\ \E place \in Places : CheckAt(place) = c
    /\ swept' \in {"no", swept}
    /\ s \in {"running", "timing out", "dropped"} => UnderWay(r) \/ swept' = "no"
    /\ UNCHANGED <<shutdown, todo, closed_ids, stuck>>

LEMMA RequestMoveStep ==
  ASSUME IInv, NEW r \in Requests, NEW rt \in Routes \union {NoRoute}, NEW s \in Stages,
         NEW res \in Seq(ResultValues), NEW rep \in Seq(ReportValues),
         RequestMove(r, rt, s, res, rep)
  PROVE  IInv'
<1> USE DEF RequestMove
<1>1. /\ route' \in [Requests -> Routes \union {NoRoute}] /\ route'[r] = rt
      /\ stage' \in [Requests -> Stages] /\ stage'[r] = s
      /\ results' \in [Requests -> Seq(ResultValues)] /\ results'[r] = res
      /\ report' \in [Requests -> Seq(ReportValues)] /\ report'[r] = rep
      /\ \A q \in Requests : q # r =>
           /\ route'[q] = route[q] /\ stage'[q] = stage[q]
           /\ results'[q] = results[q] /\ report'[q] = report[q]
  BY DEF IInv, TypeOK, ResultValues, ReportValues
<1>2. TypeOK'
  BY <1>1, PolicyTyped DEF IInv, TypeOK, ResultValues, ReportValues
<1>3. RequestsFit'
  <2> SUFFICES ASSUME NEW q \in Requests
               PROVE  /\ stage'[q] # "idle" =>
                           route'[q] \in Routes /\ DOMAIN results'[q] = DOMAIN Probes[route'[q].probe]
                      /\ stage'[q] = "idle" => results'[q] = <<>>
    BY DEF RequestsFit, ChecksOf
  <2>1. CASE q = r
    BY <1>1, <2>1
  <2>2. CASE q # r
    BY <1>1, <2>2 DEF IInv, RequestsFit, ChecksOf
  <2> QED  BY <2>1, <2>2
<1>4. ReportsFit'
  <2> SUFFICES ASSUME NEW q \in Requests
               PROVE  ReportsFit!(q)'
    BY DEF ReportsFit
  <2>1. CASE q = r
    BY <1>1, <2>1 DEF AllAnswered
  <2>2. CASE q # r
    BY <1>1, <2>2 DEF IInv, ReportsFit, AllAnswered
  <2> QED  BY <2>1, <2>2
<1>5. OpenAreListed'
  BY DEF IInv, OpenAreListed
<1>6. swept' # "no" => swept' = swept /\ (NobodyRuns => NobodyRuns')
  <2> SUFFICES ASSUME swept' # "no", NobodyRuns, NEW q \in Requests
               PROVE  ~UnderWay(q)'
    BY DEF NobodyRuns
  <2>1. CASE q = r
    BY <1>1, <2>1 DEF NobodyRuns, UnderWay
  <2>2. CASE q # r
    BY <1>1, <2>2 DEF NobodyRuns, UnderWay
  <2> QED  BY <2>1, <2>2
<1>7. swept' # "no" /\ NobodyRuns => \A c \in Checks : client'[c] = "open" => client[c] = "open"
  BY DEF NobodyRuns
<1>8. Sweeping'
  <2> SUFFICES ASSUME swept' = "so far"
               PROVE  Sweeping!2'
    BY DEF Sweeping
  <2>1. swept = "so far" /\ NobodyRuns /\ NobodyRuns'
    BY <1>6 DEF IInv, Sweeping
  <2>2. \A c \in closed_ids \intersect Resources : client'[c] = "open" => c \in stuck
    BY <1>7, <2>1 DEF IInv, Sweeping, TypeOK
  <2> QED  BY <2>1, <2>2 DEF IInv, Sweeping
<1>9. Swept'
  BY <1>6, <1>7, ResourceAssumption DEF IInv, Swept, ShutdownLeavesNothing
<1> QED  BY <1>2, <1>3, <1>4, <1>5, <1>8, <1>9 DEF IInv

LEMMA FunctionIsSeq ==
  ASSUME NEW S, NEW n \in Nat, NEW f \in [1..n -> S]
  PROVE  f \in Seq(S)
BY SeqDef

\* The results of a run with one of them changed.
LEMMA ResultMoves ==
  ASSUME IInv, NEW r \in Requests, NEW k \in DOMAIN results[r], NEW x \in ResultValues
  PROVE  \E res \in Seq(ResultValues) :
           /\ res = [results[r] EXCEPT ![k] = x] /\ DOMAIN res = DOMAIN results[r]
<1>1. results[r] \in Seq(ResultValues)
  BY DEF IInv, TypeOK, ResultValues
<1>2. [results[r] EXCEPT ![k] = x] \in Seq(ResultValues)
  BY <1>1, ExceptSeq, LenProperties
<1> QED  BY <1>2

\* A run has a route, with its checks.
LEMMA RouteOfRun ==
  ASSUME IInv, NEW r \in Requests, stage[r] # "idle"
  PROVE  \E rt \in Routes :
           /\ rt = route[r] /\ DOMAIN results[r] = DOMAIN Probes[rt.probe]
           /\ DOMAIN results[r] = 1..Len(results[r]) /\ Len(results[r]) \in Nat
<1>1. results[r] \in Seq(ResultValues)
  BY DEF IInv, TypeOK, ResultValues
<1>2. DOMAIN results[r] = 1..Len(results[r]) /\ Len(results[r]) \in Nat
  BY <1>1, LenProperties
<1> QED  BY <1>2 DEF IInv, RequestsFit, ChecksOf

\* A run in which one check, that had not answered, has come to x.
LEMMA ResultStep ==
  ASSUME IInv, NEW r \in Requests, NEW k \in DOMAIN results[r],
         results[r][k] \in {"pending", "asking", "unwinding"},
         NEW x \in ResultValues, Result(r, k, x),
         client' \in [Checks -> {"none", "open"}],
         \A c \in Checks : client'[c] = "open" =>
           \/ client[c] = "open"
           \/ UnderWay(r) /\ c \in Resources /\ \E place \in Places : CheckAt(place) = c,
         OnlyCheck
  PROVE  IInv'
<1>1. PICK res \in Seq(ResultValues) :
        /\ res = [results[r] EXCEPT ![k] = x] /\ DOMAIN res = DOMAIN results[r]
  BY ResultMoves
<1>2. stage[r] \in Stages \ {"idle", "reporting"}
  <2>1. results[r] # <<>> /\ ~AllAnswered(r)
    BY DEF AllAnswered, Answers
  <2> QED  BY <2>1 DEF IInv, TypeOK, RequestsFit, ReportsFit
<1>3. PICK rt \in Routes : rt = route[r] /\ DOMAIN results[r] = DOMAIN Probes[rt.probe]
  BY <1>2, RouteOfRun
<1>4. PICK rep \in Seq(ReportValues) : rep = report[r]
  BY DEF IInv, TypeOK, ReportValues
<1>5. PICK s \in Stages \ {"idle", "reporting"} : s = stage[r]
  BY <1>2
<1>6. /\ route' = [route EXCEPT ![r] = rt] /\ stage' = [stage EXCEPT ![r] = s]
      /\ results' = [results EXCEPT ![r] = res] /\ report' = [report EXCEPT ![r] = rep]
  BY <1>1, <1>3, <1>4, <1>5 DEF Result, OnlyCheck, IInv, TypeOK
<1>7. /\ s \in {"timing out", "timed out"} => DOMAIN res # {}
      /\ s = "timed out" => DOMAIN rep = DOMAIN res /\ \A j \in DOMAIN rep : rep[j] = "timeout"
  BY <1>1, <1>4, <1>5 DEF IInv, ReportsFit
<1>8. s \in {"running", "timing out", "dropped"} => UnderWay(r)
  BY <1>5 DEF UnderWay
<1>9. UNCHANGED <<shutdown, todo, closed_ids, stuck, swept>>
  BY DEF OnlyCheck, OnlyRequests
<1>10. RequestMove(r, rt, s, res, rep)
  BY <1>1, <1>3, <1>5, <1>6, <1>7, <1>8, <1>9 DEF RequestMove
<1> QED  BY <1>10, RequestMoveStep

\* The check of a place in a run.
LEMMA CheckOfRun ==
  ASSUME IInv, NEW r \in Requests, NEW k \in DOMAIN results[r]
  PROVE  \E c \in Checks :
           c = ChecksOf(r)[k] /\ \E place \in Places : CheckAt(place) = c
<1>1. stage[r] # "idle"
  BY DEF IInv, RequestsFit
<1>2. /\ route[r].probe \in DOMAIN Probes
      /\ k \in DOMAIN Probes[route[r].probe]
  BY <1>1, RoutesTyped DEF IInv, RequestsFit, ChecksOf
<1> QED  BY <1>2, ProbesTyped DEF ChecksOf

LEMMA CheckStartsStep ==
  ASSUME IInv, NEW r \in Requests, NEW k \in DOMAIN results[r], CheckStarts(r, k)
  PROVE  IInv'
<1>0. UnderWay(r) /\ OnlyCheck /\ results[r][k] = "pending"
  BY DEF CheckStarts
<1>1. PICK c \in Checks : c = ChecksOf(r)[k] /\ \E place \in Places : CheckAt(place) = c
  BY CheckOfRun
<1>2. PICK x \in {"asking", "unhealthy"} :
        /\ Result(r, k, x)
        /\ \/ client' = IF c \in Resources THEN [client EXCEPT ![c] = "open"] ELSE client
           \/ client' = [client EXCEPT ![c] = "none"]
  BY <1>1 DEF CheckStarts
<1>3. /\ client' \in [Checks -> {"none", "open"}]
      /\ \A d \in Checks : client'[d] = "open" => client[d] = "open" \/ (d = c /\ d \in Resources)
  BY <1>2 DEF IInv, TypeOK
<1>4. x \in ResultValues
  BY DEF ResultValues, Answers
<1> QED  BY <1>0, <1>1, <1>2, <1>3, <1>4, ResultStep

\* A check that has been asking answers, or ends its finally blocks.
LEMMA AnswerStep ==
  ASSUME IInv, NEW r \in Requests, NEW k \in DOMAIN results[r],
         results[r][k] \in {"asking", "unwinding"}, OnlyCheck,
         NEW x \in ResultValues, (Result(r, k, x) /\ UNCHANGED client) \/ Fails(r, k)
  PROVE  IInv'
<1>1. PICK c \in Checks : c = ChecksOf(r)[k]
  BY CheckOfRun
<1>2. PICK y \in ResultValues :
        /\ Result(r, k, y)
        /\ client' = client \/ client' = [client EXCEPT ![c] = "none"]
  BY <1>1 DEF Fails, ResultValues, Answers
<1>3. /\ client' \in [Checks -> {"none", "open"}]
      /\ \A d \in Checks : client'[d] = "open" => client[d] = "open"
  BY <1>2 DEF IInv, TypeOK
<1> QED  BY <1>2, <1>3, ResultStep

LEMMA CheckAnswersStep ==
  ASSUME IInv, NEW r \in Requests, NEW k \in DOMAIN results[r],
         CheckAnswers(r, k) \/ CheckUnwinds(r, k)
  PROVE  IInv'
<1>1. "healthy" \in ResultValues /\ "cancelled" \in ResultValues
  BY DEF ResultValues, Answers
<1> QED  BY <1>1, AnswerStep DEF CheckAnswers, CheckUnwinds

LEMMA RequestStep ==
  ASSUME IInv, NEW r \in Requests, Request(r)
  PROVE  IInv'
<1>1. PICK rt \in Routes :
        /\ route' = [route EXCEPT ![r] = rt]
        /\ results' = [results EXCEPT ![r] = [k \in DOMAIN Probes[rt.probe] |-> "pending"]]
  BY DEF Request
<1>2. DOMAIN Probes[rt.probe] = 1..Len(Probes[rt.probe]) /\ Len(Probes[rt.probe]) \in Nat
  BY RoutesTyped, ProbesTyped
<1>3. PICK res \in Seq(ResultValues) : res = [k \in DOMAIN Probes[rt.probe] |-> "pending"]
  <2>1. [k \in 1..Len(Probes[rt.probe]) |-> "pending"] \in Seq(ResultValues)
    BY <1>2 DEF ResultValues
  <2> QED  BY <1>2, <2>1
<1>4. PICK rep \in Seq(ReportValues) : rep = report[r]
  BY DEF IInv, TypeOK, ReportValues
<1>5. report' = [report EXCEPT ![r] = rep]
  BY <1>4 DEF Request, IInv, TypeOK
<1>6. RequestMove(r, rt, "running", res, rep)
  BY <1>1, <1>3, <1>5 DEF RequestMove, Request, IInv, TypeOK
<1> QED  BY <1>6, RequestMoveStep DEF Stages

LEMMA DoneStep ==
  ASSUME IInv, NEW r \in Requests, Done(r)
  PROVE  IInv'
<1>1. /\ <<>> \in Seq(ResultValues) /\ <<>> \in Seq(ReportValues)
      /\ NoRoute \in Routes \union {NoRoute}
  OBVIOUS
<1>2. RequestMove(r, NoRoute, "idle", <<>>, <<>>)
  BY DEF RequestMove, Done, OnlyRequests, IInv, TypeOK
<1> QED  BY <1>1, <1>2, RequestMoveStep DEF Stages

\* A run goes on to stage s with results res and report rep.
LEMMA RunStep ==
  ASSUME IInv, NEW r \in Requests, UnderWay(r), NEW s \in Stages \ {"idle"},
         NEW res \in Seq(ResultValues), DOMAIN res = DOMAIN results[r],
         NEW rep \in Seq(ReportValues),
         s = "reporting" => rep = res /\ \A k \in DOMAIN res : res[k] \in Answers,
         s \in {"timing out", "timed out"} => DOMAIN res # {},
         s = "timed out" => DOMAIN rep = DOMAIN res /\ \A k \in DOMAIN rep : rep[k] = "timeout",
         stage' = [stage EXCEPT ![r] = s], results' = [results EXCEPT ![r] = res],
         report' = [report EXCEPT ![r] = rep], UNCHANGED <<route, client>>, OnlyRequests
  PROVE  IInv'
<1>1. stage[r] # "idle"
  BY DEF UnderWay
<1>2. PICK rt \in Routes : rt = route[r] /\ DOMAIN results[r] = DOMAIN Probes[rt.probe]
  BY <1>1, RouteOfRun
<1>3. route' = [route EXCEPT ![r] = rt] /\ client' \in [Checks -> {"none", "open"}]
  BY <1>2 DEF IInv, TypeOK
<1>4. RequestMove(r, rt, s, res, rep)
  BY <1>2, <1>3 DEF RequestMove, OnlyRequests
<1> QED  BY <1>4, RequestMoveStep

LEMMA RunEndsStep ==
  ASSUME IInv, NEW r \in Requests, RunEnds(r)
  PROVE  IInv'
<1>1. PICK res \in Seq(ResultValues) : res = results[r]
  BY DEF IInv, TypeOK, ResultValues
<1>2. \A k \in DOMAIN res : res[k] \in Answers
  BY <1>1 DEF RunEnds, AllAnswered
<1>3. res \in Seq(ReportValues)
  <2>1. Len(res) \in Nat /\ DOMAIN res = 1..Len(res) /\ res = [k \in 1..Len(res) |-> res[k]]
    BY LenProperties
  <2>2. \A k \in 1..Len(res) : res[k] \in ReportValues
    BY <1>2, <2>1 DEF ReportValues
  <2>3. [k \in 1..Len(res) |-> res[k]] \in [1..Len(res) -> ReportValues]
    BY <2>2
  <2> QED  BY <2>1, <2>3
<1>4. /\ results' = [results EXCEPT ![r] = res] /\ report' = [report EXCEPT ![r] = res]
      /\ stage' = [stage EXCEPT ![r] = "reporting"] /\ UnderWay(r)
      /\ UNCHANGED <<route, client>> /\ OnlyRequests
  BY <1>1 DEF RunEnds, IInv, TypeOK
<1> QED  BY <1>1, <1>2, <1>3, <1>4, RunStep DEF Stages

\* The timer or the server cancels the run.
LEMMA CancelRunStep ==
  ASSUME IInv, NEW r \in Requests, NEW to \in {"timing out", "dropped"},
         to = "timing out" => DOMAIN results[r] # {}, CancelRun(r, to)
  PROVE  IInv'
<1>1. UnderWay(r) /\ stage[r] # "idle"
  BY DEF CancelRun, UnderWay
<1>2. results[r] \in Seq(ResultValues) /\ DOMAIN results[r] = 1..Len(results[r]) /\ Len(results[r]) \in Nat
  BY <1>1, RouteOfRun DEF IInv, TypeOK, ResultValues
<1> DEFINE Res(k) == IF k \notin ToCancel(r) THEN results[r][k]
                     ELSE IF results[r][k] = "asking" THEN "unwinding" ELSE "cancelled"
<1>3. ASSUME NEW k \in 1..Len(results[r])
      PROVE  Res(k) \in ResultValues
  <2>1. results[r][k] \in ResultValues
    BY <1>2, ElementOfSeq
  <2> QED  BY <2>1 DEF ResultValues
<1>4. results' = [results EXCEPT ![r] = [k \in DOMAIN results[r] |-> Res(k)]]
  BY DEF CancelRun
<1> HIDE DEF Res
<1>5. [k \in 1..Len(results[r]) |-> Res(k)] \in Seq(ResultValues)
  <2>1. [k \in 1..Len(results[r]) |-> Res(k)] \in [1..Len(results[r]) -> ResultValues]
    BY <1>3
  <2> QED  BY <1>2, <2>1, FunctionIsSeq
<1>6. PICK res \in Seq(ResultValues) :
        DOMAIN res = DOMAIN results[r] /\ results' = [results EXCEPT ![r] = res]
  BY <1>2, <1>4, <1>5
<1>7. PICK rep \in Seq(ReportValues) : rep = report[r] /\ report' = [report EXCEPT ![r] = rep]
  BY DEF CancelRun, IInv, TypeOK, ReportValues
<1>8. stage' = [stage EXCEPT ![r] = to] /\ UNCHANGED <<route, client>> /\ OnlyRequests
  BY DEF CancelRun
<1> QED  BY <1>1, <1>6, <1>7, <1>8, RunStep DEF Stages

LEMMA RunTimesOutStep ==
  ASSUME IInv, NEW r \in Requests, RunTimesOut(r)
  PROVE  IInv'
<1>0. UnderWay(r) /\ stage[r] # "idle" /\ DOMAIN results[r] # {}
  BY DEF RunTimesOut, UnderWay, IInv, ReportsFit
<1>1. CASE Policy(route[r]).mode = "reporting"
  <2>1. PICK res \in Seq(ResultValues) : res = results[r]
    BY DEF IInv, TypeOK, ResultValues
  <2>2. DOMAIN results[r] = 1..Len(results[r]) /\ Len(results[r]) \in Nat
    BY <1>0, RouteOfRun
  <2>3. PICK rep \in Seq(ReportValues) : rep = TimeoutResults(r)
    <3>1. [k \in 1..Len(results[r]) |-> "timeout"] \in Seq(ReportValues)
      BY <2>2 DEF ReportValues
    <3> QED  BY <2>2, <3>1 DEF TimeoutResults
  <2>4. DOMAIN rep = DOMAIN res /\ \A k \in DOMAIN rep : rep[k] = "timeout"
    BY <2>1, <2>3 DEF TimeoutResults
  <2>5. /\ stage' = [stage EXCEPT ![r] = "timed out"]
        /\ results' = [results EXCEPT ![r] = res] /\ report' = [report EXCEPT ![r] = rep]
        /\ UNCHANGED <<route, client>> /\ OnlyRequests
    BY <1>1, <2>1, <2>3 DEF RunTimesOut, IInv, TypeOK
  <2> QED  BY <1>0, <2>1, <2>4, <2>5, RunStep DEF Stages
<1>2. CASE Policy(route[r]).mode # "reporting"
  BY <1>2, DoneStep DEF RunTimesOut
<1> QED  BY <1>1, <1>2

-----------------------------------------------------------------------------
(* The shutdown *)

\* No request moves, and no client opens.
LEMMA ShutdownFrame ==
  ASSUME IInv, OnlyShutdown,
         client' \in [Checks -> {"none", "open"}],
         \A c \in Checks : client'[c] = "open" => client[c] = "open",
         shutdown' \in {"idle", "closing", "grace"},
         todo' \subseteq Places, closed_ids' \subseteq Checks, stuck' \subseteq Checks,
         swept' \in {"no", "so far", "yes"}, Sweeping', Swept'
  PROVE  IInv'
<1>1. TypeOK'
  BY DEF IInv, TypeOK, OnlyShutdown
<1>2. RequestsFit' /\ ReportsFit'
  <2>1. route' = route /\ stage' = stage /\ results' = results /\ report' = report
    BY DEF OnlyShutdown
  <2>2. RequestsFit'
    BY <2>1 DEF IInv, RequestsFit, ChecksOf
  <2>3. ReportsFit'
    <3> SUFFICES ASSUME NEW r \in Requests
                 PROVE  ReportsFit!(r)'
      BY DEF ReportsFit
    <3> QED  BY <2>1 DEF IInv, ReportsFit, AllAnswered
  <2> QED  BY <2>2, <2>3
<1>3. OpenAreListed'
  <2> SUFFICES ASSUME NEW c \in Checks, client'[c] = "open"
               PROVE  c \in Resources /\ \E place \in Places : CheckAt(place) = c
    BY DEF OpenAreListed, Places, CheckAt
  <2> QED  BY DEF IInv, OpenAreListed
<1> QED  BY <1>1, <1>2, <1>3 DEF IInv

LEMMA ShutdownStep ==
  ASSUME IInv, Shutdown
  PROVE  IInv'
<1>1. swept' = "so far" => NobodyRuns'
  BY DEF Shutdown, OnlyShutdown, NobodyRuns, UnderWay
<1>2. /\ todo' = Places /\ closed_ids' = {} /\ stuck' = {} /\ client' = client
      /\ swept' \in {"so far", "no"} /\ shutdown' = "closing" /\ OnlyShutdown
  BY DEF Shutdown
<1>3. Sweeping' /\ Swept'
  <2>1. Places' \ todo' = {}
    BY <1>2 DEF Places
  <2> QED  BY <1>1, <1>2, <2>1 DEF Sweeping, Swept
<1> QED  BY <1>2, <1>3, ShutdownFrame DEF IInv, TypeOK

LEMMA CloseNextStep ==
  ASSUME IInv, CloseNext
  PROVE  IInv'
<1>1. PICK place \in todo : todo' = todo \ {place} /\ Walk(CheckAt(place))
  BY DEF CloseNext, CheckAt
<1>2. PICK c \in Checks : c = CheckAt(place)
  BY PlacesTyped DEF IInv, TypeOK
<1>3. /\ closed_ids' = closed_ids \union {c} /\ stuck \subseteq stuck' /\ stuck' \subseteq Checks
      /\ client' \in [Checks -> {"none", "open"}]
      /\ \A d \in Checks : client'[d] = "open" => client[d] = "open"
  BY <1>1, <1>2 DEF Walk, IInv, TypeOK
<1>4. c \in Resources \ closed_ids /\ client'[c] = "open" => c \in stuck'
  BY <1>1, <1>2 DEF Walk, IInv, TypeOK
<1>5. OnlyShutdown /\ UNCHANGED <<shutdown, swept>> /\ shutdown = "closing"
  BY DEF CloseNext
<1>6. NobodyRuns => NobodyRuns'
  BY <1>5 DEF NobodyRuns, UnderWay, OnlyShutdown
<1>7. Sweeping'
  <2> SUFFICES ASSUME swept = "so far"
               PROVE  /\ \A x \in Places \ todo' : CheckAt(x) \in closed_ids'
                      /\ \A d \in closed_ids' \intersect Resources :
                           client'[d] = "open" => d \in stuck'
    BY <1>5, <1>6 DEF Sweeping, IInv
  <2>1. \A x \in Places \ todo' : CheckAt(x) \in closed_ids'
    BY <1>1, <1>2, <1>3 DEF IInv, Sweeping
  <2>2. ASSUME NEW d \in closed_ids' \intersect Resources, client'[d] = "open"
        PROVE  d \in stuck'
    <3>1. CASE d \in closed_ids
      BY <1>3, <2>2, <3>1 DEF IInv, Sweeping, TypeOK
    <3>2. CASE d \notin closed_ids
      BY <1>3, <1>4, <2>2, <3>2
    <3> QED  BY <3>1, <3>2
  <2> QED  BY <2>1, <2>2
<1>8. Swept'
  BY <1>5 DEF IInv, Swept
<1> QED  BY <1>1, <1>3, <1>5, <1>7, <1>8, ShutdownFrame DEF IInv, TypeOK

\* The walk is over, and with it, perhaps, the call.
LEMMA ShutdownEndsStep ==
  ASSUME IInv, ShutdownEnds, shutdown # "idle", swept = "so far" => todo = {}
  PROVE  IInv'
<1>1. NobodyRuns => NobodyRuns'
  BY DEF ShutdownEnds, OnlyShutdown, NobodyRuns, UnderWay
<1>2. swept = "so far" => ShutdownLeavesNothing'
  <2> SUFFICES ASSUME swept = "so far", NEW c \in Resources, client[c] = "open"
               PROVE  c \in stuck
    BY DEF ShutdownEnds, ShutdownLeavesNothing
  <2>1. PICK place \in Places : CheckAt(place) = c
    BY ResourceAssumption DEF IInv, OpenAreListed
  <2>2. c \in closed_ids
    BY <2>1 DEF IInv, Sweeping
  <2> QED  BY <2>2 DEF IInv, Sweeping
<1>3. Sweeping' /\ Swept'
  BY <1>1, <1>2 DEF ShutdownEnds, IInv, TypeOK, Sweeping, Swept
<1> QED  BY <1>3, ShutdownFrame DEF ShutdownEnds, IInv, TypeOK

LEMMA WalkEndsStep ==
  ASSUME IInv, WalkEnds
  PROVE  IInv'
<1>1. CASE ShutdownEnds
  BY <1>1, ShutdownEndsStep DEF WalkEnds
<1>2. CASE ~ShutdownEnds
  <2>1. /\ shutdown' = "grace" /\ todo = {} /\ OnlyShutdown
        /\ UNCHANGED <<client, todo, closed_ids, stuck, swept>> /\ shutdown = "closing"
    BY <1>2 DEF WalkEnds
  <2>2. Sweeping' /\ Swept'
    BY <2>1 DEF IInv, Sweeping, Swept, NobodyRuns, UnderWay, OnlyShutdown
  <2> QED  BY <2>1, <2>2, ShutdownFrame DEF IInv, TypeOK
<1> QED  BY <1>1, <1>2

LEMMA ShutdownCancelledStep ==
  ASSUME IInv, ShutdownCancelled
  PROVE  IInv'
<1>1. Sweeping' /\ Swept'
  BY DEF ShutdownCancelled, Sweeping, Swept
<1> QED  BY <1>1, ShutdownFrame DEF ShutdownCancelled, IInv, TypeOK

LEMMA GraceEndsStep ==
  ASSUME IInv, GraceEnds
  PROVE  IInv'
BY ShutdownEndsStep DEF GraceEnds, IInv, Sweeping

-----------------------------------------------------------------------------
(* The invariant holds *)

LEMMA StutterStep ==
  ASSUME IInv, UNCHANGED vars
  PROVE  IInv'
<1>1. TypeOK'
  BY DEF vars, IInv, TypeOK
<1>2. RequestsFit' /\ ReportsFit' /\ OpenAreListed'
  BY DEF vars, IInv, RequestsFit, ReportsFit, AllAnswered, OpenAreListed, ChecksOf
<1>3. Sweeping' /\ Swept'
  BY DEF vars, IInv, Sweeping, Swept, NobodyRuns, UnderWay, ShutdownLeavesNothing
<1> QED  BY <1>1, <1>2, <1>3 DEF IInv

LEMMA NextStep ==
  ASSUME IInv, Next
  PROVE  IInv'
<1>1. ASSUME NEW r \in Requests,
             \/ Request(r) \/ RunEnds(r) \/ TimerFires(r) \/ RunTimesOut(r)
             \/ RequestCancelled(r) \/ RequestEnds(r) \/ Respond(r)
             \/ \E k \in DOMAIN results[r] :
                  CheckStarts(r, k) \/ CheckAnswers(r, k) \/ CheckUnwinds(r, k)
      PROVE  IInv'
  <2>1. CASE Request(r) \/ RunEnds(r) \/ RunTimesOut(r)
    BY <2>1, RequestStep, RunEndsStep, RunTimesOutStep
  <2>2. CASE TimerFires(r) \/ RequestCancelled(r)
    BY <2>2, CancelRunStep DEF TimerFires, RequestCancelled
  <2>3. CASE RequestEnds(r) \/ Respond(r)
    BY <2>3, DoneStep DEF RequestEnds, Respond
  <2>4. CASE \E k \in DOMAIN results[r] :
               CheckStarts(r, k) \/ CheckAnswers(r, k) \/ CheckUnwinds(r, k)
    BY <2>4, CheckStartsStep, CheckAnswersStep
  <2> QED  BY <1>1, <2>1, <2>2, <2>3, <2>4
<1>2. CASE Shutdown \/ CloseNext \/ WalkEnds \/ GraceEnds \/ ShutdownCancelled
  BY <1>2, ShutdownStep, CloseNextStep, WalkEndsStep, GraceEndsStep, ShutdownCancelledStep
<1> QED  BY <1>1, <1>2 DEF Next

LEMMA Invariant == Spec => []IInv
<1>1. Init => IInv
  BY InitInvariant
<1>2. IInv /\ [Next]_vars => IInv'
  BY NextStep, StutterStep
<1> QED  BY <1>1, <1>2, PTL DEF Spec

-----------------------------------------------------------------------------

\* The variables keep their types, and every route has a policy that RunPolicy
\* accepts, whatever timeout its options give.
THEOREM TypeCorrect == Spec => []TypeOK
<1>1. IInv => TypeOK
  BY DEF IInv
<1> QED  BY <1>1, Invariant, PTL

\* A shutdown that no run disturbs leaves no client open but those whose own
\* aclose() has raised.
THEOREM ShutdownClosesAll == Spec => []ShutdownLeavesNothing
<1>1. IInv => ShutdownLeavesNothing
  BY DEF IInv, Swept, ShutdownLeavesNothing
<1> QED  BY <1>1, Invariant, PTL

-----------------------------------------------------------------------------
(* Responses *)

\* What the property says of a run: those of its checks that have answered well,
\* and whether they are enough.
Well(r) == {k \in DOMAIN results[r] : results[r][k] = "healthy"}
Enough(r) ==
    IF Policy(route[r]).health_evaluation = "partial_allowed"
    THEN Well(r) # {} ELSE Well(r) = DOMAIN Probes[route[r].probe]

\* A report is healthy if it is of a run whose checks have answered well enough.
LEMMA HealthyMeansEnough ==
  ASSUME IInv, NEW r \in Requests, Reporting(r)
  PROVE  ReportHealthy(r) <=> Enough(r) /\ stage[r] # "timed out"
<1>1. DOMAIN results[r] = DOMAIN Probes[route[r].probe]
  BY DEF IInv, RequestsFit, Reporting, ChecksOf
<1>2. CASE stage[r] = "timed out"
  BY <1>2 DEF IInv, ReportsFit, ReportHealthy
<1>3. CASE stage[r] = "reporting"
  <2>1. report[r] = results[r]
    BY <1>3 DEF IInv, ReportsFit
  <2>2. (\E k \in DOMAIN results[r] : results[r][k] = "healthy") <=> Well(r) # {}
    BY DEF Well
  <2>3. (\A k \in DOMAIN results[r] : results[r][k] = "healthy") <=> Well(r) = DOMAIN results[r]
    BY DEF Well
  <2> QED  BY <1>1, <1>3, <2>1, <2>2, <2>3 DEF ReportHealthy, Enough
<1> QED  BY <1>2, <1>3 DEF Reporting

\* What a response is made of.
LEMMA ResponseParts ==
  ASSUME NEW r \in Requests
  PROVE  /\ Response(r).status \in {500, IF ReportHealthy(r) THEN route[r].options.success_status
                                         ELSE route[r].options.failure_status}
         /\ Response(r).body => Response(r).status \notin {204, 304}
         /\ \A path \in Response(r).shown :
              path \in redact_secrets(ReportData(r)) /\ Serializable(path)
<1> DEFINE options == route[r].options
           healthy == ReportHealthy(r)
           status  == IF healthy THEN options.success_status ELSE options.failure_status
           handler == IF healthy THEN options.success_handler ELSE options.failure_handler
           needed  == ContentNeeded(status, healthy)
           content == IF ~needed THEN "None"
                      ELSE IF options.debug /\ ~healthy THEN "data" ELSE handler
           shown   == IF content = "data" THEN redact_secrets(ReportData(r)) ELSE {}
           fine    == /\ needed => \A path \in ReportMeta(r) : Copyable(path)
                      /\ content # "raises"
                      /\ \A path \in shown : Serializable(path)
           answer  == [status |-> status, body |-> content # "None", shown |-> shown]
           error   == [status |-> 500, body |-> FALSE, shown |-> {}]
<1>1. Response(r) = IF fine THEN answer ELSE error
  BY DEF Response
<1>2. content # "None" => status \notin {204, 304}
  BY DEF ContentNeeded
<1>3. \A path \in shown : path \in redact_secrets(ReportData(r))
  OBVIOUS
<1>6. fine => \A path \in shown : Serializable(path)
  OBVIOUS
<1> HIDE DEF content, shown, handler, status, needed, fine
<1>4. CASE fine
  <2>1. Response(r) = answer
    BY <1>1, <1>4
  <2>2. Response(r).status = status /\ Response(r).shown = shown
    BY <2>1
  <2>3. Response(r).body => content # "None"
    <3> DEFINE b == content # "None"
    <3>1. Response(r) = [status |-> status, body |-> b, shown |-> shown]
      BY <2>1
    <3> HIDE DEF b
    <3>2. Response(r).body = b
      BY <3>1
    <3>3. b => content # "None"
      BY DEF b
    <3> QED  BY <3>2, <3>3
  <2> QED  BY <1>2, <1>3, <1>4, <1>6, <2>2, <2>3 DEF status
<1>5. CASE ~fine
  BY <1>1, <1>5
<1> QED  BY <1>4, <1>5

\* A response tells what its run has come to: the success status means that the
\* checks have answered well enough and the run has not timed out, the failure
\* status that they have not or it has, where the two statuses can be told from
\* each other and from the 500 of a framework.
THEOREM ResponsesTell ==
  ASSUME \A rt \in Routes :
           /\ rt.options.success_status # rt.options.failure_status
           /\ 500 \notin {rt.options.success_status, rt.options.failure_status}
  PROVE  Spec => []ResponseTellsReport
<1>1. IInv => ResponseTellsReport
  <2> SUFFICES ASSUME IInv, NEW r \in Requests, Reporting(r)
               PROVE  /\ Response(r).status = route[r].options.success_status =>
                           Enough(r) /\ ~(stage[r] = "timed out")
                      /\ Response(r).status = route[r].options.failure_status =>
                           ~Enough(r) \/ stage[r] = "timed out"
                      /\ Response(r).body => Response(r).status \notin {204, 304}
    BY DEF ResponseTellsReport, Enough, Well
  <2>1. route[r] \in Routes
    BY DEF IInv, RequestsFit, Reporting
  <2>2. ReportHealthy(r) <=> Enough(r) /\ stage[r] # "timed out"
    BY HealthyMeansEnough
  <2>3. /\ Response(r).status \in {500, IF ReportHealthy(r) THEN route[r].options.success_status
                                       ELSE route[r].options.failure_status}
        /\ Response(r).body => Response(r).status \notin {204, 304}
    BY ResponseParts
  <2> HIDE DEF Enough
  <2>4. CASE ReportHealthy(r)
    <3>1. Response(r).status # route[r].options.failure_status
      BY <2>1, <2>3, <2>4
    <3> QED  BY <2>2, <2>3, <2>4, <3>1
  <2>5. CASE ~ReportHealthy(r)
    <3>1. Response(r).status # route[r].options.success_status
      BY <2>1, <2>3, <2>5
    <3> QED  BY <2>2, <2>3, <2>5, <3>1
  <2> QED  BY <2>4, <2>5
<1> QED  BY <1>1, Invariant, PTL

\* The least-number principle, from the set form of WellFoundedInduction.
LEMMA LeastOf ==
  ASSUME NEW S \in SUBSET Nat, S # {}
  PROVE  \E n \in S : \A m \in S : ~(m < n)
<1> DEFINE R == OpToRel(<, Nat)
<1>1. ASSUME NEW a \in Nat, NEW b \in Nat, a < b PROVE <<a, b>> \in R
  <2>1. <<a, b>> \in Nat \X Nat /\ <<a, b>>[1] < <<a, b>>[2]
    BY <1>1
  <2> QED  BY <2>1 DEF OpToRel
<1>2. IsWellFoundedOn(R, Nat)
  BY NatLessThanWellFounded
<1> HIDE DEF R
<1>3. PICK n \in S : \A m \in S : ~(<<m, n>> \in R)
  BY <1>2, WFMin
<1>4. ASSUME NEW m \in S, m < n PROVE FALSE
  <2>1. m \in Nat /\ n \in Nat
    OBVIOUS
  <2>2. <<m, n>> \in R
    BY <1>1, <1>4, <2>1
  <2> QED  BY <1>3, <2>2
<1> QED  BY <1>4

LEMMA Earlier ==
  \A n \in Nat : /\ 1..n \in SUBSET Nat
                /\ \A i \in 1..n : \A j \in 1..(i - 1) : j \in 1..n /\ j < i
OBVIOUS

\* The walk comes to the first secret key of what JSON knows.
LEMMA SerializableRedacted ==
  ASSUME NEW n \in Nat, NEW path \in [1..n -> {"key", "secret key", "list", "tuple"}],
         NEW k \in 1..n, path[k] = "secret key"
  PROVE  Redacted(path)
<1> DEFINE S == {j \in 1..n : path[j] = "secret key"}
<1>1. k \in S /\ S \subseteq 1..n
  OBVIOUS
<1>2. 1..n \in SUBSET Nat
  BY Earlier
<1>3. \A j \in 1..n : j \notin S => path[j] \in {"key", "list", "tuple"}
  OBVIOUS
<1>4. \A j \in S : path[j] = "secret key"
  OBVIOUS
<1>5. DOMAIN path = 1..n
  OBVIOUS
<1> HIDE DEF S
<1>6. PICK i \in S : \A j \in S : ~(j < i)
  BY <1>1, <1>2, LeastOf
<1>7. \A j \in 1..(i - 1) : j \in 1..n /\ j < i
  BY <1>1, Earlier
<1>8. \A j \in 1..(i - 1) : Walked(path[j])
  BY <1>3, <1>6, <1>7 DEF Walked
<1> QED  BY <1>1, <1>4, <1>5, <1>8 DEF Redacted

\* Nothing that a secret key or field holds is shown, however deep it lies.
THEOREM SecretsStayHidden == Spec => []SecretsHidden
<1>1. IInv => SecretsHidden
  <2> SUFFICES ASSUME IInv, NEW r \in Requests, Reporting(r), NEW shown \in Response(r).shown,
                      NEW k \in DOMAIN shown
               PROVE  shown[k] \notin {"secret key", "secret field"}
    BY DEF SecretsHidden
  <2>1. shown \in ReportData(r) /\ ~Redacted(shown) /\ Serializable(shown)
    BY ResponseParts DEF redact_secrets
  <2>2. PICK j \in DOMAIN results[r] : \E path \in HealthErrorMeta(ChecksOf(r)[j]) : shown = AsDict(path)
    <3>1. DOMAIN report[r] = DOMAIN results[r]
      BY DEF IInv, ReportsFit, Reporting
    <3> QED  BY <2>1, <3>1 DEF ReportData, ReportMeta
  <2>3. PICK path \in MetaOf[ChecksOf(r)[j]] : shown = AsDict(path)
    BY <2>2 DEF HealthErrorMeta, redact_secrets
  <2>4. ChecksOf(r)[j] \in Checks
    BY RoutesTyped, ProbesTyped DEF IInv, RequestsFit, ChecksOf, Reporting
  <2>5. path \in Seq(Step)
    BY <2>3, <2>4, MetaAssumption
  <2>6. /\ Len(path) \in Nat /\ DOMAIN path = 1..Len(path)
    BY <2>5, LenProperties
  <2>8. shown = [i \in 1..Len(path) |-> shown[i]] /\ DOMAIN shown = 1..Len(path)
    BY <2>3, <2>6 DEF AsDict
  <2>9. shown \in [1..Len(path) -> {"key", "secret key", "list", "tuple"}]
    BY <2>1, <2>8 DEF Serializable
  <2>7. shown[k] # "secret key"
    BY <2>1, <2>6, <2>8, <2>9, SerializableRedacted
  <2> QED  BY <2>1, <2>7 DEF Serializable
<1> QED  BY <1>1, Invariant, PTL
=============================================================================
