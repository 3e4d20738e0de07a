----------------------- MODULE ProbeExecutionProofs -----------------------
(***************************************************************************)
(* Proofs about ProbeExecution, for any number of checks, any set of calls *)
(* of run_probe and every behaviour of the checks it allows.               *)
(***************************************************************************)
EXTENDS ProbeExecution, TLAPS, FiniteSetTheorems, SequenceTheorems

ActiveChecks == {i \in Checks : check[i] \in Active}
DoneChecks   == {i \in Checks : check[i] = "done"}

\* The hook before and after a check, cancelled or not.
StartHooks == {"startHook", "startUnwinding"}
EndHooks   == {"endHook", "endUnwinding"}
Unwinding  == {"startUnwinding", "endUnwinding"}
USE DEF StartHooks, EndHooks, Unwinding, HookPhases

(***************************************************************************)
(* The inductive invariant.  That a report is complete and in order rests  *)
(* on the shape of a run that awaits its checks in turn (InTurnShape), and *)
(* on gather's rule in the other case (ResultsMeanDone); that permits are  *)
(* not lost, on counting the checks under way.                             *)
(***************************************************************************)

\* The checks before the one in turn have answered, in their order, those after
\* it have not begun; only the one in turn can be under way, or be asked to end.
InTurnShape ==
    Direct =>
      /\ inner = "pending" =>
           /\ at.phase # "none" /\ at.index \in Checks
           /\ \A j \in Checks : j < at.index => check[j] = "done"
           /\ \A j \in Checks : j > at.index => check[j] = "pending"
           /\ at.phase \in StartHooks => check[at.index] = "pending"
           /\ at.phase = "check" => check[at.index] \in Active
           /\ at.phase \in EndHooks => check[at.index] = "done"
           /\ Len(order) = IF at.phase \in EndHooks THEN at.index ELSE at.index - 1
      /\ inner # "pending" => \A j \in Checks : check[j] \notin Active
      /\ inner = "results" => Len(order) = N
      /\ \A k \in 1..Len(order) : order[k] = k
      /\ asked # {} =>
           /\ inner = "pending" /\ at.phase = "check"
           /\ asked = {at.index} /\ check[at.index] = "running"

ParallelShape == ~Direct => at.phase = "none"

ResultsMeanDone == inner = "results" => \A j \in Checks : check[j] = "done"

OrderCounts == Len(order) = Cardinality(DoneChecks)

\* Nobody is asked to end before the run is cancelled.
NobodyAsked ==
    cause = "none" =>
      asked = {} /\ at.phase \notin Unwinding /\ \A j \in Checks : check[j] # "unwinding"

\* PROBE_TIMEOUT and HealthCheckTimeoutError come only from the timer, or from a
\* hook that raises TimeoutError.
TimeoutMeansTimer ==
    run \in {"timeoutReport", "timeoutRaised"} => cause = "timer" \/ inner = "timeoutError"

Reported ==
    /\ ReportInOrder /\ TimeoutMeansTimer
    /\ run # "running" => inner # "pending"
    /\ run = "returned" => inner = "results"

\* A cancellation reaches every check that could still start, as long as no check
\* ends gather by a cancellation of its own, or goes on after one.
CancelReaches ==
    /\ ~SelfCancels /\ ~Direct =>
         /\ cause = "none" => /\ inner \in {"pending", "results"}
                              /\ \A j \in Checks : check[j] # "cancelled"
         /\ cause # "none" => \A j \in Checks : check[j] = "pending" => j \in asked
    /\ ~Swallows /\ Direct /\ cause # "none" /\ inner = "pending" =>
         \/ at.phase \in Unwinding
         \/ at.phase = "check" /\ (asked = {at.index} \/ check[at.index] = "unwinding")

IInv ==
    /\ TypeOK
    /\ InTurnShape /\ ParallelShape
    /\ ResultsMeanDone /\ OrderCounts /\ ConcurrencyCapped
    /\ NobodyAsked /\ Reported /\ CancelReaches
-----------------------------------------------------------------------------
(* Counting, and what the definitions say of a well-typed state *)

LEMMA ChecksCounted ==
  ASSUME NEW S \in SUBSET Checks
  PROVE  IsFiniteSet(S) /\ Cardinality(S) \in 0..N
<1>1. IsFiniteSet(Checks) /\ Cardinality(Checks) = N
  BY SizeAssumption, FS_Interval DEF Checks
<1>2. IsFiniteSet(S) /\ Cardinality(S) <= N
  BY <1>1, FS_Subset
<1> QED  BY <1>2, FS_CardinalityType, SizeAssumption

LEMMA OneMore ==
  ASSUME NEW S \in SUBSET Checks, NEW i \in Checks \ S
  PROVE  Cardinality(S \union {i}) = Cardinality(S) + 1
BY ChecksCounted, FS_AddElement

LEMMA OneLess ==
  ASSUME NEW S \in SUBSET Checks, NEW i \in S
  PROVE  Cardinality(S \ {i}) = Cardinality(S) - 1
BY ChecksCounted, FS_RemoveElement

LEMMA ArgumentsTyped ==
  ASSUME TypeOK
  PROVE  args.cap \in Nat \ {0} /\ Direct \in BOOLEAN /\ InTurn \in BOOLEAN
BY CallsAssumption DEF TypeOK, Arguments, Direct, InTurn

LEMMA Names ==
  /\ States = {"pending", "running", "unwinding", "done", "cancelled"}
  /\ Active = {"running", "unwinding"} /\ Settled = {"done", "cancelled"}
  /\ FirstPhase \in {"startHook", "check"}
  /\ Phases = {"none", "check"} \union StartHooks \union EndHooks
BY DEF States, Active, Settled, FirstPhase, Phases, HookPhases

-----------------------------------------------------------------------------
(* The initial states *)

LEMMA InitInvariant == Init => IInv
<1> SUFFICES ASSUME Init PROVE IInv
  OBVIOUS
<1> USE SizeAssumption DEF Checks
<1>1. args \in Arguments
  BY CallsAssumption DEF Init
<1>2. TypeOK
  <2>1. at \in [index : 0..N, phase : Phases]
    BY Names DEF Init, Phases
  <2>2. order \in Seq(Checks) /\ Len(order) = 0 /\ report \in Seq(Results)
    BY DEF Init
  <2>3. permits \in 0..args.cap
    BY <1>1 DEF Init, Arguments
  <2> QED  BY <2>1, <2>2, <2>3, Names DEF Init, TypeOK, Answers, Inner, Outcomes
<1>3. InTurnShape
  BY Names DEF Init, InTurnShape
<1>4. DoneChecks = {} /\ (~Direct => ActiveChecks = {})
  BY Names DEF Init, DoneChecks, ActiveChecks
<1>5. OrderCounts /\ ConcurrencyCapped
  <2>1. Cardinality({}) = 0
    BY FS_EmptySet
  <2>2. args.cap \in Nat
    BY <1>1 DEF Arguments
  <2>3. OrderCounts
    BY <1>4, <2>1 DEF Init, OrderCounts
  <2>4. ~Direct => Cardinality(ActiveChecks) = args.cap - permits
    <3>1. permits = args.cap
      BY DEF Init
    <3> QED  BY <1>4, <2>1, <2>2, <3>1
  <2> QED  BY <2>3, <2>4 DEF ConcurrencyCapped, ActiveChecks
<1>6. ParallelShape /\ ResultsMeanDone /\ NobodyAsked /\ Reported /\ CancelReaches
  BY Names DEF Init, ParallelShape, ResultsMeanDone, NobodyAsked, Reported, CancelReaches,
     ReportInOrder, TimeoutMeansTimer, Direct
<1> QED  BY <1>2, <1>3, <1>5, <1>6 DEF IInv
-----------------------------------------------------------------------------
(* What an end of a check leaves as it is *)

LEMMA SameCall ==
  ASSUME args' = args
  PROVE  Direct' = Direct /\ InTurn' = InTurn /\ FirstPhase' = FirstPhase
BY DEF Direct, InTurn, FirstPhase

\* The check in turn is the only one under way.
LEMMA TurnOf ==
  ASSUME IInv, Direct, NEW i \in Checks, check[i] \in Active
  PROVE  /\ inner = "pending" /\ run = "running"
         /\ i = at.index /\ at.phase = "check" /\ Len(order) = i - 1
<1>1. inner = "pending"
  BY DEF IInv, InTurnShape
<1>2. at.index \in Checks
  BY <1>1 DEF IInv, InTurnShape
<1>3. i = at.index
  <2>1. ~(i < at.index) /\ ~(i > at.index)
    BY <1>1, Names DEF IInv, InTurnShape
  <2> QED  BY <1>2, <2>1, SizeAssumption DEF Checks
<1>4. at.phase = "check"
  <2>1. at.phase \in Phases
    BY DEF IInv, TypeOK
  <2> QED  BY <1>1, <1>3, <2>1, Names DEF IInv, InTurnShape, Phases
<1> QED  BY <1>1, <1>3, <1>4 DEF IInv, InTurnShape, Reported

LEMMA CheckMoves ==
  ASSUME TypeOK, NEW i \in Checks, NEW s \in States, check' = [check EXCEPT ![i] = s]
  PROVE  /\ check' \in [Checks -> States] /\ check'[i] = s
         /\ \A j \in Checks : j # i => check'[j] = check[j]
         /\ ActiveChecks' = IF s \in Active THEN ActiveChecks \union {i} ELSE ActiveChecks \ {i}
         /\ DoneChecks' = IF s = "done" THEN DoneChecks \union {i} ELSE DoneChecks \ {i}
BY DEF TypeOK, ActiveChecks, DoneChecks

\* A report that is out stays true.
LEMMA ReportKept ==
  ASSUME Reported, UNCHANGED <<run, report, cause>>,
         run # "running" => inner' = inner,
         run = "returned" => UNCHANGED <<check, answer>>
  PROVE  Reported'
<1>1. ReportInOrder'
  BY DEF Reported, ReportInOrder
<1> QED  BY <1>1 DEF Reported, TimeoutMeansTimer

\* No check is under way when the results are returned.
LEMMA NotReturned ==
  ASSUME IInv, NEW i \in Checks, check[i] # "done"
  PROVE  inner # "results" /\ run # "returned"
BY DEF IInv, ResultsMeanDone, Reported

\* The semaphore, when check i leaves it for state s.
LEMMA PermitGivenBack ==
  ASSUME IInv, ~Direct, NEW i \in Checks, check[i] \in Active, NEW s \in Settled,
         check' = [check EXCEPT ![i] = s], args' = args, permits' = permits + 1
  PROVE  ConcurrencyCapped' /\ permits' \in 0..args'.cap
<1>1. ActiveChecks' = ActiveChecks \ {i} /\ i \in ActiveChecks
  BY CheckMoves, Names DEF IInv, ActiveChecks
<1>2. Cardinality(ActiveChecks') = Cardinality(ActiveChecks) - 1
  BY <1>1, OneLess DEF ActiveChecks
<1>3. Cardinality(ActiveChecks) = args.cap - permits
  BY DEF IInv, ConcurrencyCapped, ActiveChecks
<1>4. args.cap \in Nat /\ permits \in 0..args.cap
  BY ArgumentsTyped DEF IInv, TypeOK
<1>5. Cardinality(ActiveChecks') \in Nat
  BY <1>1, ChecksCounted DEF ActiveChecks
<1>6. Cardinality(ActiveChecks') = args'.cap - permits'
  BY <1>2, <1>3, <1>4, SizeAssumption
<1> QED  BY <1>4, <1>5, <1>6 DEF ConcurrencyCapped, ActiveChecks

-----------------------------------------------------------------------------
(* A check ends with a result *)

LEMMA AnswersCounted ==
  ASSUME IInv, NEW i \in Checks, check[i] \in Active,
         order' = Append(order, i), DoneChecks' = DoneChecks \union {i}
  PROVE  /\ OrderCounts' /\ order' \in Seq(Checks) /\ Len(order') <= N
         /\ Len(order') = Len(order) + 1 /\ order'[Len(order) + 1] = i
         /\ \A k \in 1..Len(order) : order'[k] = order[k]
<1>1. order \in Seq(Checks)
  BY DEF IInv, TypeOK
<1>2. i \notin DoneChecks
  BY Names DEF DoneChecks
<1>3. Cardinality(DoneChecks') = Cardinality(DoneChecks) + 1
  BY <1>2, OneMore DEF DoneChecks
<1>4. Len(order) = Cardinality(DoneChecks) /\ Len(order') = Len(order) + 1
  BY <1>1 DEF IInv, OrderCounts
<1>5. Cardinality(DoneChecks') \in 0..N
  BY ChecksCounted DEF DoneChecks
<1> QED  BY <1>1, <1>3, <1>4, <1>5, SizeAssumption DEF OrderCounts

LEMMA EndsWithParallel ==
  ASSUME IInv, ~Direct, NEW i \in Checks, check[i] \in Active,
         NEW a \in {"healthy", "error"}, EndsWith(i, a)
  PROVE  IInv'
<1>0. Direct' = Direct /\ args' = args
  BY SameCall DEF EndsWith
<1>1. /\ check' = [check EXCEPT ![i] = "done"] /\ inner' = Gathered(i, "done")
      /\ asked' = asked \ {i} /\ permits' = permits + 1
      /\ UNCHANGED <<at, cause, run, report>>
  BY DEF EndsWith, Leaves
<1>2. /\ check' \in [Checks -> States] /\ check'[i] = "done"
      /\ \A j \in Checks : j # i => check'[j] = check[j]
      /\ DoneChecks' = DoneChecks \union {i}
  BY <1>1, CheckMoves, Names DEF IInv
<1>3. OrderCounts' /\ order' \in Seq(Checks) /\ Len(order') <= N
  BY <1>2, AnswersCounted DEF EndsWith
<1>4. ConcurrencyCapped' /\ permits' \in 0..args'.cap
  BY <1>0, <1>1, PermitGivenBack, Names
<1>5. /\ inner' \in Inner
      /\ inner # "pending" => inner' = inner
      /\ inner' = "results" => inner = "pending" /\ \A j \in Checks : check'[j] = "done"
      /\ inner = "pending" /\ cause = "none" => inner' \in {"pending", "results"}
  <2>1. inner # "results"
    BY NotReturned, Names
  <2> QED  BY <1>1, <1>2, <2>1 DEF Gathered, IInv, TypeOK, Inner
<1>6. TypeOK'
  BY <1>0, <1>1, <1>2, <1>3, <1>4, <1>5 DEF IInv, TypeOK, EndsWith, Answers
<1>7. Reported'
  BY <1>1, <1>5, NotReturned, ReportKept, Names DEF IInv, Reported
<1>8. InTurnShape' /\ ParallelShape' /\ ResultsMeanDone'
  BY <1>0, <1>1, <1>5 DEF IInv, InTurnShape, ParallelShape, ResultsMeanDone
<1>9. NobodyAsked' /\ CancelReaches'
  BY <1>0, <1>1, <1>2, <1>5 DEF IInv, NobodyAsked, CancelReaches
<1> QED  BY <1>3, <1>4, <1>6, <1>7, <1>8, <1>9 DEF IInv

\* The step from check i to the next one, or to the end, of a run in turn.
LEMMA AdvanceStep ==
  ASSUME IInv, Direct, NEW i \in Checks, NEW checkNow \in [Checks -> States],
         i = at.index, inner = "pending", checkNow[i] = "done",
         \A j \in Checks : j # i => checkNow[j] = check[j],
         Advance(i, checkNow), args' = args, asked' = {},
         UNCHANGED <<cause, run, report>>,
         order' \in Seq(Checks), Len(order') = i, \A k \in 1..Len(order') : order'[k] = k,
         answer' \in [Checks -> Answers], permits' = permits,
         cause # "none" => Swallows
  PROVE  IInv'
<1>0. Direct' = Direct /\ run = "running" /\ FirstPhase' = FirstPhase
  BY SameCall DEF IInv, Reported
<1>1. /\ \A j \in Checks : j < i => checkNow[j] = "done"
      /\ \A j \in Checks : j > i => checkNow[j] = "pending"
  BY SizeAssumption DEF IInv, InTurnShape, Checks
<1>2. CASE i = N
  <2>1. inner' = "results" /\ at' = [at EXCEPT !.phase = "none"] /\ check' = checkNow
    BY <1>2 DEF Advance
  <2>2. \A j \in Checks : check'[j] = "done"
    BY <1>1, <1>2, <2>1, SizeAssumption DEF Checks
  <2>3. at' \in [index : 0..N, phase : Phases]
    BY <2>1 DEF IInv, TypeOK, Phases
  <2>4. TypeOK'
    BY <1>0, <1>2, <2>1, <2>3, SizeAssumption DEF IInv, TypeOK, Inner, Checks
  <2>5. DoneChecks' = Checks
    BY <2>2 DEF DoneChecks
  <2>6. OrderCounts'
    BY <1>2, <2>5, SizeAssumption, FS_Interval DEF OrderCounts, Checks
  <2>7. InTurnShape' /\ ParallelShape' /\ ResultsMeanDone' /\ ConcurrencyCapped'
    BY <1>0, <1>2, <2>1, <2>2, Names
    DEF InTurnShape, ParallelShape, ResultsMeanDone, ConcurrencyCapped
  <2>8. NobodyAsked' /\ CancelReaches'
    BY <1>0, <2>1, <2>2 DEF NobodyAsked, CancelReaches
  <2>9. Reported'
    BY <1>0, <2>1, ReportKept DEF IInv
  <2> QED  BY <2>4, <2>6, <2>7, <2>8, <2>9 DEF IInv
<1>3. CASE i # N
  <2> DEFINE phase == FirstPhase
  <2>1. i + 1 \in Checks /\ i + 1 # i /\ phase \in {"startHook", "check"}
    BY <1>3, Names, SizeAssumption DEF Checks
  <2>2. at' = [index |-> i + 1, phase |-> phase] /\ inner' = inner
    BY <1>3 DEF Advance
  <2>3. /\ check' \in [Checks -> States]
        /\ check'[i + 1] = IF phase = "check" THEN "running" ELSE "pending"
        /\ \A j \in Checks : j # i + 1 => check'[j] = checkNow[j]
    <3>1. checkNow[i + 1] = "pending"
      BY <1>1, <2>1, SizeAssumption DEF Checks
    <3>2. check' = IF phase = "check" THEN [checkNow EXCEPT ![i + 1] = "running"] ELSE checkNow
      BY <1>3 DEF Advance
    <3> QED  BY <2>1, <3>1, <3>2, Names
  <2>4. /\ \A j \in Checks : j < i + 1 => check'[j] = "done"
        /\ \A j \in Checks : j > i + 1 => check'[j] = "pending"
    <3>1. \A j \in Checks : j < i + 1 => j # i + 1 /\ (j = i \/ j < i)
      BY SizeAssumption DEF Checks
    <3>2. \A j \in Checks : j > i + 1 => j # i + 1 /\ j > i
      BY SizeAssumption DEF Checks
    <3> QED  BY <1>1, <2>3, <3>1, <3>2
  <2>5. TypeOK'
    BY <1>0, <2>1, <2>2, <2>3, SizeAssumption DEF IInv, TypeOK, Phases, Checks
  <2>6. InTurnShape'
    BY <1>0, <2>1, <2>2, <2>3, <2>4, Names, SizeAssumption DEF InTurnShape, Checks
  <2>7. OrderCounts'
    <3>1. DoneChecks' = 1..i
      BY <2>1, <2>3, <2>4, SizeAssumption DEF DoneChecks, Checks
    <3> QED  BY <3>1, FS_Interval DEF OrderCounts, Checks
  <2>8. ParallelShape' /\ ResultsMeanDone' /\ ConcurrencyCapped' /\ NobodyAsked'
    BY <1>0, <2>1, <2>2, <2>3, <2>4
    DEF IInv, ParallelShape, ResultsMeanDone, ConcurrencyCapped, NobodyAsked
  <2>9. CancelReaches' /\ Reported'
    BY <1>0, ReportKept DEF IInv, CancelReaches
  <2> QED  BY <2>5, <2>6, <2>7, <2>8, <2>9 DEF IInv
<1> QED  BY <1>2, <1>3
LEMMA EndsWithInTurn ==
  ASSUME IInv, Direct, NEW i \in Checks, check[i] \in Active,
         NEW a \in {"healthy", "error"}, EndsWith(i, a), cause # "none" => Swallows,
         asked \ {i} = {}
  PROVE  IInv'
<1>0. Direct' = Direct /\ args' = args /\ run = "running"
  BY SameCall, TurnOf DEF EndsWith
<1>1. inner = "pending" /\ i = at.index /\ at.phase = "check" /\ Len(order) = i - 1
  BY TurnOf
<1> DEFINE ended == [check EXCEPT ![i] = "done"]
<1>2. /\ ended \in [Checks -> States] /\ ended[i] = "done"
      /\ \A j \in Checks : j # i => ended[j] = check[j]
      /\ ended[i] \notin Active
  BY Names DEF IInv, TypeOK
<1>3. /\ asked' = {} /\ permits' = permits /\ answer' \in [Checks -> Answers]
      /\ UNCHANGED <<cause, run, report>>
  BY DEF EndsWith, Leaves, IInv, TypeOK, Answers
<1>4. /\ order' \in Seq(Checks) /\ Len(order') = i
      /\ \A k \in 1..Len(order') : order'[k] = k
  <2>1. order \in Seq(Checks) /\ \A k \in 1..Len(order) : order[k] = k
    BY DEF IInv, TypeOK, InTurnShape
  <2> QED  BY <1>1, <2>1, SizeAssumption DEF EndsWith, Checks
<1>5. CASE args.endHook
  <2>1. check' = ended /\ at' = [at EXCEPT !.phase = "endHook"] /\ inner' = inner
    BY <1>5 DEF EndsWith
  <2>2. at' \in [index : 0..N, phase : Phases] /\ at'.index = i /\ at'.phase = "endHook"
    BY <1>1, <2>1 DEF IInv, TypeOK, Phases
  <2>3. DoneChecks' = DoneChecks \union {i}
    BY <2>1, CheckMoves, Names DEF IInv
  <2>4. OrderCounts' /\ Len(order') <= N
    BY <2>3, AnswersCounted DEF EndsWith
  <2>5. TypeOK'
    BY <1>0, <1>2, <1>3, <1>4, <2>1, <2>2, <2>4 DEF IInv, TypeOK
  <2>6. InTurnShape'
    <3> DEFINE Before == \A j \in Checks : j < i => check[j] = "done"
               After  == \A j \in Checks : j > i => check[j] = "pending"
    <3>1. Before /\ After
      BY <1>1 DEF IInv, InTurnShape
    <3>2. /\ \A j \in Checks : j < i => check'[j] = "done"
          /\ \A j \in Checks : j > i => check'[j] = "pending"
      BY <1>2, <2>1, <3>1, SizeAssumption DEF Checks
    <3> QED  BY <1>0, <1>1, <1>2, <1>3, <1>4, <2>1, <2>2, <3>2 DEF InTurnShape
  <2>7. ParallelShape' /\ ResultsMeanDone' /\ ConcurrencyCapped' /\ NobodyAsked'
    BY <1>0, <1>1, <1>2, <1>3, <2>1
    DEF IInv, ParallelShape, ResultsMeanDone, ConcurrencyCapped, NobodyAsked
  <2>8. CancelReaches' /\ Reported'
    BY <1>0, <1>3, <2>1, ReportKept DEF IInv, CancelReaches
  <2> QED  BY <2>4, <2>5, <2>6, <2>7, <2>8 DEF IInv
<1>6. CASE ~args.endHook
  <2>1. Advance(i, ended)
    BY <1>6 DEF EndsWith
  <2> HIDE DEF ended
  <2> QED  BY <1>0, <1>1, <1>2, <1>3, <1>4, <2>1, AdvanceStep
<1> QED  BY <1>5, <1>6

LEMMA AnsweredStep ==
  ASSUME IInv, NEW i \in Checks, Answered(i)
  PROVE  IInv'
<1>1. check[i] = "running" /\ i \notin asked /\ check[i] \in Active
  BY Names DEF Answered
<1>2. PICK a \in {"healthy", "error"} : EndsWith(i, a)
  BY DEF Answered
<1>3. CASE ~Direct
  BY <1>1, <1>2, <1>3, EndsWithParallel
<1>4. CASE Direct
  <2>1. inner = "pending" /\ i = at.index /\ at.phase = "check"
    BY <1>1, <1>4, TurnOf
  <2>2. asked = {}
    BY <1>1, <1>4, <2>1 DEF IInv, InTurnShape
  <2>3. cause # "none" => Swallows
    BY <1>1, <1>4, <2>1, <2>2 DEF IInv, CancelReaches
  <2> QED  BY <1>1, <1>2, <1>4, <2>2, <2>3, EndsWithInTurn
<1> QED  BY <1>3, <1>4

-----------------------------------------------------------------------------
(* A check ends cancelled *)

LEMMA NotDone ==
  ASSUME IInv, NEW i \in Checks, check[i] # "done", check' = [check EXCEPT ![i] = "cancelled"]
  PROVE  DoneChecks' = DoneChecks
<1>1. DoneChecks' = DoneChecks \ {i}
  BY CheckMoves, Names DEF IInv
<1> QED  BY <1>1 DEF DoneChecks

LEMMA EndsCancelledStep ==
  ASSUME IInv, NEW i \in Checks, EndsCancelled(i), asked' = asked \ {i},
         \/ check[i] \in Active /\ Leaves(i)
         \/ check[i] = "pending" /\ i \in asked /\ UNCHANGED permits,
         cause = "none" => SelfCancels
  PROVE  IInv'
<1>0. Direct' = Direct /\ args' = args /\ check[i] # "done"
  BY SameCall, Names DEF EndsCancelled
<1>1. /\ check' = [check EXCEPT ![i] = "cancelled"]
      /\ UNCHANGED <<answer, order, cause, run, report>>
  BY DEF EndsCancelled
<1>2. /\ check' \in [Checks -> States] /\ check'[i] = "cancelled"
      /\ \A j \in Checks : j # i => check'[j] = check[j]
  BY <1>1, CheckMoves, Names DEF IInv
<1>3. OrderCounts'
  BY <1>0, <1>1, NotDone DEF IInv, OrderCounts
<1>4. inner # "results" /\ run # "returned"
  BY <1>0, NotReturned
<1>5. CASE Direct
  <2>1. inner' = "cancelled" /\ at' = [at EXCEPT !.phase = "none"]
    BY <1>5 DEF EndsCancelled
  <2>2. check[i] \in Active
    BY <1>5, Names DEF IInv, InTurnShape
  <2>3. inner = "pending" /\ run = "running" /\ i = at.index
    BY <1>5, <2>2, TurnOf
  <2>4. permits' = permits /\ asked' = {}
    BY <1>5, <2>2, <2>3, Names DEF Leaves, IInv, InTurnShape
  <2>5. at' \in [index : 0..N, phase : Phases] /\ at'.phase = "none"
    BY <2>1 DEF IInv, TypeOK, Phases
  <2>6. TypeOK'
    BY <1>0, <1>1, <1>2, <2>1, <2>4, <2>5 DEF IInv, TypeOK, Inner
  <2>7. \A j \in Checks : check'[j] \notin Active
    <3>1. \A j \in Checks : j # i => check[j] \notin Active
      BY <1>5, <2>3, TurnOf
    <3> QED  BY <1>2, <3>1, Names
  <2>8. InTurnShape'
    BY <1>0, <1>1, <2>1, <2>4, <2>7 DEF IInv, InTurnShape
  <2>9. ParallelShape' /\ ResultsMeanDone' /\ ConcurrencyCapped' /\ NobodyAsked'
    BY <1>0, <1>2, <1>5, <2>1, <2>4, <2>7, Names
    DEF ParallelShape, ResultsMeanDone, ConcurrencyCapped, NobodyAsked
  <2>10. CancelReaches' /\ Reported'
    BY <1>0, <1>1, <1>5, <2>1, <2>3, ReportKept DEF IInv, CancelReaches
  <2> QED  BY <1>3, <2>6, <2>8, <2>9, <2>10 DEF IInv
<1>6. CASE ~Direct
  <2>1. inner' = Gathered(i, "cancelled") /\ at' = at
    BY <1>6 DEF EndsCancelled
  <2>2. /\ inner' \in Inner /\ inner' # "results"
        /\ inner # "pending" => inner' = inner
    BY <1>4, <2>1 DEF Gathered, IInv, TypeOK, Inner
  <2>3. ConcurrencyCapped' /\ permits' \in 0..args'.cap
    <3>1. CASE check[i] \in Active /\ Leaves(i)
      BY <1>0, <1>1, <1>6, <3>1, PermitGivenBack, Names DEF Leaves
    <3>2. CASE check[i] = "pending" /\ UNCHANGED permits
      <4>1. ActiveChecks' = ActiveChecks
        BY <1>1, <3>2, CheckMoves, Names DEF IInv, ActiveChecks
      <4> QED  BY <1>0, <3>2, <4>1 DEF IInv, TypeOK, ConcurrencyCapped, ActiveChecks
    <3> QED  BY <3>1, <3>2
  <2>4. TypeOK'
    BY <1>0, <1>1, <1>2, <2>1, <2>2, <2>3 DEF IInv, TypeOK
  <2>5. InTurnShape' /\ ParallelShape' /\ ResultsMeanDone' /\ NobodyAsked'
    BY <1>0, <1>1, <1>2, <1>6, <2>1, <2>2
    DEF IInv, InTurnShape, ParallelShape, ResultsMeanDone, NobodyAsked
  <2>6. Reported'
    BY <1>1, <1>4, <2>2, ReportKept DEF IInv, Reported
  <2>7. CancelReaches'
    BY <1>0, <1>1, <1>2, <1>6 DEF IInv, CancelReaches
  <2> QED  BY <1>3, <2>3, <2>4, <2>5, <2>6, <2>7 DEF IInv
<1> QED  BY <1>5, <1>6

LEMMA CancelsItselfStep ==
  ASSUME IInv, NEW i \in Checks, CancelsItself(i)
  PROVE  IInv'
BY EndsCancelledStep, Names DEF CancelsItself, Leaves

LEMMA DeliveredStep ==
  ASSUME IInv, NEW i \in Checks, Delivered(i)
  PROVE  IInv'
<1>1. i \in asked /\ cause # "none"
  BY DEF Delivered, IInv, NobodyAsked
<1>2. CASE check[i] = "pending" /\ EndsCancelled(i) /\ asked' = asked \ {i} /\ UNCHANGED permits
  BY <1>1, <1>2, EndsCancelledStep
<1>3. CASE check[i] = "running" /\ EndsCancelled(i) /\ Leaves(i)
  BY <1>1, <1>3, EndsCancelledStep, Names DEF Leaves
<1>4. CASE /\ check[i] = "running"
           /\ check' = [check EXCEPT ![i] = "unwinding"]
           /\ asked' = asked \ {i}
           /\ UNCHANGED <<answer, permits, at, order, inner, cause, run, report, args>>
  <2>0. Direct' = Direct
    BY <1>4, SameCall
  <2>1. /\ check' \in [Checks -> States] /\ check'[i] = "unwinding"
        /\ \A j \in Checks : j # i => check'[j] = check[j]
        /\ ActiveChecks' = ActiveChecks /\ DoneChecks' = DoneChecks
    BY <1>4, CheckMoves, Names DEF IInv, ActiveChecks, DoneChecks
  <2>2. inner # "results" /\ run # "returned"
    BY <1>4, NotReturned
  <2>3. TypeOK'
    BY <1>4, <2>1 DEF IInv, TypeOK
  <2>4. OrderCounts' /\ ConcurrencyCapped'
    BY <1>4, <2>0, <2>1 DEF IInv, OrderCounts, ConcurrencyCapped, ActiveChecks
  <2>5. ParallelShape' /\ ResultsMeanDone' /\ NobodyAsked'
    BY <1>1, <1>4, <2>0, <2>1, <2>2 DEF IInv, ParallelShape, ResultsMeanDone, NobodyAsked
  <2>6. Reported'
    BY <1>4, <2>2, ReportKept DEF IInv
  <2>7. InTurnShape' /\ CancelReaches'
    <3>1. CASE Direct
      <4>1. inner = "pending" /\ i = at.index /\ at.phase = "check"
        BY <1>4, <3>1, TurnOf, Names
      <4>2. asked' = {}
        BY <1>1, <1>4, <3>1 DEF IInv, InTurnShape
      <4>3. InTurnShape'
        BY <1>4, <2>0, <2>1, <3>1, <4>1, <4>2, Names DEF IInv, InTurnShape
      <4> QED  BY <1>4, <2>0, <2>1, <3>1, <4>1, <4>3 DEF CancelReaches
    <3>2. CASE ~Direct
      BY <1>1, <1>4, <2>0, <2>1, <3>2 DEF IInv, InTurnShape, CancelReaches
    <3> QED  BY <3>1, <3>2
  <2> QED  BY <2>3, <2>4, <2>5, <2>6, <2>7 DEF IInv
<1> QED  BY <1>2, <1>3, <1>4 DEF Delivered

LEMMA UnwoundStep ==
  ASSUME IInv, NEW i \in Checks, Unwound(i)
  PROVE  IInv'
<1>1. check[i] = "unwinding" /\ check[i] \in Active /\ cause # "none"
  BY Names DEF Unwound, IInv, NobodyAsked
<1>2. CASE EndsCancelled(i) /\ Leaves(i)
  BY <1>1, <1>2, EndsCancelledStep DEF Leaves
<1>3. CASE Swallows /\ EndsWith(i, "error")
  <2>1. CASE ~Direct
    BY <1>1, <1>3, <2>1, EndsWithParallel
  <2>2. CASE Direct
    <3>1. i = at.index
      BY <1>1, <2>2, TurnOf
    <3>2. asked = {}
      BY <1>1, <2>2, <3>1 DEF IInv, InTurnShape
    <3> QED  BY <1>1, <1>3, <2>2, <3>2, EndsWithInTurn
  <2> QED  BY <2>1, <2>2
<1> QED  BY <1>2, <1>3 DEF Unwound
-----------------------------------------------------------------------------
(* The semaphore and the hooks *)

LEMMA StartStep ==
  ASSUME IInv, NEW i \in Checks, Start(i)
  PROVE  IInv'
<1>0. Direct' = Direct /\ ~Direct /\ check[i] = "pending" /\ i \notin asked
  BY SameCall DEF Start
<1>1. /\ check' \in [Checks -> States] /\ check'[i] = "running"
      /\ \A j \in Checks : j # i => check'[j] = check[j]
      /\ ActiveChecks' = ActiveChecks \union {i} /\ DoneChecks' = DoneChecks
  BY <1>0, CheckMoves, Names DEF Start, IInv, DoneChecks
<1>2. inner # "results" /\ run # "returned"
  BY <1>0, NotReturned
<1>3. permits' = permits - 1 /\ permits \in 0..args.cap /\ permits > 0 /\ args.cap \in Nat
  BY ArgumentsTyped DEF Start, IInv, TypeOK
<1>4. permits' \in 0..args'.cap
  BY <1>3 DEF Start
<1>5. ConcurrencyCapped'
  <2>1. i \notin ActiveChecks
    BY <1>0, Names DEF ActiveChecks
  <2>2. Cardinality(ActiveChecks') = Cardinality(ActiveChecks) + 1
    BY <1>1, <2>1, OneMore DEF ActiveChecks
  <2>3. Cardinality(ActiveChecks) = args.cap - permits
    BY <1>0 DEF IInv, ConcurrencyCapped, ActiveChecks
  <2>4. Cardinality(ActiveChecks') = args'.cap - permits'
    BY <1>3, <2>2, <2>3 DEF Start
  <2> QED  BY <2>4 DEF ConcurrencyCapped, ActiveChecks
<1>6. TypeOK'
  BY <1>1, <1>4 DEF IInv, TypeOK, Start
<1>7. InTurnShape' /\ ParallelShape' /\ ResultsMeanDone' /\ OrderCounts' /\ NobodyAsked'
  BY <1>0, <1>1, <1>2
  DEF IInv, InTurnShape, ParallelShape, ResultsMeanDone, OrderCounts, NobodyAsked, Start
<1>8. Reported' /\ CancelReaches'
  BY <1>0, <1>1, <1>2, ReportKept DEF IInv, CancelReaches, Start
<1> QED  BY <1>5, <1>6, <1>7, <1>8 DEF IInv

\* A hook is awaited by a run in turn, between its checks.
LEMMA HookOf ==
  ASSUME IInv, inner = "pending", at.phase \in StartHooks \union EndHooks
  PROVE  /\ Direct /\ run = "running"
         /\ at.index \in Checks /\ asked = {}
         /\ \A j \in Checks : check[j] \notin Active
         /\ at.phase \notin Unwinding /\ cause # "none" => Swallows
<1>1. Direct
  BY DEF IInv, ParallelShape
<1>2. at.index \in Checks /\ asked = {} /\ run = "running"
  BY <1>1 DEF IInv, InTurnShape, Reported
<1>3. \A j \in Checks : check[j] \notin Active
  <2>1. \A j \in Checks : j < at.index \/ j > at.index \/ j = at.index
    BY <1>2, SizeAssumption DEF Checks
  <2>2. check[at.index] \in {"pending", "done"}
    BY <1>1 DEF IInv, InTurnShape
  <2> QED  BY <1>1, <2>1, <2>2, Names DEF IInv, InTurnShape
<1>4. at.phase \notin Unwinding /\ cause # "none" => Swallows
  BY <1>1 DEF IInv, CancelReaches
<1> QED  BY <1>1, <1>2, <1>3, <1>4

\* A hook that ends with its return, or with an exception of its own.
LEMMA HookEnds ==
  ASSUME IInv, InHook("startHook", "startUnwinding") \/ InHook("endHook", "endUnwinding")
  PROVE  /\ inner = "pending" /\ at.phase \in StartHooks \union EndHooks
         /\ cause # "none" => Swallows
BY HookOf DEF InHook

LEMMA StartHookStep ==
  ASSUME IInv, StartHookReturns
  PROVE  IInv'
<1> DEFINE i == at.index
<1>0. Direct' = Direct
  BY SameCall DEF StartHookReturns
<1>1. /\ Direct /\ inner = "pending" /\ at.phase \in StartHooks /\ i \in Checks
      /\ asked = {} /\ run = "running" /\ (cause # "none" => Swallows)
      /\ \A j \in Checks : check[j] \notin Active
  BY HookOf, HookEnds DEF StartHookReturns, InHook
<1>2. check' = [check EXCEPT ![i] = "running"] /\ at' = [at EXCEPT !.phase = "check"]
  BY DEF StartHookReturns
<1>3. check[i] = "pending"
  BY <1>1 DEF IInv, InTurnShape
<1>4. /\ check' \in [Checks -> States] /\ check'[i] = "running"
      /\ \A j \in Checks : j # i => check'[j] = check[j]
      /\ DoneChecks' = DoneChecks
  BY <1>1, <1>2, <1>3, CheckMoves, Names DEF IInv, DoneChecks
<1>5. at' \in [index : 0..N, phase : Phases] /\ at'.index = i /\ at'.phase = "check"
  BY <1>2 DEF IInv, TypeOK, Phases
<1>6. TypeOK'
  BY <1>4, <1>5 DEF IInv, TypeOK, StartHookReturns
<1>7. InTurnShape'
  <2>1. /\ \A j \in Checks : j < i => check'[j] = "done"
        /\ \A j \in Checks : j > i => check'[j] = "pending"
    BY <1>1, <1>4, SizeAssumption DEF IInv, InTurnShape, Checks
  <2> QED  BY <1>0, <1>1, <1>4, <1>5, <2>1, Names DEF IInv, InTurnShape, StartHookReturns
<1>8. OrderCounts' /\ ParallelShape' /\ ResultsMeanDone' /\ ConcurrencyCapped' /\ NobodyAsked'
  BY <1>0, <1>1, <1>4
  DEF IInv, OrderCounts, ParallelShape, ResultsMeanDone, ConcurrencyCapped, NobodyAsked,
      StartHookReturns
<1>9. Reported' /\ CancelReaches'
  <2>1. UNCHANGED <<inner, cause, run, report>>
    BY DEF StartHookReturns
  <2>2. Reported'
    BY <1>1, <2>1, ReportKept DEF IInv
  <2> QED  BY <1>0, <1>1, <2>1, <2>2 DEF CancelReaches
<1> QED  BY <1>6, <1>7, <1>8, <1>9 DEF IInv

LEMMA EndHookStep ==
  ASSUME IInv, EndHookReturns
  PROVE  IInv'
<1>1. /\ Direct /\ inner = "pending" /\ at.phase \in EndHooks /\ at.index \in Checks
      /\ asked = {} /\ (cause # "none" => Swallows)
  BY HookOf, HookEnds DEF EndHookReturns, InHook
<1>2. /\ check \in [Checks -> States] /\ answer \in [Checks -> Answers] /\ order \in Seq(Checks)
      /\ check[at.index] = "done" /\ Len(order) = at.index
      /\ \A k \in 1..Len(order) : order[k] = k
  BY <1>1 DEF IInv, TypeOK, InTurnShape
<1>3. /\ Advance(at.index, check) /\ args' = args /\ asked' = {} /\ permits' = permits
      /\ UNCHANGED <<cause, run, report, order, answer>>
  BY <1>1 DEF EndHookReturns
<1>4. \A i \in Checks : i = at.index => IInv'
  BY <1>1, <1>2, <1>3, AdvanceStep
<1> QED  BY <1>1, <1>4

LEMMA HookRaisesStep ==
  ASSUME IInv, HookRaises
  PROVE  IInv'
<1>0. Direct' = Direct
  BY SameCall DEF HookRaises
<1>1. /\ Direct /\ asked = {} /\ run = "running"
      /\ \A j \in Checks : check[j] \notin Active
  BY HookOf, HookEnds DEF HookRaises
<1>2. at' \in [index : 0..N, phase : Phases]
  BY DEF IInv, TypeOK, Phases, HookRaises
<1>3. TypeOK'
  BY <1>2 DEF IInv, TypeOK, Inner, HookRaises
<1>4. InTurnShape' /\ ParallelShape' /\ ResultsMeanDone' /\ ConcurrencyCapped'
  BY <1>0, <1>1
  DEF IInv, InTurnShape, ParallelShape, ResultsMeanDone, ConcurrencyCapped, HookRaises
<1>5. OrderCounts' /\ NobodyAsked' /\ CancelReaches'
  BY <1>0, <1>1 DEF IInv, OrderCounts, DoneChecks, NobodyAsked, CancelReaches, HookRaises
<1>6. Reported'
  BY <1>1, ReportKept DEF IInv, HookRaises
<1> QED  BY <1>3, <1>4, <1>5, <1>6 DEF IInv

LEMMA HookUnwoundStep ==
  ASSUME IInv, HookUnwound
  PROVE  IInv'
<1>0. Direct' = Direct
  BY SameCall DEF HookUnwound
<1>1. /\ Direct /\ asked = {} /\ run = "running"
      /\ \A j \in Checks : check[j] \notin Active
  BY HookOf DEF HookUnwound
<1>2. at' \in [index : 0..N, phase : Phases]
  BY DEF IInv, TypeOK, Phases, HookUnwound
<1>3. TypeOK'
  BY <1>2 DEF IInv, TypeOK, Inner, HookUnwound
<1>4. InTurnShape' /\ ParallelShape' /\ ResultsMeanDone' /\ ConcurrencyCapped'
  BY <1>0, <1>1
  DEF IInv, InTurnShape, ParallelShape, ResultsMeanDone, ConcurrencyCapped, HookUnwound
<1>5. OrderCounts' /\ NobodyAsked' /\ CancelReaches'
  BY <1>0, <1>1 DEF IInv, OrderCounts, DoneChecks, NobodyAsked, CancelReaches, HookUnwound
<1>6. Reported'
  BY <1>1, ReportKept DEF IInv, HookUnwound
<1> QED  BY <1>3, <1>4, <1>5, <1>6 DEF IInv

-----------------------------------------------------------------------------
(* run_probe *)

LEMMA CancelExecutionStep ==
  ASSUME IInv, NEW who \in {"timer", "caller"}, CancelExecution(who)
  PROVE  IInv'
<1>0. /\ Direct' = Direct /\ run = "running" /\ cause = "none" /\ cause' = who
      /\ UNCHANGED <<check, answer, permits, order, run, report, args>>
  BY SameCall DEF CancelExecution
<1>1. asked = {} /\ \A j \in Checks : check[j] # "unwinding"
  BY <1>0 DEF IInv, NobodyAsked
<1>2. OrderCounts' /\ ConcurrencyCapped'
  BY <1>0 DEF IInv, OrderCounts, DoneChecks, ConcurrencyCapped
<1>3. NobodyAsked' /\ Reported'
  BY <1>0 DEF IInv, NobodyAsked, Reported, ReportInOrder, TimeoutMeansTimer
<1>4. CASE inner = "pending" /\ inner' = "cancelled" /\ CancelHook
  <2>0. Direct /\ at.phase \in {"startHook", "endHook"}
    BY <1>4 DEF CancelHook, IInv, ParallelShape
  <2>1. inner' = "cancelled" /\ at' = [at EXCEPT !.phase = "none"] /\ asked' = asked
    BY <1>4 DEF CancelHook
  <2>2. at' \in [index : 0..N, phase : Phases]
    BY <2>1 DEF IInv, TypeOK, Phases
  <2>3. TypeOK'
    BY <1>0, <2>1, <2>2 DEF IInv, TypeOK, Inner
  <2>4. \A j \in Checks : check[j] \notin Active
    BY <2>0, TurnOf
  <2>5. InTurnShape' /\ ParallelShape' /\ ResultsMeanDone'
    BY <1>0, <1>1, <2>0, <2>1, <2>4 DEF IInv, InTurnShape, ParallelShape, ResultsMeanDone
  <2>6. CancelReaches'
    BY <1>0, <2>0, <2>1 DEF CancelReaches
  <2> QED  BY <1>2, <1>3, <2>3, <2>5, <2>6 DEF IInv
\* The hook goes on awaiting in its handlers.
<1>8. CASE inner = "pending" /\ inner' = inner /\ CancelHook
  <2>0. Direct /\ at.phase \in {"startHook", "endHook"} /\ asked' = asked
    BY <1>8 DEF CancelHook, IInv, ParallelShape
  <2>1. PICK phase \in Unwinding :
          /\ at' = [at EXCEPT !.phase = phase]
          /\ at.phase \in StartHooks <=> phase \in StartHooks
          /\ at.phase \in EndHooks <=> phase \in EndHooks
    BY <1>8 DEF CancelHook
  <2>2. /\ at' \in [index : 0..N, phase : Phases]
        /\ at'.index = at.index /\ at'.phase = phase
    BY <2>1, Names DEF IInv, TypeOK
  <2>3. TypeOK'
    BY <1>0, <1>8, <2>0, <2>2 DEF IInv, TypeOK
  <2>4. phase \notin {"none", "check"} /\ phase \in StartHooks \union EndHooks
    OBVIOUS
  <2>5. InTurnShape' /\ ParallelShape' /\ ResultsMeanDone'
    BY <1>0, <1>1, <1>8, <2>0, <2>1, <2>2, <2>4
    DEF IInv, InTurnShape, ParallelShape, ResultsMeanDone
  <2>6. CancelReaches'
    BY <1>0, <2>0, <2>2 DEF CancelReaches
  <2> QED  BY <1>2, <1>3, <2>3, <2>5, <2>6 DEF IInv
<1>5. CASE inner = "pending" /\ Direct /\ at.phase = "check"
  <2>1. asked' = {at.index} /\ inner' = inner /\ at' = at
    BY <1>5 DEF CancelExecution, CancelHook, ToCancel
  <2>2. at.index \in Checks /\ check[at.index] = "running"
    BY <1>1, <1>5, Names DEF IInv, InTurnShape
  <2>3. TypeOK'
    BY <1>0, <2>1, <2>2 DEF IInv, TypeOK
  <2>4. InTurnShape'
    BY <1>0, <1>5, <2>1, <2>2 DEF IInv, InTurnShape
  <2>5. ParallelShape' /\ ResultsMeanDone' /\ CancelReaches'
    BY <1>0, <1>5, <2>1 DEF IInv, ParallelShape, ResultsMeanDone, CancelReaches
  <2> QED  BY <1>2, <1>3, <2>3, <2>4, <2>5 DEF IInv
<1>6. CASE inner = "pending" /\ ~Direct
  <2>1. asked' = {j \in Checks : check[j] \notin Settled} /\ inner' = inner /\ at' = at
    BY <1>6 DEF CancelExecution, CancelHook, ToCancel, IInv, ParallelShape
  <2>2. TypeOK'
    BY <1>0, <2>1 DEF IInv, TypeOK
  <2>3. InTurnShape' /\ ParallelShape' /\ ResultsMeanDone' /\ CancelReaches'
    BY <1>0, <1>6, <2>1, Names
    DEF IInv, InTurnShape, ParallelShape, ResultsMeanDone, CancelReaches
  <2> QED  BY <1>2, <1>3, <2>2, <2>3 DEF IInv
<1>7. CASE inner # "pending"
  <2>1. asked' = asked /\ inner' = inner /\ at' = at
    BY <1>7 DEF CancelExecution, CancelHook, ToCancel
  <2>2. TypeOK'
    BY <1>0, <2>1 DEF IInv, TypeOK
  <2>3. InTurnShape' /\ ParallelShape' /\ ResultsMeanDone'
    BY <1>0, <1>1, <1>7, <2>1 DEF IInv, InTurnShape, ParallelShape, ResultsMeanDone
  <2>4. CancelReaches'
    <3>1. ~Direct /\ ~SelfCancels => \A j \in Checks : check[j] = "done"
      BY <1>0, <1>7 DEF IInv, CancelReaches, ResultsMeanDone
    <3> QED  BY <1>0, <1>7, <2>1, <3>1 DEF CancelReaches
  <2> QED  BY <1>2, <1>3, <2>2, <2>3, <2>4 DEF IInv
<1>9. inner = "pending" /\ Direct => at.phase = "check" \/ CancelHook
  BY <1>1, Names
  DEF CancelExecution, IInv, TypeOK, InTurnShape, NobodyAsked
<1>10. CancelHook => inner = "pending" /\ (inner' = "cancelled" \/ inner' = inner)
  BY DEF CancelHook
<1> QED  BY <1>4, <1>5, <1>6, <1>7, <1>8, <1>9, <1>10

\* The results that are handed out belong to the checks, in their order.
LEMMA CollectedInOrder ==
  ASSUME IInv, inner = "results"
  PROVE  /\ Collected \in Seq(Results) /\ Len(Collected) = N
         /\ \A i \in Checks : Collected[i] = [of |-> i, says |-> answer[i]]
<1>1. \A i \in Checks : [of |-> i, says |-> answer[i]] \in Results
  BY DEF Results, IInv, TypeOK
<1>2. InTurn => Len(order) = N /\ \A k \in 1..N : order[k] = k
  BY DEF IInv, InTurnShape, Direct
<1>3. Collected = [i \in 1..N |-> [of |-> i, says |-> answer[i]]]
  BY <1>2 DEF Collected, Checks
<1> QED  BY <1>1, <1>3, SizeAssumption DEF Checks

LEMMA ResumesStep ==
  ASSUME IInv, Resumes
  PROVE  IInv'
<1>0. /\ Direct' = Direct /\ run = "running" /\ inner # "pending"
      /\ UNCHANGED <<check, answer, asked, permits, at, order, inner, cause, args>>
  BY SameCall DEF Resumes
<1>1. \/ inner = "results" /\ run' = "returned" /\ report' = Collected
      \/ /\ cause = "timer" \/ inner = "timeoutError"
         /\ run' = "timeoutReport" /\ report' = TimeoutResults
      \/ /\ cause = "timer" \/ inner = "timeoutError"
         /\ run' = "timeoutRaised" /\ report' = report
      \/ run' \in {"cancelled", "raised"} /\ report' = report
  BY DEF Resumes, Returns, TimesOut, Ends, CancelledRun
<1>2. /\ TimeoutResults \in Seq(Results) /\ Len(TimeoutResults) = N
      /\ \A i \in Checks : TimeoutResults[i] = [of |-> i, says |-> "PROBE_TIMEOUT"]
  BY SizeAssumption DEF TimeoutResults, Results, Checks
<1>3. TypeOK'
  <2>1. report' \in Seq(Results)
    BY <1>1, <1>2, CollectedInOrder DEF IInv, TypeOK
  <2>2. run' \in Outcomes
    BY <1>1 DEF Outcomes
  <2> QED  BY <1>0, <2>1, <2>2 DEF IInv, TypeOK
<1>4. Reported'
  <2>1. ReportInOrder'
    <3>1. CASE inner = "results" /\ run' = "returned" /\ report' = Collected
      BY <1>0, <3>1, CollectedInOrder DEF IInv, ResultsMeanDone, ReportInOrder
    <3>2. CASE run' = "timeoutReport" /\ report' = TimeoutResults
      BY <1>2, <3>2 DEF ReportInOrder
    <3>3. CASE run' \notin {"returned", "timeoutReport"}
      BY <3>3 DEF ReportInOrder
    <3> QED  BY <1>1, <3>1, <3>2, <3>3
  <2> QED  BY <1>0, <1>1, <2>1 DEF Reported, TimeoutMeansTimer
<1>5. OrderCounts' /\ ConcurrencyCapped' /\ NobodyAsked' /\ CancelReaches'
  BY <1>0 DEF IInv, OrderCounts, DoneChecks, ConcurrencyCapped, NobodyAsked, CancelReaches
<1>6. InTurnShape' /\ ParallelShape' /\ ResultsMeanDone'
  BY <1>0 DEF IInv, InTurnShape, ParallelShape, ResultsMeanDone
<1> QED  BY <1>3, <1>4, <1>5, <1>6 DEF IInv

-----------------------------------------------------------------------------
(* The invariant and what follows from it *)

LEMMA StutterStep == IInv /\ UNCHANGED vars => IInv'
<1> SUFFICES ASSUME IInv, UNCHANGED vars PROVE IInv'
  OBVIOUS
<1>1. UNCHANGED <<args, check, answer, asked, permits, at, order, inner, cause, run, report>>
  BY DEF vars
<1>2. TypeOK'
  BY <1>1 DEF IInv, TypeOK
<1>3. InTurnShape' /\ ParallelShape' /\ ResultsMeanDone'
  BY <1>1 DEF IInv, InTurnShape, ParallelShape, ResultsMeanDone, Direct, InTurn
<1>4. OrderCounts' /\ ConcurrencyCapped'
  BY <1>1 DEF IInv, OrderCounts, DoneChecks, ConcurrencyCapped, Direct, InTurn
<1>5. NobodyAsked' /\ CancelReaches'
  BY <1>1 DEF IInv, NobodyAsked, CancelReaches, Direct, InTurn
<1>6. Reported'
  BY <1>1 DEF IInv, Reported, ReportInOrder, TimeoutMeansTimer
<1> QED  BY <1>2, <1>3, <1>4, <1>5, <1>6 DEF IInv

LEMMA InvariantStep == IInv /\ [Next]_vars => IInv'
<1> SUFFICES ASSUME IInv, [Next]_vars PROVE IInv'
  OBVIOUS
<1>1. ASSUME NEW i \in Checks,
             Start(i) \/ Answered(i) \/ CancelsItself(i) \/ Delivered(i) \/ Unwound(i)
      PROVE  IInv'
  BY <1>1, StartStep, AnsweredStep, CancelsItselfStep, DeliveredStep, UnwoundStep
<1>2. CASE StartHookReturns \/ EndHookReturns \/ HookRaises \/ HookUnwound
  BY <1>2, StartHookStep, EndHookStep, HookRaisesStep, HookUnwoundStep
<1>3. CASE TimerFires \/ CallerCancels
  BY <1>3, CancelExecutionStep DEF TimerFires, CallerCancels
<1>4. CASE Resumes
  BY <1>4, ResumesStep
<1>5. CASE Over \/ UNCHANGED vars
  BY <1>5, StutterStep DEF Over
<1> QED  BY <1>1, <1>2, <1>3, <1>4, <1>5 DEF Next

LEMMA Invariant == Spec => []IInv
BY InitInvariant, InvariantStep, PTL DEF Spec

\* Every state run_probe can reach is well-typed: it never has more answers than
\* checks, nor a permit more or less than the semaphore was made with.
THEOREM TypeCorrect == Spec => []TypeOK
<1>1. IInv => TypeOK
  BY DEF IInv
<1> QED  BY <1>1, Invariant, PTL

\* A report that run_probe returns has one result for every check, in the order of
\* the checks, each the answer of that check, whatever the order of the answers.
THEOREM ReportsInOrder == Spec => []ReportInOrder
<1>1. IInv => ReportInOrder
  BY DEF IInv, Reported
<1> QED  BY <1>1, Invariant, PTL

\* No more checks are under way than max_concurrency, and no permit is lost.
THEOREM NeverOverConcurrency == Spec => []ConcurrencyCapped
<1>1. IInv => ConcurrencyCapped
  BY DEF IInv
<1> QED  BY <1>1, Invariant, PTL

\* A sequential run, and the only check of a probe, ends with nothing under way.
THEOREM LeavesNothingInTurn == Spec => []NothingLeftDirect
<1>1. IInv => NothingLeftDirect
  BY DEF IInv, InTurnShape, Reported, NothingLeftDirect
<1> QED  BY <1>1, Invariant, PTL

\* The failure PROBE_TIMEOUT is never the work of a check or of a caller.
THEOREM TimeoutsAreTheTimers == Spec => []TimeoutMeansTimer
<1>1. IInv => TimeoutMeansTimer
  BY DEF IInv, Reported
<1> QED  BY <1>1, Invariant, PTL

-----------------------------------------------------------------------------
(* After a cancellation *)

StartsNone == \A i \in Checks : ~(check[i] = "pending" /\ check'[i] = "running")

LEMMA AdvanceOnlyInTurn ==
  ASSUME IInv, Next, cause # "none", ~StartsNone
  PROVE  IF Direct THEN Swallows ELSE SelfCancels
<1>1. PICK i \in Checks : check[i] = "pending" /\ check'[i] = "running"
  BY DEF StartsNone
<1>2. ASSUME NEW j \in Checks, Start(j)
      PROVE  ~Direct /\ SelfCancels
  <2>1. ~Direct /\ check[j] = "pending" /\ j \notin asked
    BY <1>2 DEF Start
  <2> QED  BY <2>1 DEF IInv, CancelReaches
<1>3. ASSUME NEW j \in Checks, ~Direct, Answered(j) \/ CancelsItself(j) \/ Delivered(j) \/ Unwound(j)
      PROVE  FALSE
  <2>1. \E s \in {"done", "cancelled", "unwinding"} : check' = [check EXCEPT ![j] = s]
    BY <1>3 DEF Answered, CancelsItself, Delivered, Unwound, EndsWith, EndsCancelled
  <2> QED  BY <1>1, <2>1 DEF IInv, TypeOK
<1>4. ASSUME NEW j \in Checks, Direct, Answered(j) \/ CancelsItself(j) \/ Delivered(j) \/ Unwound(j)
      PROVE  Swallows
  <2>1. CASE Answered(j)
    <3>1. /\ inner = "pending" /\ j = at.index /\ at.phase = "check"
          /\ j \notin asked /\ check[j] # "unwinding"
      BY <1>4, <2>1, TurnOf, Names DEF Answered
    <3> QED  BY <1>4, <3>1 DEF IInv, CancelReaches
  <2>2. CASE CancelsItself(j) \/ Delivered(j)
    <3>1. \E s \in {"cancelled", "unwinding"} : check' = [check EXCEPT ![j] = s]
      BY <2>2 DEF CancelsItself, Delivered, EndsCancelled
    <3> QED  BY <1>1, <3>1 DEF IInv, TypeOK
  <2>3. CASE Unwound(j)
    <3>1. Swallows \/ check' = [check EXCEPT ![j] = "cancelled"]
      BY <2>3 DEF Unwound, EndsCancelled
    <3> QED  BY <1>1, <3>1 DEF IInv, TypeOK
  <2> QED  BY <1>4, <2>1, <2>2, <2>3
<1>5. CASE StartHookReturns \/ EndHookReturns \/ HookRaises \/ HookUnwound
  <2>1. check' # check
    BY <1>1
  <2> QED  BY <1>5, <2>1, HookEnds, HookOf
           DEF StartHookReturns, EndHookReturns, HookRaises, HookUnwound
<1>6. CASE TimerFires \/ CallerCancels \/ Resumes \/ Over
  BY <1>1, <1>6 DEF TimerFires, CallerCancels, CancelExecution, Resumes, Over, vars
<1> QED  BY <1>2, <1>3, <1>4, <1>5, <1>6 DEF Next

\* After a timeout or a cancellation no check starts, when no check ends gather by
\* a CancelledError of its own and none turns its cancellation into a failure.
THEOREM NothingStartsLate ==
  ASSUME ~SelfCancels, ~Swallows
  PROVE  Spec => NoStartAfterCancel
<1>1. IInv /\ [Next]_vars => [cause # "none" => StartsNone]_vars
  BY AdvanceOnlyInTurn
<1>2. Spec => [][cause # "none" => StartsNone]_vars
  BY <1>1, Invariant, PTL DEF Spec
<1> QED  BY <1>2 DEF NoStartAfterCancel, StartsNone

-----------------------------------------------------------------------------
(***************************************************************************)
(* ProbeExecution implements ProbeSpec.  The refinement needs to know who  *)
(* has answered, what the hooks may have done, and who has cancelled.      *)
(***************************************************************************)

AnswersMeanDone == \A j \in Checks : check[j] = "done" <=> answer[j] # "none"

HooksGiven ==
    /\ at.phase \in StartHooks => args.startHook
    /\ at.phase \in EndHooks => args.endHook
    /\ inner \in {"timeoutError", "hookError"} => args.startHook \/ args.endHook

CancelsExplained == inner = "cancelled" /\ cause = "none" => SelfCancels

PInv == AnswersMeanDone /\ HooksGiven /\ CancelsExplained

LEMMA PInvInit == Init => PInv
BY DEF Init, PInv, AnswersMeanDone, HooksGiven, CancelsExplained, FirstPhase, Checks

\* The step to the next check starts it, or its hook.
LEMMA AdvanceHooks ==
  ASSUME IInv, HooksGiven, CancelsExplained, args' = args, cause' = cause,
         NEW i \in Checks, NEW checkNow \in [Checks -> States], Advance(i, checkNow),
         inner = "pending"
  PROVE  /\ HooksGiven' /\ CancelsExplained'
         /\ \A j \in Checks : checkNow[j] # "pending" => check'[j] = checkNow[j] \/ j = i + 1
         /\ \A j \in Checks : check'[j] = checkNow[j] \/ (j = i + 1 /\ check'[j] = "running")
<1>1. at \in [index : 0..N, phase : Phases]
  BY DEF IInv, TypeOK
<1>2. HooksGiven' /\ CancelsExplained'
  BY <1>1 DEF Advance, HooksGiven, CancelsExplained, FirstPhase
<1>3. \A j \in Checks : check'[j] = checkNow[j] \/ (j = i + 1 /\ check'[j] = "running")
  BY DEF Advance
<1> QED  BY <1>2, <1>3

LEMMA EndsWithPromised ==
  ASSUME IInv, PInv, NEW i \in Checks, check[i] \in Active,
         NEW a \in {"healthy", "error"}, EndsWith(i, a)
  PROVE  PInv' /\ Promise!Answers(i)
<1>0. /\ check \in [Checks -> States] /\ answer \in [Checks -> Answers]
      /\ at \in [index : 0..N, phase : Phases]
  BY DEF IInv, TypeOK
<1>1. answer' = [answer EXCEPT ![i] = a] /\ UNCHANGED <<args, cause, run, report>>
  BY DEF EndsWith
<1>2. answer[i] = "none"
  BY Names DEF PInv, AnswersMeanDone
<1> DEFINE ended == [check EXCEPT ![i] = "done"]
<1>3. /\ ended \in [Checks -> States] /\ ended[i] = "done"
      /\ \A j \in Checks : j # i => ended[j] = check[j]
  BY <1>0, Names
<1> HIDE DEF ended
<1>4. CASE ~Direct
  <2>1. check' = ended /\ inner' = Gathered(i, "done") /\ at' = at
    BY <1>4 DEF EndsWith, ended
  <2>2. PInv'
    BY <1>0, <1>1, <1>3, <2>1
       DEF PInv, AnswersMeanDone, HooksGiven, CancelsExplained, Gathered
  <2>3. ~Promise!OneByOne
    BY <1>4 DEF Promise!OneByOne, Promise!Hooked, Direct, InTurn
  <2> QED  BY <1>1, <1>2, <2>2, <2>3 DEF Promise!Answers
<1>5. CASE Direct
  <2>1. inner = "pending" /\ run = "running" /\ i = at.index
    BY <1>5, TurnOf
  <2>2. \A j \in Checks : (j < i => check[j] = "done") /\ (j > i => check[j] = "pending")
    BY <1>5, <2>1 DEF IInv, InTurnShape
  <2>3. \A j \in 1..(i-1) : j \in Checks /\ j < i
    BY SizeAssumption DEF Checks
  <2>4. \A j \in 1..(i-1) : answer[j] # "none"
    BY <2>2, <2>3 DEF PInv, AnswersMeanDone
  <2>5. PInv'
    <3>1. CASE args.endHook
      <4>1. check' = ended /\ at' = [at EXCEPT !.phase = "endHook"] /\ inner' = inner
        BY <1>5, <3>1 DEF EndsWith, ended
      <4> QED  BY <1>0, <1>1, <1>3, <2>1, <3>1, <4>1
               DEF PInv, AnswersMeanDone, HooksGiven, CancelsExplained
    <3>2. CASE ~args.endHook
      <4>1. Advance(i, ended)
        BY <1>5, <3>2 DEF EndsWith, ended
      <4>2. /\ HooksGiven' /\ CancelsExplained'
            /\ \A j \in Checks : check'[j] = ended[j] \/ (j = i + 1 /\ check'[j] = "running")
        BY <1>1, <1>3, <2>1, <4>1, AdvanceHooks DEF PInv
      <4>3. \A j \in Checks : j = i + 1 => j # i /\ check[j] = "pending"
        BY <2>2, SizeAssumption DEF Checks
      <4>4. AnswersMeanDone'
        <5> SUFFICES ASSUME NEW j \in Checks PROVE check'[j] = "done" <=> answer'[j] # "none"
          BY DEF AnswersMeanDone, Checks
        <5>1. check'[j] = "done" <=> ended[j] = "done"
          BY <1>3, <4>2, <4>3
        <5> QED  BY <1>0, <1>1, <1>3, <5>1 DEF PInv, AnswersMeanDone
      <4> QED  BY <4>2, <4>4 DEF PInv
    <3> QED  BY <3>1, <3>2
  <2> QED  BY <1>1, <1>2, <2>1, <2>4, <2>5 DEF Promise!Answers
<1> QED  BY <1>4, <1>5

LEMMA EndsCancelledPromised ==
  ASSUME IInv, PInv, NEW i \in Checks, check[i] # "done", EndsCancelled(i),
         cause = "none" => SelfCancels
  PROVE  PInv' /\ UNCHANGED Promise!vars
<1>0. check \in [Checks -> States] /\ at \in [index : 0..N, phase : Phases]
  BY DEF IInv, TypeOK
<1>1. check' = [check EXCEPT ![i] = "cancelled"] /\ UNCHANGED <<answer, order, cause, run, report, args>>
  BY DEF EndsCancelled
<1>2. AnswersMeanDone' /\ CancelsExplained'
  BY <1>0, <1>1 DEF PInv, AnswersMeanDone, CancelsExplained
<1>3. HooksGiven'
  BY <1>0, <1>1 DEF EndsCancelled, Gathered, PInv, HooksGiven
<1> QED  BY <1>1, <1>2, <1>3 DEF PInv, Promise!vars

\* A step of a check itself.
LEMMA CheckPromised ==
  ASSUME IInv, PInv, NEW i \in Checks,
         Start(i) \/ Answered(i) \/ CancelsItself(i) \/ Delivered(i) \/ Unwound(i)
  PROVE  PInv' /\ (Promise!Answers(i) \/ UNCHANGED Promise!vars)
<1>0. check \in [Checks -> States]
  BY DEF IInv, TypeOK
<1>1. ASSUME NEW s \in {"running", "unwinding"}, check[i] # "done", check' = [check EXCEPT ![i] = s],
             UNCHANGED <<answer, at, inner, cause, run, report, args>>
      PROVE  PInv' /\ UNCHANGED Promise!vars
  BY <1>0, <1>1 DEF PInv, AnswersMeanDone, HooksGiven, CancelsExplained, Promise!vars
<1>2. CASE Start(i)
  BY <1>1, <1>2 DEF Start
<1>3. CASE Answered(i)
  BY <1>3, EndsWithPromised, Names DEF Answered
<1>4. CASE CancelsItself(i)
  BY <1>4, EndsCancelledPromised DEF CancelsItself
<1>5. CASE Delivered(i)
  <2>1. cause # "none"
    BY <1>5 DEF Delivered, IInv, NobodyAsked
  <2> QED  BY <1>1, <1>5, <2>1, EndsCancelledPromised DEF Delivered
<1>6. CASE Unwound(i)
  <2>1. cause # "none" /\ check[i] \in Active /\ check[i] # "done"
    BY <1>6, Names DEF Unwound, IInv, NobodyAsked
  <2> QED  BY <1>6, <2>1, EndsCancelledPromised, EndsWithPromised DEF Unwound
<1> QED  BY <1>2, <1>3, <1>4, <1>5, <1>6

LEMMA HooksPromised ==
  ASSUME IInv, PInv, StartHookReturns \/ EndHookReturns \/ HookRaises \/ HookUnwound
  PROVE  PInv' /\ UNCHANGED Promise!vars
<1>0. check \in [Checks -> States] /\ at \in [index : 0..N, phase : Phases]
  BY DEF IInv, TypeOK
<1>1. CASE StartHookReturns
  <2>1. at.index \in Checks /\ check[at.index] = "pending"
    BY <1>1, HookOf, HookEnds DEF StartHookReturns, InHook, IInv, InTurnShape
  <2> QED  BY <1>0, <1>1, <2>1
           DEF StartHookReturns, PInv, AnswersMeanDone, HooksGiven, CancelsExplained, Promise!vars
<1>2. CASE EndHookReturns
  <2>1. /\ at.index \in Checks /\ inner = "pending" /\ Advance(at.index, check)
        /\ UNCHANGED <<answer, cause, run, report, args>>
        /\ \A j \in Checks : j > at.index => check[j] = "pending"
    BY <1>2, HookOf, HookEnds DEF EndHookReturns, IInv, InTurnShape
  <2>2. /\ HooksGiven' /\ CancelsExplained'
        /\ \A j \in Checks :
             check'[j] = check[j] \/ (j = at.index + 1 /\ check'[j] = "running")
    BY <1>0, <2>1, AdvanceHooks DEF PInv
  <2>3. \A j \in Checks : j = at.index + 1 => check[j] = "pending"
    BY <2>1, SizeAssumption DEF Checks
  <2>4. AnswersMeanDone'
    BY <2>1, <2>2, <2>3 DEF PInv, AnswersMeanDone
  <2> QED  BY <2>1, <2>2, <2>4 DEF PInv, Promise!vars
<1>3. CASE HookRaises
  <2>1. args.startHook \/ args.endHook
    BY <1>3 DEF HookRaises, InHook, PInv, HooksGiven
  <2> QED  BY <1>0, <1>3, <2>1
           DEF HookRaises, PInv, AnswersMeanDone, HooksGiven,
               CancelsExplained, Promise!vars
<1>4. CASE HookUnwound
  <2>1. cause # "none"
    BY <1>4 DEF HookUnwound, IInv, NobodyAsked
  <2> QED  BY <1>0, <1>4, <2>1
           DEF HookUnwound, PInv, AnswersMeanDone, HooksGiven,
               CancelsExplained, Promise!vars
<1> QED  BY <1>1, <1>2, <1>3, <1>4

LEMMA CancelPromised ==
  ASSUME IInv, PInv, TimerFires \/ CallerCancels
  PROVE  PInv' /\ Promise!Cancelled
<1>0. at \in [index : 0..N, phase : Phases]
  BY DEF IInv, TypeOK
<1>1. PICK who \in {"timer", "caller"} :
        CancelExecution(who) /\ (who = "timer" => args.timeout)
  BY DEF TimerFires, CallerCancels
<1>2. PInv'
  BY <1>0, <1>1
  DEF CancelExecution, CancelHook, PInv, AnswersMeanDone, HooksGiven, CancelsExplained
<1> QED  BY <1>1, <1>2 DEF CancelExecution, Promise!Cancelled

LEMMA ResumesPromised ==
  ASSUME IInv, PInv, Resumes
  PROVE  PInv' /\ Promise!Ends
<1>1. run = "running" /\ UNCHANGED <<check, answer, asked, permits, at, order, inner, cause, args>>
  BY DEF Resumes
<1>2. PInv'
  BY <1>1 DEF PInv, AnswersMeanDone, HooksGiven, CancelsExplained
<1>3. CASE inner = "results" /\ Returns
  <2>1. /\ Collected \in Seq(Results) /\ Len(Collected) = N
        /\ \A i \in Checks : Collected[i] = [of |-> i, says |-> answer[i]]
    BY <1>3, CollectedInOrder
  <2>2. Collected = [i \in 1..N |-> Collected[i]]
    BY <2>1
  <2>3. report' = Promise!ReportOf(answer)
    BY <1>3, <2>1, <2>2 DEF Returns, Promise!ReportOf, Checks
  <2>4. \A i \in 1..N : answer[i] # "none"
    BY <1>3 DEF IInv, ResultsMeanDone, PInv, AnswersMeanDone, Checks
  <2>5. Promise!Returned
    BY <1>3, <2>3, <2>4 DEF Returns, Promise!Returned
  <2> QED  BY <1>1, <1>2, <2>5 DEF Promise!Ends
<1>4. CASE TimesOut /\ (cause = "timer" \/ inner = "timeoutError")
  <2>1. cause = "timer" \/ Promise!Hooked
    BY <1>4 DEF PInv, HooksGiven, Promise!Hooked
  <2>2. TimeoutResults = Promise!ReportOf([i \in 1..N |-> "PROBE_TIMEOUT"])
    BY DEF TimeoutResults, Promise!ReportOf, Checks
  <2>3. Promise!TimedOut
    BY <1>4, <2>1, <2>2 DEF TimesOut, Promise!TimedOut
  <2> QED  BY <1>1, <1>2, <2>3 DEF Promise!Ends
<1>5. CASE /\ Ends("cancelled")
           /\ cause = "caller" \/ (inner = "cancelled" /\ cause # "timer")
  <2>1. cause \in {"none", "timer", "caller"}
    BY DEF IInv, TypeOK
  <2>2. Promise!Propagated
    BY <1>5, <2>1 DEF Ends, Promise!Propagated, PInv, CancelsExplained
  <2> QED  BY <1>1, <1>2, <2>2 DEF Promise!Ends
<1>6. CASE inner = "hookError" /\ Ends("raised")
  <2>1. Promise!Raised
    BY <1>6 DEF Ends, Promise!Raised, Promise!Hooked, PInv, HooksGiven
  <2> QED  BY <1>1, <1>2, <2>1 DEF Promise!Ends
<1> QED  BY <1>3, <1>4, <1>5, <1>6 DEF Resumes, CancelledRun

\* Whatever the interleaving of checks, hooks, semaphore, timer and caller, what a
\* caller of run_probe sees is a behaviour of ProbeSpec.
THEOREM KeepsPromise == Spec => RunProbeSpec
<1>1. Init => Promise!Init
  BY DEF Init, Promise!Init, Checks
<1>2. IInv /\ PInv /\ [Next]_vars => PInv' /\ [Promise!Next]_(Promise!vars)
  <2> SUFFICES ASSUME IInv, PInv, [Next]_vars PROVE PInv' /\ [Promise!Next]_(Promise!vars)
    OBVIOUS
  <2>1. ASSUME NEW i \in Checks,
               Start(i) \/ Answered(i) \/ CancelsItself(i) \/ Delivered(i) \/ Unwound(i)
        PROVE  PInv' /\ [Promise!Next]_(Promise!vars)
    <3>1. PInv' /\ (Promise!Answers(i) \/ UNCHANGED Promise!vars)
      BY <2>1, CheckPromised
    <3> QED  BY <3>1 DEF Promise!Next, Checks
  <2>2. CASE StartHookReturns \/ EndHookReturns \/ HookRaises \/ HookUnwound
    BY <2>2, HooksPromised
  <2>3. CASE TimerFires \/ CallerCancels
    BY <2>3, CancelPromised DEF Promise!Next
  <2>4. CASE Resumes
    BY <2>4, ResumesPromised DEF Promise!Next
  <2>5. CASE Over \/ UNCHANGED vars
    BY <2>5 DEF Over, vars, PInv, AnswersMeanDone, HooksGiven, CancelsExplained, Promise!vars
  <2> QED  BY <2>1, <2>2, <2>3, <2>4, <2>5 DEF Next
<1> QED  BY <1>1, <1>2, PInvInit, Invariant, PTL DEF Spec, RunProbeSpec, Promise!Spec
=============================================================================
