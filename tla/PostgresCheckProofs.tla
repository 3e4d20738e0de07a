------------------------ MODULE PostgresCheckProofs ------------------------
(***************************************************************************)
(* Proofs about PostgresCheck, for any tasks and drivers and any number of *)
(* cancellations of a call.                                                *)
(***************************************************************************)
EXTENDS PostgresCheck, TLAPS

Answers == {"healthy", "unhealthy"}
Ways    == Answers \union {"error", "cancelled"}
ConnStates == {"none", "open", "lost", "closed"}

\* What a call suspended at an await knows: how the block it leaves has ended, that
\* it has a connection, and that no answer survives a cancellation or an error.
Suspended(at, o, c, n, fails) ==
    /\ at \in {"connect", "begin", "query"} => o = "none"
    /\ at = "commit" => o \in Answers
    /\ at = "rollback" => o \in {"error", "cancelled"}
    /\ at \in {"close", "cancelSafe"} => o \in Ways
    /\ at = "connect" => c = "none"
    /\ at \in Awaits \ {"connect"} => c \in {"open", "lost"}
    /\ n # 0 \/ fails => o \in {"error", "cancelled"}

CallShape ==
    \A t \in Tasks : pc[t] # "idle" => Suspended(pc[t], out[t], conn[t], cancels[t], failed[t])

IInv == TypeOK /\ CallShape /\ AnswerIsWhole /\ AsyncpgClosesItsConnection

LEMMA Names ==
  /\ Awaits = {"connect", "begin", "query", "commit", "rollback", "cancelSafe", "close"}
  /\ Outcomes = Ways \union {"none"} /\ "idle" \notin Awaits
  /\ AsyncpgAwaits = {"begin", "commit", "rollback", "close"} /\ PsycopgAwaits = {"cancelSafe"}
BY DEF Awaits, Outcomes, Ways, Answers, AsyncpgAwaits, PsycopgAwaits

LEMMA InitInvariant == Init => IInv
<1> SUFFICES ASSUME Init PROVE IInv
  OBVIOUS
<1>1. TypeOK
  BY CancelsAssumption, Names DEF Init, TypeOK, Ways, Answers
<1>2. CallShape /\ AnswerIsWhole /\ AsyncpgClosesItsConnection
  BY DEF Init, CallShape, AnswerIsWhole, AsyncpgClosesItsConnection
<1> QED  BY <1>1, <1>2 DEF IInv

-----------------------------------------------------------------------------
(* Leaving the body of a check.  Only the call of t is touched, and its number *)
(* of cancellations and what it has raised are what the step says.             *)

OnlyCancels(t) ==
    /\ driver' = driver /\ cancels' \in [Tasks -> 0..MaxCancels] /\ failed' \in [Tasks -> BOOLEAN]
    /\ \A u \in Tasks : u # t => cancels'[u] = cancels[u] /\ failed'[u] = failed[u]

LEMMA EndCallStep ==
  ASSUME IInv, NEW t \in Tasks, NEW o \in Ways, NEW c \in ConnStates,
         EndCall(t, o, c), OnlyCancels(t),
         o \in Answers => cancels'[t] = 0 /\ ~failed'[t] /\ c \in {"closed", "lost"},
         driver[t] = "asyncpg" => c # "open"
  PROVE  IInv'
<1>1. /\ pc'[t] = "idle" /\ result'[t] = o /\ conn'[t] = c
      /\ \A u \in Tasks : u # t => /\ pc'[u] = pc[u] /\ result'[u] = result[u]
                                   /\ conn'[u] = conn[u] /\ out'[u] = out[u]
  BY DEF EndCall, IInv, TypeOK
<1>2. TypeOK'
  BY <1>1, Names DEF EndCall, OnlyCancels, IInv, TypeOK, ConnStates
<1>3. CallShape'
  BY <1>1 DEF OnlyCancels, IInv, CallShape
<1>4. AnswerIsWhole' /\ AsyncpgClosesItsConnection'
  BY <1>1 DEF OnlyCancels, IInv, AnswerIsWhole, AsyncpgClosesItsConnection, Answers
<1> QED  BY <1>2, <1>3, <1>4 DEF IInv

LEMMA SuspendStep ==
  ASSUME IInv, NEW t \in Tasks, NEW at \in Awaits, NEW o \in Outcomes, NEW c \in ConnStates,
         Suspend(t, at, o, c), OnlyCancels(t), Suspended(at, o, c, cancels'[t], failed'[t]),
         at \in AsyncpgAwaits => driver[t] = "asyncpg",
         at \in PsycopgAwaits => driver[t] = "psycopg"
  PROVE  IInv'
<1>1. /\ pc'[t] = at /\ out'[t] = o /\ conn'[t] = c /\ result' = result
      /\ \A u \in Tasks : u # t => pc'[u] = pc[u] /\ conn'[u] = conn[u] /\ out'[u] = out[u]
  BY DEF Suspend, IInv, TypeOK
<1>2. TypeOK'
  BY <1>1 DEF Suspend, OnlyCancels, IInv, TypeOK, ConnStates
<1>3. CallShape'
  <2> SUFFICES ASSUME NEW u \in Tasks, pc'[u] # "idle"
               PROVE  Suspended(pc'[u], out'[u], conn'[u], cancels'[u], failed'[u])
    BY DEF CallShape
  <2>1. CASE u = t
    BY <1>1, <2>1
  <2>2. CASE u # t
    BY <1>1, <2>2 DEF OnlyCancels, IInv, CallShape
  <2> QED  BY <2>1, <2>2
<1>4. AnswerIsWhole' /\ AsyncpgClosesItsConnection'
  BY <1>1, Names DEF OnlyCancels, IInv, AnswerIsWhole, AsyncpgClosesItsConnection
<1> QED  BY <1>2, <1>3, <1>4 DEF IInv

LEMMA DriverOf ==
  ASSUME TypeOK, NEW t \in Tasks
  PROVE  driver[t] \in {"asyncpg", "psycopg"}
BY DriversAssumption DEF TypeOK

LEMMA FinallyStep ==
  ASSUME IInv, NEW t \in Tasks, NEW o \in Ways, NEW c \in ConnStates,
         Finally(t, o, c), OnlyCancels(t),
         o \in Answers => cancels'[t] = 0 /\ ~failed'[t] /\ c \in {"open", "lost"}
  PROVE  IInv'
<1>1. CASE c # "open"
  BY <1>1, EndCallStep DEF Finally
<1>2. CASE c = "open"
  <2> DEFINE at == IF driver[t] = "asyncpg" THEN "close" ELSE "cancelSafe"
  <2>1. Suspend(t, at, o, c)
    BY <1>2 DEF Finally
  <2>2. at \in Awaits /\ o \in Outcomes
    BY Names
  <2>3. Suspended(at, o, c, cancels'[t], failed'[t])
    BY <1>2 DEF Suspended, Ways, Answers
  <2>4. /\ at \in AsyncpgAwaits => driver[t] = "asyncpg"
        /\ at \in PsycopgAwaits => driver[t] = "psycopg"
    BY Names, DriverOf DEF IInv
  <2> HIDE DEF at
  <2> QED  BY <2>1, <2>2, <2>3, <2>4, SuspendStep
<1> QED  BY <1>1, <1>2

LEMMA LeaveBlockStep ==
  ASSUME IInv, NEW t \in Tasks, NEW o \in Ways, NEW c \in {"open", "lost"},
         LeaveBlock(t, o, c), OnlyCancels(t), o \in Answers => cancels'[t] = 0 /\ ~failed'[t]
  PROVE  IInv'
<1>0. c \in ConnStates
  BY DEF ConnStates
<1>1. CASE driver[t] = "psycopg"
  BY <1>0, <1>1, FinallyStep DEF LeaveBlock
<1>2. CASE driver[t] # "psycopg"
  <2> DEFINE at == IF o \in Answers THEN "commit" ELSE "rollback"
  <2>1. Suspend(t, at, o, c) /\ driver[t] = "asyncpg"
    BY <1>2, DriverOf DEF LeaveBlock, IInv, Answers
  <2>2. at \in Awaits /\ at \in AsyncpgAwaits /\ at \notin PsycopgAwaits /\ o \in Outcomes
    BY Names
  <2>3. Suspended(at, o, c, cancels'[t], failed'[t])
    BY DEF Suspended, Ways
  <2> HIDE DEF at
  <2> QED  BY <1>0, <2>1, <2>2, <2>3, SuspendStep
<1> QED  BY <1>1, <1>2

-----------------------------------------------------------------------------
(* The steps of a call *)

\* What is known of a call at its await.
LEMMA CallAt ==
  ASSUME IInv, NEW t \in Tasks, pc[t] # "idle"
  PROVE  /\ pc[t] \in Awaits /\ out[t] \in Outcomes
         /\ Suspended(pc[t], out[t], conn[t], cancels[t], failed[t])
         /\ pc[t] # "connect" => conn[t] \in {"open", "lost"} /\ AfterError(t) \subseteq {"open", "lost"}
BY DEF IInv, TypeOK, CallShape, Suspended, AfterError

LEMMA SameCancels ==
  ASSUME IInv, NEW t \in Tasks, Returned \/ Raised(t)
  PROVE  /\ OnlyCancels(t) /\ cancels'[t] = cancels[t]
         /\ Returned => failed'[t] = failed[t]
BY DEF Returned, Raised, OnlyCancels, IInv, TypeOK

LEMMA CallStep ==
  ASSUME IInv, NEW t \in Tasks, Call(t)
  PROVE  IInv'
<1>1. OnlyCancels(t) /\ cancels'[t] = 0 /\ ~failed'[t]
  BY CancelsAssumption DEF Call, OnlyCancels, IInv, TypeOK
<1>2. Suspended("connect", "none", "none", cancels'[t], failed'[t])
  BY <1>1, Names DEF Suspended
<1> QED  BY <1>1, <1>2, SuspendStep, Names DEF Call, ConnStates

LEMMA ConnectedStep ==
  ASSUME IInv, NEW t \in Tasks, Connected(t)
  PROVE  IInv'
<1>1. OnlyCancels(t) /\ cancels'[t] = cancels[t] /\ (Returned => failed'[t] = failed[t])
  BY SameCancels DEF Connected
<1>2. cancels[t] = 0 /\ ~failed[t]
  BY CallAt DEF Connected, Suspended
<1>3. CASE Suspend(t, Asks[driver[t]], "none", "open") /\ Returned
  <2> DEFINE at == Asks[driver[t]]
  <2>1. /\ at \in {"begin", "query"}
        /\ at \in AsyncpgAwaits => driver[t] = "asyncpg"
        /\ at \notin PsycopgAwaits
    BY Names, DriverOf DEF Asks, IInv
  <2>2. Suspended(at, "none", "open", cancels'[t], failed'[t])
    BY <1>1, <1>2, <1>3, <2>1 DEF Suspended
  <2>3. at \in Awaits /\ "none" \in Outcomes /\ "open" \in ConnStates
    BY <2>1, Names DEF ConnStates
  <2> HIDE DEF at
  <2>4. Suspend(t, at, "none", "open")
    BY <1>3 DEF at
  <2> QED  BY <1>1, <2>1, <2>2, <2>3, <2>4, SuspendStep
<1>4. CASE Finally(t, "error", "none")
  BY <1>1, <1>4, FinallyStep DEF Ways, Answers, ConnStates
<1> QED  BY <1>3, <1>4 DEF Connected

LEMMA BegunStep ==
  ASSUME IInv, NEW t \in Tasks, Begun(t)
  PROVE  IInv'
<1>1. OnlyCancels(t) /\ cancels'[t] = cancels[t] /\ (Returned => failed'[t] = failed[t])
  BY SameCancels DEF Begun
<1>2. cancels[t] = 0 /\ ~failed[t] /\ conn[t] \in {"open", "lost"} /\ AfterError(t) \subseteq {"open", "lost"}
  BY CallAt DEF Begun, Suspended
<1>3. CASE Suspend(t, "query", "none", conn[t]) /\ Returned
  <2>1. Suspended("query", "none", conn[t], cancels'[t], failed'[t])
    BY <1>1, <1>2, <1>3 DEF Suspended
  <2> QED  BY <1>1, <1>2, <1>3, <2>1, SuspendStep, Names DEF ConnStates
<1>4. CASE \E c \in AfterError(t) : Finally(t, "error", c)
  BY <1>1, <1>2, <1>4, FinallyStep DEF Ways, Answers, ConnStates
<1> QED  BY <1>3, <1>4 DEF Begun

LEMMA AnsweredStep ==
  ASSUME IInv, NEW t \in Tasks, Answered(t)
  PROVE  IInv'
<1>1. OnlyCancels(t) /\ cancels'[t] = cancels[t] /\ (Returned => failed'[t] = failed[t])
  BY SameCancels DEF Answered
<1>2. cancels[t] = 0 /\ ~failed[t] /\ conn[t] \in {"open", "lost"} /\ AfterError(t) \subseteq {"open", "lost"}
  BY CallAt DEF Answered, Suspended
<1>3. CASE (\E o \in {"healthy", "unhealthy"} : LeaveBlock(t, o, conn[t])) /\ Returned
  BY <1>1, <1>2, <1>3, LeaveBlockStep DEF Ways, Answers
<1>4. CASE \E c \in AfterError(t) : LeaveBlock(t, "error", c)
  BY <1>1, <1>2, <1>4, LeaveBlockStep DEF Ways, Answers
<1> QED  BY <1>3, <1>4 DEF Answered

LEMMA TransactionEndedStep ==
  ASSUME IInv, NEW t \in Tasks, TransactionEnded(t)
  PROVE  IInv'
<1>1. OnlyCancels(t) /\ cancels'[t] = cancels[t] /\ (Returned => failed'[t] = failed[t])
  BY SameCancels DEF TransactionEnded
<1>2. /\ out[t] \in Ways /\ (out[t] \in Answers => cancels[t] = 0 /\ ~failed[t])
      /\ AfterError(t) \subseteq {"open", "lost"}
  BY CallAt DEF TransactionEnded, Suspended, Ways, Answers
<1>3. CASE conn[t] = "open" /\ Finally(t, out[t], conn[t]) /\ Returned
  BY <1>1, <1>2, <1>3, FinallyStep DEF ConnStates
<1>4. CASE \E c \in AfterError(t) : Finally(t, "error", c)
  BY <1>1, <1>2, <1>4, FinallyStep DEF Ways, Answers, ConnStates
<1> QED  BY <1>3, <1>4 DEF TransactionEnded

LEMMA CleanedUpStep ==
  ASSUME IInv, NEW t \in Tasks, CancelledSafely(t) \/ Closed(t)
  PROVE  IInv'
<1>1. OnlyCancels(t) /\ cancels'[t] = cancels[t] /\ (Returned => failed'[t] = failed[t])
  BY SameCancels DEF CancelledSafely, Closed
<1>2. /\ out[t] \in Ways /\ (out[t] \in Answers => cancels[t] = 0 /\ ~failed[t])
      /\ AfterError(t) \subseteq {"open", "lost"}
  BY CallAt DEF CancelledSafely, Closed, Suspended, Ways, Answers
<1>3. CASE \/ EndCall(t, out[t], "closed") /\ Returned
           \/ EndCall(t, "error", "closed")
  BY <1>1, <1>2, <1>3, EndCallStep DEF Ways, Answers, ConnStates
<1>4. CASE CancelledSafely(t) /\ \E c \in AfterError(t) : EndCall(t, "error", c)
  <2>1. driver[t] # "asyncpg"
    BY <1>4, Names DEF CancelledSafely, IInv, TypeOK
  <2> QED  BY <1>1, <1>2, <1>4, <2>1, EndCallStep DEF Ways, Answers, ConnStates
<1> QED  BY <1>3, <1>4 DEF CancelledSafely, Closed

LEMMA CancelStep ==
  ASSUME IInv, NEW t \in Tasks, Cancel(t)
  PROVE  IInv'
<1>1. OnlyCancels(t)
  BY CancelsAssumption DEF Cancel, OnlyCancels, IInv, TypeOK
<1>2. /\ pc[t] \in Awaits /\ pc[t] # "idle" /\ conn[t] \in ConnStates
      /\ "cancelled" \in Ways /\ "cancelled" \notin Answers
  BY Names DEF Cancel, IInv, TypeOK, ConnStates, Ways, Answers
<1>3. CASE pc[t] \in {"connect", "begin", "commit", "rollback"}
  <2>1. Finally(t, "cancelled", conn[t])
    BY <1>3 DEF Cancel
  <2> QED  BY <1>1, <1>2, <2>1, FinallyStep
<1>4. CASE pc[t] = "query"
  <2>1. LeaveBlock(t, "cancelled", conn[t])
    BY <1>4 DEF Cancel
  <2> QED  BY <1>1, <1>2, <1>4, <2>1, CallAt, LeaveBlockStep
<1>5. CASE pc[t] = "cancelSafe"
  <2>1. EndCall(t, "cancelled", conn[t])
    BY <1>5 DEF Cancel
  <2>2. driver[t] # "asyncpg"
    BY <1>5, Names DEF IInv, TypeOK
  <2> QED  BY <1>1, <1>2, <2>1, <2>2, EndCallStep
<1>6. CASE pc[t] = "close"
  <2>1. EndCall(t, "cancelled", "closed")
    BY <1>6 DEF Cancel
  <2> QED  BY <1>1, <1>2, <2>1, EndCallStep DEF ConnStates
<1> QED  BY <1>2, <1>3, <1>4, <1>5, <1>6, Names

LEMMA DropStep ==
  ASSUME IInv, NEW t \in Tasks, Drop(t)
  PROVE  IInv'
<1>1. /\ pc[t] # "idle" /\ pc[t] # "connect" /\ conn' = [conn EXCEPT ![t] = "lost"]
      /\ UNCHANGED <<driver, pc, out, result, cancels, failed>>
  BY Names DEF Drop
<1>2. conn'[t] = "lost" /\ \A u \in Tasks : u # t => conn'[u] = conn[u]
  BY <1>1 DEF IInv, TypeOK
<1>3. TypeOK'
  BY <1>1 DEF IInv, TypeOK
<1>4. CallShape'
  BY <1>1, <1>2 DEF IInv, CallShape, Suspended
<1>5. AnswerIsWhole' /\ AsyncpgClosesItsConnection'
  BY <1>1, <1>2 DEF IInv, AnswerIsWhole, AsyncpgClosesItsConnection
<1> QED  BY <1>3, <1>4, <1>5 DEF IInv

-----------------------------------------------------------------------------
(* The invariant and what follows from it *)

LEMMA InvariantStep == IInv /\ [Next]_vars => IInv'
<1> SUFFICES ASSUME IInv, [Next]_vars PROVE IInv'
  OBVIOUS
<1>1. ASSUME NEW t \in Tasks, Call(t) \/ Cancel(t) \/ Drop(t)
      PROVE  IInv'
  BY <1>1, CallStep, CancelStep, DropStep
<1>2. ASSUME NEW t \in Tasks, Proceed(t)
      PROVE  IInv'
  BY <1>2, ConnectedStep, BegunStep, AnsweredStep, TransactionEndedStep, CleanedUpStep DEF Proceed
<1>3. CASE UNCHANGED vars
  BY <1>3 DEF vars, IInv, TypeOK, CallShape, AnswerIsWhole, AsyncpgClosesItsConnection
<1> QED  BY <1>1, <1>2, <1>3 DEF Next

LEMMA Invariant == Spec => []IInv
BY InitInvariant, InvariantStep, PTL DEF Spec

\* Every state the calls can reach is well-typed, each at an await of its driver.
THEOREM TypeCorrect == Spec => []TypeOK
<1>1. IInv => TypeOK
  BY DEF IInv
<1> QED  BY <1>1, Invariant, PTL

\* A call that has answered was not cancelled, none of its awaits has raised, and it
\* has closed its connection, or the server has.
THEOREM AnswersAreWhole == Spec => []AnswerIsWhole
<1>1. IInv => AnswerIsWhole
  BY DEF IInv
<1> QED  BY <1>1, Invariant, PTL

\* No way to the end of a call with asyncpg leaves its connection open.
THEOREM AsyncpgAlwaysCloses == Spec => []AsyncpgClosesItsConnection
<1>1. IInv => AsyncpgClosesItsConnection
  BY DEF IInv
<1> QED  BY <1>1, Invariant, PTL
=============================================================================
