--------------------------- MODULE PostgresCheck ---------------------------
(***************************************************************************)
(* The PostgreSQL checks (src/fast_healthchecks/checks/postgresql): every  *)
(* call opens a connection, asks one query and closes the connection in a  *)
(* finally block, with healthcheck_safe around it.  Calls overlap and are  *)
(* cancelled by the timeouts of probes or by their callers.                *)
(*                                                                         *)
(* The drivers are external.  asyncpg asks inside a transaction, and its   *)
(* close() ends the connection even when it raises.  psycopg first cancels *)
(* what is under way with cancel_safe(), which may time out and raise; its *)
(* close() then ends the connection without an await.  Nothing but connect *)
(* and the clean-up has a timeout.                                         *)
(***************************************************************************)
EXTENDS Naturals

CONSTANTS
    Tasks,          \* tasks that call a PostgreSQL check
    Drivers,        \* the drivers whose checks they call
    MaxCancels      \* bound: cancellations of one call

ASSUME DriversAssumption == Drivers \subseteq {"asyncpg", "psycopg"}
ASSUME CancelsAssumption == MaxCancels \in Nat

VARIABLES
    driver,     \* of each task: the driver of its check
    pc,         \* the await the call is suspended at
    conn,       \* the connection of the call
    out,        \* how the body of the check is being left
    result,     \* how the last call ended
    cancels,    \* cancellations the call has got
    failed      \* history: an await of the call has raised

vars == <<driver, pc, conn, out, result, cancels, failed>>

Awaits   == {"connect", "begin", "query", "commit", "rollback", "cancelSafe", "close"}
Outcomes == {"none", "healthy", "unhealthy", "error", "cancelled"}

\* The awaits only one of the drivers has.
AsyncpgAwaits == {"begin", "commit", "rollback", "close"}
PsycopgAwaits == {"cancelSafe"}

\* Types, and every call at an await of its driver.
TypeOK ==
    /\ driver \in [Tasks -> Drivers]
    /\ pc \in [Tasks -> Awaits \union {"idle"}]
    /\ \A t \in Tasks : /\ pc[t] \in AsyncpgAwaits => driver[t] = "asyncpg"
                        /\ pc[t] \in PsycopgAwaits => driver[t] = "psycopg"
    /\ conn \in [Tasks -> {"none", "open", "lost", "closed"}]
    /\ out \in [Tasks -> Outcomes] /\ result \in [Tasks -> Outcomes]
    /\ cancels \in [Tasks -> 0..MaxCancels] /\ failed \in [Tasks -> BOOLEAN]

Init ==
    /\ driver \in [Tasks -> Drivers]
    /\ pc = [t \in Tasks |-> "idle"] /\ conn = [t \in Tasks |-> "none"]
    /\ out = [t \in Tasks |-> "none"] /\ result = [t \in Tasks |-> "none"]
    /\ cancels = [t \in Tasks |-> 0] /\ failed = [t \in Tasks |-> FALSE]

----------------------------------------------------------------------------
(* Leaving the body *)

\* healthcheck_safe: an Exception has become a failed result, a cancellation
\* passes.
EndCall(t, o, c) ==
    /\ pc' = [pc EXCEPT ![t] = "idle"]
    /\ result' = [result EXCEPT ![t] = o]
    /\ out' = [out EXCEPT ![t] = "none"]
    /\ conn' = [conn EXCEPT ![t] = c]

Suspend(t, at, o, c) ==
    /\ pc' = [pc EXCEPT ![t] = at]
    /\ out' = [out EXCEPT ![t] = o]
    /\ conn' = [conn EXCEPT ![t] = c]
    /\ UNCHANGED result

\* Mutant: the connection is closed in an except clause for Exception.
FinallyAnswered(t, o, c) ==
    IF c # "open" \/ o = "cancelled" THEN EndCall(t, o, c)
    ELSE Suspend(t, IF driver[t] = "asyncpg" THEN "close" ELSE "cancelSafe", o, c)

\* Mutant: both drivers are closed in one way.
FinallyAlike(t, o, c) ==
    IF c # "open" THEN EndCall(t, o, c) ELSE Suspend(t, "close", o, c)

\* The finally block, with the body left by o and the connection in state c.
Finally(t, o, c) ==
    IF c # "open" THEN EndCall(t, o, c)
    ELSE Suspend(t, IF driver[t] = "asyncpg" THEN "close" ELSE "cancelSafe", o, c)

----------------------------------------------------------------------------
(* The steps of a call *)

Call(t) ==
    /\ pc[t] = "idle"
    /\ Suspend(t, "connect", "none", "none")
    /\ cancels' = [cancels EXCEPT ![t] = 0] /\ failed' = [failed EXCEPT ![t] = FALSE]
    /\ UNCHANGED driver

Asks == [asyncpg |-> "begin", psycopg |-> "query"]

\* The await has returned, or raised an Exception, which leaves of the connection c.
Returned == UNCHANGED <<driver, cancels, failed>>
Raised(t) == failed' = [failed EXCEPT ![t] = TRUE] /\ UNCHANGED <<driver, cancels>>
AfterError(t) == {conn[t], "lost"}

Connected(t) ==
    /\ pc[t] = "connect"
    /\ \/ Suspend(t, Asks[driver[t]], "none", "open") /\ Returned
       \/ Finally(t, "error", "none") /\ Raised(t)

\* transaction.__aenter__; when it raises __aexit__ is not called.
Begun(t) ==
    /\ pc[t] = "begin"
    /\ \/ Suspend(t, "query", "none", conn[t]) /\ Returned
       \/ (\E c \in AfterError(t) : Finally(t, "error", c)) /\ Raised(t)

\* The block around the query is left: asyncpg ends the transaction, which does
\* not ask whether the connection is still there; a psycopg cursor just closes.
LeaveBlock(t, o, c) ==
    IF driver[t] = "psycopg" THEN Finally(t, o, c)
    ELSE Suspend(t, IF o \in {"healthy", "unhealthy"} THEN "commit" ELSE "rollback", o, c)

Answered(t) ==
    /\ pc[t] = "query"
    /\ \/ (\E o \in {"healthy", "unhealthy"} : LeaveBlock(t, o, conn[t])) /\ Returned
       \/ (\E c \in AfterError(t) : LeaveBlock(t, "error", c)) /\ Raised(t)

\* Mutant: a transaction that cannot be ended leaves the answer as it is.
TransactionEndedQuietly(t) ==
    /\ pc[t] \in {"commit", "rollback"}
    /\ \/ conn[t] = "open" /\ Finally(t, out[t], conn[t]) /\ Returned
       \/ (\E c \in AfterError(t) : Finally(t, out[t], c)) /\ Raised(t)

\* transaction.__aexit__; an Exception of it replaces how the block was left.
TransactionEnded(t) ==
    /\ pc[t] \in {"commit", "rollback"}
    /\ \/ conn[t] = "open" /\ Finally(t, out[t], conn[t]) /\ Returned
       \/ (\E c \in AfterError(t) : Finally(t, "error", c)) /\ Raised(t)

\* psycopg: cancel_safe returned and close() follows at once, or it raised.
CancelledSafely(t) ==
    /\ pc[t] = "cancelSafe"
    /\ \/ EndCall(t, out[t], "closed") /\ Returned
       \/ (\E c \in AfterError(t) : EndCall(t, "error", c)) /\ Raised(t)

\* asyncpg: close() returned, or raised after aborting the connection.
Closed(t) ==
    /\ pc[t] = "close"
    /\ \/ EndCall(t, out[t], "closed") /\ Returned
       \/ EndCall(t, "error", "closed") /\ Raised(t)

\* The server drops the connection of a call.
Drop(t) ==
    /\ pc[t] \in Awaits \ {"connect"} /\ conn[t] = "open"
    /\ conn' = [conn EXCEPT ![t] = "lost"]
    /\ UNCHANGED <<driver, pc, out, result, cancels, failed>>

----------------------------------------------------------------------------

\* CancelledError at the await the call is suspended at.
Cancel(t) ==
    /\ pc[t] \in Awaits /\ cancels[t] < MaxCancels
    /\ cancels' = [cancels EXCEPT ![t] = @ + 1] /\ failed' = [failed EXCEPT ![t] = TRUE]
    /\ CASE pc[t] \in {"connect", "begin", "commit", "rollback"} -> Finally(t, "cancelled", conn[t])
         [] pc[t] = "query" -> LeaveBlock(t, "cancelled", conn[t])
         [] pc[t] = "cancelSafe" -> EndCall(t, "cancelled", conn[t])
         [] pc[t] = "close" -> EndCall(t, "cancelled", "closed")
    /\ UNCHANGED driver

Proceed(t) ==
    \/ Connected(t) \/ Begun(t) \/ Answered(t) \/ TransactionEnded(t)
    \/ CancelledSafely(t) \/ Closed(t)

Next == \E t \in Tasks : Call(t) \/ Proceed(t) \/ Cancel(t) \/ Drop(t)

Spec == Init /\ [][Next]_vars

----------------------------------------------------------------------------
(* Properties *)

\* A call answers with what its query has said only when all of it went well: it
\* was not cancelled, none of its awaits has raised, before the query or after it,
\* in the end of the transaction, in cancel_safe() or in the close, and it has
\* closed its connection, unless the server has.
AnswerIsWhole ==
    \A t \in Tasks : pc[t] = "idle" /\ result[t] \in {"healthy", "unhealthy"} =>
        ~failed[t] /\ cancels[t] = 0 /\ conn[t] \in {"closed", "lost"}

\* However a call with asyncpg ends, it leaves no connection open.
AsyncpgClosesItsConnection ==
    \A t \in Tasks : driver[t] = "asyncpg" /\ pc[t] = "idle" => conn[t] # "open"

\* docs/lifecycle.md:5: "RabbitMQ and PostgreSQL checks open and close their
\* connection per call".
ClosesItsConnection == \A t \in Tasks : pc[t] = "idle" => conn[t] # "open"
=============================================================================
