---------------------------- MODULE SharedClient ----------------------------
(***************************************************************************)
(* What a caching health check promises about its client, without the      *)
(* lock and the suspended calls that keep the promise: there is one slot;  *)
(* a new client enters it only when it is empty or as the close of the old *)
(* one ends; a call borrows only the client in the slot, while nobody is   *)
(* closing it and on the event loop it was made on.                        *)
(***************************************************************************)
CONSTANTS Tasks, Clients, Loops, NoClient, NoLoop

VARIABLES
    slot,       \* the client kept for the next call
    closing,    \* its close is under way
    home,       \* the loop the client in the slot was made on
    borrowed,   \* the client each call is using
    loop        \* the running event loop

vars == <<slot, closing, home, borrowed, loop>>

Init ==
    /\ slot = NoClient /\ closing = FALSE /\ home = NoLoop
    /\ borrowed = [t \in Tasks |-> NoClient]
    /\ loop \in Loops

Open(c) ==
    /\ slot = NoClient \/ closing
    /\ c # slot
    /\ slot' = c /\ closing' = FALSE /\ home' = loop

BeginClose ==
    /\ slot # NoClient /\ ~closing
    /\ closing' = TRUE /\ UNCHANGED <<slot, home>>

\* The close was cancelled or raised, and the client was kept.
AbortClose == closing /\ closing' = FALSE /\ UNCHANGED <<slot, home>>

EndClose ==
    /\ closing
    /\ slot' = NoClient /\ closing' = FALSE /\ home' = NoLoop

SlotStep ==
    \/ \E c \in Clients : Open(c)
    \/ BeginClose \/ AbortClose \/ EndClose
    \/ UNCHANGED <<slot, closing, home>>

Borrow(t) ==
    /\ borrowed[t] = NoClient
    /\ slot' # NoClient /\ ~closing' /\ home' = loop
    /\ borrowed' = [borrowed EXCEPT ![t] = slot']

GiveBack(t) ==
    /\ borrowed[t] # NoClient
    /\ borrowed' = [borrowed EXCEPT ![t] = NoClient]

\* The loop changes only when every client has been given back.
MoveToLoop ==
    /\ borrowed = [t \in Tasks |-> NoClient]
    /\ loop' \in Loops
    /\ UNCHANGED <<slot, closing, home, borrowed>>

Next ==
    \/ /\ SlotStep
       /\ (\E t \in Tasks : Borrow(t) \/ GiveBack(t)) \/ UNCHANGED borrowed
       /\ UNCHANGED loop
    \/ MoveToLoop

Spec == Init /\ [][Next]_vars
=============================================================================
