------------------------------ MODULE RpcCalls ------------------------------
(* What CodexAppServer.request promises its callers: calls are made one at  *)
(* a time, each ends exactly once, in its own answer, in a failure or in a   *)
(* timeout, and none begins on a session that is known to be dead.           *)
EXTENDS Integers

CONSTANT Calls      \* the calls, a set of numbers: they are numbered in the order they are made

VARIABLES
    status,         \* per call
    heard,          \* per call: the call whose answer it returned, or 0
    down            \* the session is dead for good

vars == <<status, heard, down>>

Over == {"answered", "failed", "expired"}

Init ==
    /\ status = [k \in Calls |-> "new"]
    /\ heard = [k \in Calls |-> 0]
    /\ down = FALSE

MyTurn(k) == status[k] = "new" /\ \A j \in Calls : j < k => status[j] \in Over

Begin(k) ==
    /\ MyTurn(k) /\ ~down
    /\ status' = [status EXCEPT ![k] = "open"]
    /\ UNCHANGED <<heard, down>>

Refuse(k) ==
    /\ MyTurn(k) /\ down
    /\ status' = [status EXCEPT ![k] = "failed"]
    /\ UNCHANGED <<heard, down>>

Answer(k) ==
    /\ status[k] = "open"
    /\ status' = [status EXCEPT ![k] = "answered"]
    /\ heard' = [heard EXCEPT ![k] = k]
    /\ UNCHANGED down

\* A failure may be the moment the session is found dead.
Fail(k) ==
    /\ status[k] = "open"
    /\ status' = [status EXCEPT ![k] = "failed"]
    /\ down' \in {down, TRUE}
    /\ UNCHANGED heard

Expire(k) ==
    /\ status[k] = "open"
    /\ status' = [status EXCEPT ![k] = "expired"]
    /\ UNCHANGED <<heard, down>>

GoDown ==
    /\ ~down /\ down' = TRUE
    /\ UNCHANGED <<status, heard>>

Next == GoDown \/ \E k \in Calls : Begin(k) \/ Refuse(k) \/ Answer(k) \/ Fail(k) \/ Expire(k)

Spec == Init /\ [][Next]_vars

\* Every call that began comes back.
CallsReturn == \A k \in Calls : (status[k] = "open") ~> (status[k] \in Over)
=============================================================================
