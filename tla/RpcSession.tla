----------------------------- MODULE RpcSession -----------------------------
(***************************************************************************)
(* CodexAppServer's JSON-RPC session: the thread inside request(), the     *)
(* reader thread (_read_loop), and the app-server child on the other end   *)
(* of two pipes.  The two threads share _pending, _dead and the write lock *)
(* and interleave between bytecodes, so each step here touches shared      *)
(* state once: the reader looks an id up in one step and pops it in        *)
(* another.                                                                *)
(*                                                                         *)
(* One thread at a time makes requests (Sparkd's serial lock; boot is      *)
(* single-threaded).  Notifications go to Sparkd's events and are left     *)
(* out.  A request's id is its position in the order of calls; a message   *)
(* also carries, for the properties only, the call it is about.            *)
(***************************************************************************)
EXTENDS Integers, Sequences, FiniteSets

CONSTANTS
    MaxCalls,     \* bound: how many requests are made
    MaxAsks,      \* bound: how many requests the server makes of its client
    StdinCap,     \* lines the pipe to the child holds; a write then blocks
    StdoutCap     \* lines the pipe from the child holds

ASSUME BoundsAssumption ==
    /\ MaxCalls \in Nat /\ MaxAsks \in Nat
    /\ StdinCap \in Nat /\ StdoutCap \in Nat

VARIABLES
    call,         \* the call being made, or the last one made; _next_id - 1
    caller,       \* where its thread is in request()
    outcome,      \* per call: how it ended
    heard,        \* per call: the call whose reply it returned, or 0
    pending,      \* _pending: the ids whose waiters are registered
    box,          \* per call: what its waiter queue holds
    dead,         \* _dead is set
    writer,       \* owner of _write_lock
    reader,       \* where the reader thread is
    line,         \* the line it works on
    roster,       \* the ids its final sweep found in _pending
    stdin, stdout,\* the pipes
    child,        \* "alive" or "exited"
    asked,        \* requests the child has read and not answered
    asks          \* server-initiated requests so far

callerVars == <<call, caller, outcome, heard>>
readerVars == <<reader, line, roster>>
childVars  == <<child, asked, asks>>
vars == <<callerVars, pending, box, dead, writer, readerVars, stdin, stdout, childVars>>

Calls == 1..MaxCalls
NoLine == [kind |-> "none", id |-> 0, about |-> 0]
Request(i, k) == [kind |-> "request", id |-> i, about |-> k]
Reply(m) == [m EXCEPT !.kind = "reply"]
Ask == [kind |-> "ask", id |-> 0, about |-> 0]
Verdict == [kind |-> "verdict", id |-> 0, about |-> 0]   \* our answer to an ask
Death == [kind |-> "death", id |-> 0, about |-> 0]       \* the sweep's error

Messages == [kind : {"none", "request", "reply", "ask", "verdict", "death"},
             id : 0..MaxCalls, about : 0..MaxCalls]

\* The JSON-RPC id of a call.
IdentSlip(k) == k % 2          \* ids are reused
IdentShiftSlip(k) == k + 1     \* the waiter goes under the next id
Ident(k) == k

TypeOK ==
    /\ call \in 0..MaxCalls
    /\ caller \in {"idle", "checked", "registered", "writing", "waiting", "expired"}
    /\ outcome \in [Calls -> {"none", "answered", "failed", "expired"}]
    /\ heard \in [Calls -> 0..MaxCalls]
    /\ pending \subseteq 0..MaxCalls
    /\ box \in [0..MaxCalls -> Messages]
    /\ dead \in BOOLEAN
    /\ writer \in {"nobody", "caller", "reader"}
    /\ reader \in {"reading", "found", "popped", "asking", "writing", "dying",
                   "sweeping", "gone"}
    /\ line \in Messages
    /\ roster \subseteq 0..MaxCalls
    /\ stdin \in Seq(Messages) /\ Len(stdin) <= StdinCap
    /\ stdout \in Seq(Messages) /\ Len(stdout) <= StdoutCap
    /\ child \in {"alive", "exited"}
    /\ asked \subseteq Messages
    /\ asks \in 0..MaxAsks

Init ==
    /\ call = 0 /\ caller = "idle"
    /\ outcome = [k \in Calls |-> "none"]
    /\ heard = [k \in Calls |-> 0]
    /\ pending = {} /\ box = [i \in 0..MaxCalls |-> NoLine]
    /\ dead = FALSE /\ writer = "nobody"
    /\ reader = "reading" /\ line = NoLine /\ roster = {}
    /\ stdin = <<>> /\ stdout = <<>>
    /\ child = "alive" /\ asked = {} /\ asks = 0

-----------------------------------------------------------------------------
(* request().                                                              *)

Ends(result) ==
    /\ caller' = "idle"
    /\ outcome' = [outcome EXCEPT ![call] = result]

\* No _raise_if_dead.
BeginSlip ==
    /\ caller = "idle" /\ call < MaxCalls
    /\ call' = call + 1
    /\ caller' = "checked"
    /\ UNCHANGED <<outcome, heard, pending, box, dead, writer, readerVars, stdin,
                   stdout, childVars>>

\* _raise_if_dead lets the call through.
Begin ==
    /\ caller = "idle" /\ call < MaxCalls /\ ~dead
    /\ call' = call + 1
    /\ caller' = "checked"
    /\ UNCHANGED <<outcome, heard, pending, box, dead, writer, readerVars, stdin,
                   stdout, childVars>>

\* _raise_if_dead raises.
BeginDead ==
    /\ caller = "idle" /\ call < MaxCalls /\ dead
    /\ call' = call + 1
    /\ outcome' = [outcome EXCEPT ![call + 1] = "failed"]
    /\ UNCHANGED <<caller, heard, pending, box, dead, writer, readerVars, stdin,
                   stdout, childVars>>

\* A fresh waiter under a fresh id.
Register ==
    /\ caller = "checked"
    /\ caller' = "registered"
    /\ pending' = pending \union {Ident(call)}
    /\ box' = [box EXCEPT ![Ident(call)] = NoLine]
    /\ UNCHANGED <<call, outcome, heard, dead, writer, readerVars, stdin, stdout,
                   childVars>>

LockToSend ==
    /\ caller = "registered" /\ writer = "nobody"
    /\ caller' = "writing" /\ writer' = "caller"
    /\ UNCHANGED <<call, outcome, heard, pending, box, dead, readerVars, stdin,
                   stdout, childVars>>

\* write and flush return: the line is in the pipe.
Send ==
    /\ caller = "writing" /\ child = "alive" /\ Len(stdin) < StdinCap
    /\ stdin' = Append(stdin, Request(Ident(call), call))
    /\ caller' = "waiting" /\ writer' = "nobody"
    /\ UNCHANGED <<call, outcome, heard, pending, box, dead, readerVars, stdout,
                   childVars>>

\* EPIPE.  The waiter stays registered: only a dead session can hold one.
SendFails ==
    /\ caller = "writing" /\ child = "exited"
    /\ dead' = TRUE /\ writer' = "nobody"
    /\ Ends("failed")
    /\ UNCHANGED <<call, heard, pending, box, readerVars, stdin, stdout, childVars>>

\* waiter.get returns: a result, or an error (the server's or the sweep's).
Receive(result) ==
    LET mail == box[Ident(call)]
    IN  /\ caller = "waiting" /\ mail # NoLine
        /\ mail.kind = "death" => result = "failed"
        /\ Ends(result)
        /\ heard' = IF result = "answered"
                      THEN [heard EXCEPT ![call] = mail.about] ELSE heard
        /\ UNCHANGED <<call, pending, box, dead, writer, readerVars, stdin,
                       stdout, childVars>>

ExpireSlip == FALSE            \* get() without a timeout

\* waiter.get raises Empty ...
Expire ==
    /\ caller = "waiting" /\ box[Ident(call)] = NoLine
    /\ caller' = "expired"
    /\ UNCHANGED <<call, outcome, heard, pending, box, dead, writer, readerVars,
                   stdin, stdout, childVars>>

\* The waiter of an expired call stays registered.
ForgetSlip ==
    /\ caller = "expired"
    /\ Ends("expired")
    /\ UNCHANGED <<call, heard, pending, box, dead, writer, readerVars, stdin,
                   stdout, childVars>>

\* ... and the id is popped if it is still there.
Forget ==
    /\ caller = "expired"
    /\ pending' = pending \ {Ident(call)}
    /\ Ends("expired")
    /\ UNCHANGED <<call, heard, box, dead, writer, readerVars, stdin, stdout,
                   childVars>>

-----------------------------------------------------------------------------
(* The reader thread: _read_loop, _dispatch, _answer_server_request.       *)

\* A server request is taken for a reply nobody checks the id of.
TakeLineSlip ==
    /\ reader = "reading" /\ stdout # <<>>
    /\ stdout' = Tail(stdout)
    /\ line' = Head(stdout)
    /\ reader' = "found"
    /\ UNCHANGED <<callerVars, pending, box, dead, writer, roster, stdin,
                   childVars>>

TakeLine ==
    LET m == Head(stdout)
    IN  /\ reader = "reading" /\ stdout # <<>>
        /\ stdout' = Tail(stdout)
        /\ line' = m
        /\ reader' = IF m.kind = "ask" THEN "asking"
                     ELSE IF m.id \in pending THEN "found" ELSE "reading"
        /\ UNCHANGED <<callerVars, pending, box, dead, writer, roster, stdin,
                       childVars>>

PopWaiter ==
    /\ reader = "found" /\ line.id \in pending
    /\ pending' = pending \ {line.id}
    /\ reader' = "popped"
    /\ UNCHANGED <<callerVars, box, dead, writer, line, roster, stdin, stdout,
                   childVars>>

\* The caller popped it first: KeyError ends the thread.
PopRaises ==
    /\ reader = "found" /\ line.id \notin pending
    /\ reader' = "dying"
    /\ UNCHANGED <<callerVars, pending, box, dead, writer, line, roster, stdin,
                   stdout, childVars>>

PutReply ==
    /\ reader = "popped"
    /\ box' = [box EXCEPT ![line.id] = line]
    /\ reader' = "reading"
    /\ UNCHANGED <<callerVars, pending, dead, writer, line, roster, stdin, stdout,
                   childVars>>

LockToAnswer ==
    /\ reader = "asking" /\ writer = "nobody"
    /\ reader' = "writing" /\ writer' = "reader"
    /\ UNCHANGED <<callerVars, pending, box, dead, line, roster, stdin, stdout,
                   childVars>>

AnswerAsk ==
    /\ reader = "writing" /\ child = "alive" /\ Len(stdin) < StdinCap
    /\ stdin' = Append(stdin, Verdict)
    /\ reader' = "reading" /\ writer' = "nobody"
    /\ UNCHANGED <<callerVars, pending, box, dead, line, roster, stdout, childVars>>

AnswerAskFails ==
    /\ reader = "writing" /\ child = "exited"
    /\ dead' = TRUE /\ writer' = "nobody"
    /\ reader' = "dying"
    /\ UNCHANGED <<callerVars, pending, box, line, roster, stdin, stdout, childVars>>

EndOfFile ==
    /\ reader = "reading" /\ stdout = <<>> /\ child = "exited"
    /\ reader' = "dying"
    /\ UNCHANGED <<callerVars, pending, box, dead, writer, line, roster, stdin,
                   stdout, childVars>>

\* The sweep only runs when this thread is the one that sets _dead.
DieSlip ==
    /\ reader = "dying"
    /\ dead' = TRUE
    /\ roster' = pending
    /\ reader' = IF dead THEN "gone" ELSE "sweeping"
    /\ UNCHANGED <<callerVars, pending, box, writer, line, stdin, stdout, childVars>>

\* The finally of _read_loop: mark the session dead, then tell the waiters.
Die ==
    /\ reader = "dying"
    /\ dead' = TRUE
    /\ roster' = pending
    /\ reader' = "sweeping"
    /\ UNCHANGED <<callerVars, pending, box, writer, line, stdin, stdout, childVars>>

\* The next waiter of the iteration over _pending is told.
SweepOne(i) ==
    /\ reader = "sweeping" /\ Cardinality(pending) = Cardinality(roster)
    /\ i \in pending /\ box[i] # Death
    /\ box' = [box EXCEPT ![i] = Death]
    /\ UNCHANGED <<callerVars, pending, dead, writer, readerVars, stdin, stdout,
                   childVars>>

\* All told, or _pending changed size and the iteration raises.
SweepEnds ==
    /\ reader = "sweeping"
    /\ \/ Cardinality(pending) # Cardinality(roster)
       \/ \A i \in pending : box[i] = Death
    /\ reader' = "gone"
    /\ UNCHANGED <<callerVars, pending, box, dead, writer, line, roster, stdin,
                   stdout, childVars>>

-----------------------------------------------------------------------------
(* The child.                                                              *)

ChildReads ==
    /\ child = "alive" /\ stdin # <<>>
    /\ stdin' = Tail(stdin)
    /\ asked' = IF Head(stdin).kind = "request" THEN asked \union {Head(stdin)} ELSE asked
    /\ UNCHANGED <<callerVars, pending, box, dead, writer, readerVars, stdout,
                   child, asks>>

ChildReplies(m) ==
    /\ child = "alive" /\ m \in asked /\ Len(stdout) < StdoutCap
    /\ asked' = asked \ {m}
    /\ stdout' = Append(stdout, Reply(m))
    /\ UNCHANGED <<callerVars, pending, box, dead, writer, readerVars, stdin,
                   child, asks>>

ChildAsks ==
    /\ child = "alive" /\ asks < MaxAsks /\ Len(stdout) < StdoutCap
    /\ asks' = asks + 1
    /\ stdout' = Append(stdout, Ask)
    /\ UNCHANGED <<callerVars, pending, box, dead, writer, readerVars, stdin,
                   child, asked>>

ChildExits ==
    /\ child = "alive"
    /\ child' = "exited" /\ stdin' = <<>> /\ asked' = {}
    /\ UNCHANGED <<callerVars, pending, box, dead, writer, readerVars, stdout, asks>>

-----------------------------------------------------------------------------

Results == {"answered", "failed"}

\* Steps of the calling thread that are not the start of a new call.
CallerSteps ==
    \/ Register \/ LockToSend \/ Send \/ SendFails
    \/ \E result \in Results : Receive(result)
    \/ Expire \/ Forget

ReaderSteps ==
    \/ TakeLine \/ PopWaiter \/ PopRaises \/ PutReply
    \/ LockToAnswer \/ AnswerAsk \/ AnswerAskFails \/ EndOfFile
    \/ Die \/ SweepEnds \/ \E i \in 0..MaxCalls : SweepOne(i)

ChildSteps == ChildReads \/ (\E m \in asked : ChildReplies(m)) \/ ChildAsks \/ ChildExits

Next == Begin \/ BeginDead \/ CallerSteps \/ ReaderSteps \/ ChildSteps

\* The interpreter runs both threads, and a wait on a waiter ends at its
\* timeout.  Nothing is assumed of the child.
Fairness ==
    /\ WF_vars(ReaderSteps)
    /\ WF_vars(CallerSteps)

Spec == Init /\ [][Next]_vars
FairSpec == Spec /\ Fairness

-----------------------------------------------------------------------------
(* Properties.                                                             *)

\* A reply that arrives after its call gave up is never taken for the answer
\* to a later call (ids are fresh and an expired id is forgotten).
RepliesAreOwn == \A k \in Calls : heard[k] \in {0, k}

\* While the session lives, only the call being made has a waiter: nothing of
\* an expired or answered call stays behind in _pending.
OnlyTheOpenCallWaits ==
    ~dead => pending \subseteq (IF caller = "idle" THEN {} ELSE {Ident(call)})

\* A call that had registered when the session died is told so; it does not
\* sit out its timeout (the sweep in _read_loop's finally).
OpenCallsAreTold ==
    reader = "gone" /\ caller = "waiting" /\ Ident(call) \in roster
        => box[Ident(call)] # NoLine

\* A session is declared dead for a living child only if some call timed out.
DeathHasACause ==
    dead => \/ child = "exited"
            \/ \E k \in Calls : outcome[k] = "expired"

\* How RpcCalls sees a call.
Status(k) ==
    IF outcome[k] # "none" THEN outcome[k]
    ELSE IF k = call /\ caller # "idle" THEN "open" ELSE "new"

Abstract == INSTANCE RpcCalls WITH status <- [k \in Calls |-> Status(k)], down <- dead

\* Whatever the two threads and the child do, request() behaves as RpcCalls says:
\* calls in order, each ending once, none begun on a session known to be dead.
ImplementsRpcCalls == Abstract!Spec

\* Every request() that began returns or raises, whatever becomes of the child
\* or of the reader thread (the timeout of waiter.get).
CallsReturn == Abstract!CallsReturn

=============================================================================
