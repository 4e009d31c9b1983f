------------------------------- MODULE Sparkd -------------------------------
(***************************************************************************)
(* afford-sparkd: the warm daemon that serves one `afford` request at a    *)
(* time against one long-lived `codex app-server`.                         *)
(*                                                                         *)
(* Each client is one `request_daemon` call: it connects, sends one framed *)
(* request and waits for one framed response.  Each accepted connection    *)
(* gets a handler thread (_handle_conn/_dispatch) that queues on the       *)
(* serial lock and then runs CodexAppServer.invoke: auth re-check,         *)
(* thread/start, turn/start, wait for turn/completed, teardown.  Computing *)
(* takes no time and every wait is a hop that expires.  The code keeps     *)
(* absolute monotonic deadlines and only ever uses their distance from     *)
(* now (_remaining); the model keeps those distances and lets Tick count   *)
(* all of them down together.                                              *)
(*                                                                         *)
(* The JSON-RPC plumbing under a hop (ids, waiters, the reader thread) is  *)
(* the subject of module RpcSession; here a hop is answered, refused,      *)
(* fails, expires or finds the session dead.                               *)
(***************************************************************************)
EXTENDS Integers, Sequences

CONSTANTS
    Clients,          \* the afford invocations, each sending one request
    NoClient,         \* nobody
    Timeout,          \* DaemonRequest.timeout_s, in ticks
    Grace,            \* what the client adds to timeout_s before giving up
    Floor,            \* _remaining never returns less than this
    AuthBudget,       \* AUTH_HOP_BUDGET_S
    ReserveDivisor,   \* 1 / CLEANUP_RESERVE_FRACTION
    ReserveCap,       \* CLEANUP_RESERVE_CAP_S
    BootMax,          \* longest time between process start and accept()
    MaxBoots,         \* bound: how many times the daemon process is started
    ReplyNamesTurn,   \* may turn/start replies (not) carry a turn id
    EventForms,       \* which identities a turn/completed may carry
    Refusals          \* the classifier's kinds of refusal

ASSUME ClockAssumption ==
    /\ Timeout \in Nat \ {0}
    /\ Floor \in Nat \ {0}
    /\ {Grace, AuthBudget, ReserveCap, BootMax, MaxBoots} \subseteq Nat
    /\ ReserveDivisor \in Nat \ {0}

ASSUME ShapeAssumption ==
    /\ NoClient \notin Clients
    /\ ReplyNamesTurn \subseteq BOOLEAN
    /\ EventForms \subseteq {"both", "turn", "thread", "none"}
    /\ Refusals \subseteq {"auth", "unavailable"}

VARIABLES
    daemon,      \* the process: "booting", "serving" or "exited"
    bootLeft,    \* time left for the current boot to reach accept()
    boots,       \* process starts so far
    dead,        \* CodexAppServer._dead is set: no request can succeed
    childAlive,  \* the codex app-server process runs
    authMethod,  \* _auth_method: "unknown", "known" or "none"
    events,      \* CodexAppServer._events, the process-global notifications
    holder,      \* owner of the serial lock
    client,      \* per client: what the caller is doing
    patience,    \* per client: time left until its socket timeout fires
    pc,          \* per client: where the handler thread of its connection is
    left,        \* per client: time left to the one deadline of the request
    reserve,     \* per client: the teardown slice of the budget
    dropLeft,    \* per client: time left to the deadline _drop was given
    hopLeft,     \* per client: time left until the current wait expires
    verdict,     \* per client: what the handler is going to answer
    answer,      \* per client: the completion that its text came from, if any
    threadId,    \* clients whose invoke learned the id of its thread
    turnKnown,   \* clients whose invoke learned the id of its turn
    tried,       \* per client: the teardown requests _drop issued
    srv          \* per client: its turn as the app-server sees it

procVars    == <<daemon, bootLeft, boots>>
sessionVars == <<dead, childAlive, authMethod>>
clientVars  == <<client, patience>>
timeVars    == <<left, reserve, dropLeft>>
resultVars  == <<verdict, answer>>
threadVars  == <<threadId, turnKnown, tried>>
vars == <<procVars, sessionVars, events, holder, clientVars, pc, timeVars,
          hopLeft, resultVars, threadVars, srv>>

-----------------------------------------------------------------------------
RpcHops   == {"auth", "thread", "turn", "interrupt", "archive", "unsubscribe"}
Hops      == RpcHops \union {"wait"}
PCs       == Hops \union {"idle", "queued", "reply", "done", "killed"}
Failures  == Refusals \union {"timeout", "protocol"}
Verdicts  == Failures \union {"none", "text"}
Teardown  == {"archive", "unsubscribe"}

\* turn/completed: whose turn it is, the identity fields it carries, and
\* whether its status and items make an answer.
Events == [from : Clients, form : EventForms, ok : BOOLEAN]

\* A connection the daemon has not accepted yet.  The caller may have given
\* up meanwhile: the kernel still hands the connection and its line over.
Backlogged(c) == client[c] \in {"waiting", "gaveup"} /\ pc[c] = "idle"

NoTimes == [c \in Clients |-> 0]

TypeOK ==
    /\ daemon \in {"booting", "serving", "exited"}
    /\ bootLeft \in Nat
    /\ boots \in Nat
    /\ dead \in BOOLEAN /\ childAlive \in BOOLEAN
    /\ authMethod \in {"unknown", "known", "none"}
    /\ events \in Seq(Events)
    /\ holder \in Clients \union {NoClient}
    /\ client \in [Clients -> {"idle", "waiting", "answered", "gaveup", "reset"}]
    /\ patience \in [Clients -> Int]
    /\ pc \in [Clients -> PCs]
    /\ left \in [Clients -> Int]
    /\ reserve \in [Clients -> Nat]
    /\ dropLeft \in [Clients -> Int]
    /\ hopLeft \in [Clients -> Nat]
    /\ verdict \in [Clients -> Verdicts]
    /\ answer \in [Clients -> SUBSET Events]
    /\ threadId \subseteq Clients
    /\ turnKnown \subseteq Clients
    /\ tried \in [Clients -> SUBSET Teardown]
    /\ srv \in [Clients -> {"none", "sent", "running", "ended"}]

Init ==
    /\ daemon = "booting" /\ bootLeft = BootMax /\ boots = 1
    /\ dead = FALSE /\ childAlive = TRUE /\ authMethod = "unknown"
    /\ events = <<>>
    /\ holder = NoClient
    /\ client = [c \in Clients |-> "idle"]
    /\ patience = NoTimes
    /\ pc = [c \in Clients |-> "idle"]
    /\ left = NoTimes
    /\ reserve = NoTimes
    /\ dropLeft = NoTimes
    /\ hopLeft = NoTimes
    /\ verdict = [c \in Clients |-> "none"]
    /\ answer = [c \in Clients |-> {}]
    /\ threadId = {}
    /\ turnKnown = {}
    /\ tried = [c \in Clients |-> {}]
    /\ srv = [c \in Clients |-> "none"]

-----------------------------------------------------------------------------
(* Deadline arithmetic.                                                    *)

Earlier(a, b) == IF a < b THEN a ELSE b
Later(a, b)   == IF a > b THEN a ELSE b

\* Operators named ...Slip are plausible slips in the code, kept beside the
\* definition they would replace: each breaks a property stated below.

\* _remaining(deadline): never less than Floor, the budget spent or not.
Remaining(limit) == Later(limit, Floor)

\* The floor is taken off the budget instead of put under it.
ReserveAtSlip(c) == Earlier(ReserveCap, (left[c] - Floor) \div ReserveDivisor)

\* The slice of the budget invoke() keeps for teardown.
ReserveAt(c) == Earlier(ReserveCap,
                        Remaining(left[c]) \div ReserveDivisor)

TurnDeadlineSlip(c) == Timeout - reserve[c]         \* a clock of its own
TurnDeadline(c) == left[c] - reserve[c]

\* The deadline handed to _interrupt_turn and to _drop.
TeardownLimit(c) == Earlier(left[c], reserve[c])

MoveTo(c, hop, limit) ==
    /\ pc' = [pc EXCEPT ![c] = hop]
    /\ hopLeft' = [hopLeft EXCEPT ![c] = Remaining(limit)]

-----------------------------------------------------------------------------
(* The caller: client.request_daemon.                                      *)

Connect(c) ==
    /\ client[c] = "idle"
    /\ client' = [client EXCEPT ![c] = "waiting"]
    /\ patience' = [patience EXCEPT ![c] = Timeout + Grace]
    /\ UNCHANGED <<procVars, sessionVars, events, holder, pc, timeVars,
                   hopLeft, resultVars, threadVars, srv>>

GiveUp(c) ==
    /\ client[c] = "waiting"
    /\ patience[c] <= 0
    /\ client' = [client EXCEPT ![c] = "gaveup"]
    /\ UNCHANGED <<procVars, sessionVars, events, holder, patience, pc,
                   timeVars, hopLeft, resultVars, threadVars, srv>>

-----------------------------------------------------------------------------
(* The process: serve(), _watch_child and systemd's Restart=on-failure.    *)

\* handshake() and the boot-time check_auth() succeed; accept() begins.  The
\* auth probe either found a method or learned that there is none.
Boot ==
    /\ daemon = "booting"
    /\ childAlive /\ ~dead
    /\ daemon' = "serving" /\ bootLeft' = 0
    /\ authMethod' \in {"known", "none"}
    /\ UNCHANGED <<boots, dead, childAlive, events, holder,
                   clientVars, pc, timeVars, hopLeft, resultVars, threadVars, srv>>

\* handshake() or check_auth() raises: serve() closes the child and main()
\* exits 1.  The listening socket belongs to systemd and keeps its backlog.
BootFails ==
    /\ daemon = "booting"
    /\ daemon' = "exited" /\ bootLeft' = 0
    /\ dead' = TRUE /\ childAlive' = FALSE
    /\ UNCHANGED <<boots, authMethod, events, holder, clientVars,
                   pc, timeVars, hopLeft, resultVars, threadVars, srv>>

ChildDies ==
    /\ daemon = "serving" /\ childAlive
    /\ childAlive' = FALSE /\ dead' = TRUE
    /\ UNCHANGED <<procVars, authMethod, events, holder, clientVars, pc,
                   timeVars, hopLeft, resultVars, threadVars, srv>>

\* wait_child() returned and nobody had called close(): os._exit(1).  Every
\* handler thread vanishes and its caller sees the connection closed.
WatchChild ==
    LET handled == {c \in Clients : pc[c] \notin {"idle", "done", "killed"}}
        cut == {c \in handled : client[c] = "waiting"}
    IN  /\ daemon = "serving" /\ ~childAlive
        /\ daemon' = "exited"
        /\ holder' = NoClient
        /\ events' = <<>>
        /\ pc' = [c \in Clients |-> IF c \in handled THEN "killed" ELSE pc[c]]
        /\ client' = [c \in Clients |-> IF c \in cut THEN "reset" ELSE client[c]]
        /\ patience' = [c \in Clients |-> IF c \in handled THEN 0 ELSE patience[c]]
        /\ srv' = [c \in Clients |-> "none"]
        /\ left' = NoTimes /\ reserve' = NoTimes
        /\ dropLeft' = NoTimes /\ hopLeft' = NoTimes
        /\ verdict' = [c \in Clients |-> "none"]
        /\ answer' = [c \in Clients |-> {}]
        /\ threadId' = {} /\ turnKnown' = {}
        /\ tried' = [c \in Clients |-> {}]
        /\ UNCHANGED <<bootLeft, boots, sessionVars>>

Restart ==
    /\ daemon = "exited" /\ boots < MaxBoots
    /\ daemon' = "booting" /\ bootLeft' = BootMax /\ boots' = boots + 1
    /\ dead' = FALSE /\ childAlive' = TRUE /\ authMethod' = "unknown"
    /\ UNCHANGED <<events, holder, clientVars, pc, timeVars, hopLeft,
                   resultVars, threadVars, srv>>

-----------------------------------------------------------------------------
(* _handle_conn and _dispatch up to the serial lock.                       *)

\* The deadline starts here, when the daemon reads the request.
Accept(c) ==
    /\ daemon = "serving" /\ Backlogged(c)
    /\ pc' = [pc EXCEPT ![c] = "queued"]
    /\ left' = [left EXCEPT ![c] = Timeout]
    /\ UNCHANGED <<procVars, sessionVars, events, holder, clientVars,
                   reserve, dropLeft, hopLeft, resultVars, threadVars, srv>>

\* The line is not a v1 request: answered without touching the lock.
AcceptMalformed(c) ==
    /\ daemon = "serving" /\ Backlogged(c)
    /\ pc' = [pc EXCEPT ![c] = "reply"]
    /\ verdict' = [verdict EXCEPT ![c] = "protocol"]
    /\ UNCHANGED <<procVars, sessionVars, events, holder, clientVars,
                   timeVars, hopLeft, answer, threadVars, srv>>

QueueTimeout(c) ==
    /\ daemon = "serving" /\ pc[c] = "queued" /\ left[c] <= 0
    /\ pc' = [pc EXCEPT ![c] = "reply"]
    /\ verdict' = [verdict EXCEPT ![c] = "timeout"]
    /\ UNCHANGED <<procVars, sessionVars, events, holder, clientVars,
                   timeVars, hopLeft, answer, threadVars, srv>>

\* lock.acquire succeeds and invoke() starts: with a known auth method its
\* first hop is account/read, without one it drains the notifications and
\* opens the thread.
AcquireLock(c) ==
    LET r == ReserveAt(c)
    IN  /\ daemon = "serving" /\ pc[c] = "queued" /\ left[c] >= 0
        /\ holder = NoClient
        /\ holder' = c
        /\ reserve' = [reserve EXCEPT ![c] = r]
        /\ IF authMethod = "none"
             THEN /\ MoveTo(c, "thread", left[c] - r)
                  /\ events' = <<>>
             ELSE /\ MoveTo(c, "auth", Earlier(left[c] - r, AuthBudget))
                  /\ UNCHANGED events
        /\ UNCHANGED <<procVars, sessionVars, clientVars, left, dropLeft,
                       resultVars, threadVars, srv>>

-----------------------------------------------------------------------------
(* Leaving invoke().                                                       *)

\* The early return of a refusal forgets the lock.
FinishSlip(c, v) ==
    /\ pc' = [pc EXCEPT ![c] = "reply"]
    /\ verdict' = [verdict EXCEPT ![c] = v]
    /\ holder' = IF v \in Refusals THEN holder ELSE NoClient
    /\ hopLeft' = [hopLeft EXCEPT ![c] = 0]
    /\ dropLeft' = [dropLeft EXCEPT ![c] = 0]
    /\ reserve' = [reserve EXCEPT ![c] = 0]

\* _dispatch maps the outcome to a response and releases the lock.
Finish(c, v) ==
    /\ pc' = [pc EXCEPT ![c] = "reply"]
    /\ verdict' = [verdict EXCEPT ![c] = v]
    /\ holder' = NoClient
    /\ hopLeft' = [hopLeft EXCEPT ![c] = 0]
    /\ dropLeft' = [dropLeft EXCEPT ![c] = 0]
    /\ reserve' = [reserve EXCEPT ![c] = 0]

\* The finally of invoke(): archive first, on a deadline computed here.
BeginDrop(c) ==
    /\ dropLeft' = [dropLeft EXCEPT ![c] = TeardownLimit(c)]
    /\ MoveTo(c, "archive", TeardownLimit(c))
    /\ tried' = [tried EXCEPT ![c] = @ \union {"archive"}]

\* An exception inside the turn: interrupt it if its id is known, then drop.
Abandon(c, v) ==
    /\ verdict' = [verdict EXCEPT ![c] = v]
    /\ IF c \in turnKnown
         THEN /\ MoveTo(c, "interrupt", TeardownLimit(c))
              /\ UNCHANGED <<dropLeft, tried>>
         ELSE BeginDrop(c)

\* conn.sendall: the caller hears it if it still listens, otherwise the daemon
\* only says so on stderr.  The thread ends and its locals are gone.
Deliver(c) ==
    /\ daemon = "serving" /\ pc[c] = "reply"
    /\ pc' = [pc EXCEPT ![c] = "done"]
    /\ client' = [client EXCEPT ![c] = IF @ = "waiting" THEN "answered" ELSE @]
    /\ patience' = [patience EXCEPT ![c] = 0]
    /\ left' = [left EXCEPT ![c] = 0]
    /\ verdict' = [verdict EXCEPT ![c] = "none"]
    /\ answer' = [answer EXCEPT ![c] = {}]
    /\ threadId' = threadId \ {c} /\ turnKnown' = turnKnown \ {c}
    /\ tried' = [tried EXCEPT ![c] = {}]
    /\ UNCHANGED <<procVars, sessionVars, events, holder, reserve, dropLeft,
                   hopLeft, srv>>

-----------------------------------------------------------------------------
(* invoke(), one hop at a time.                                            *)

OpenThread(c) ==
    /\ events' = <<>>
    /\ MoveTo(c, "thread", TurnDeadline(c))

At(c, hop) == daemon = "serving" /\ holder = c /\ pc[c] = hop
Answered(c, hop) == At(c, hop) /\ ~dead

AuthOk(c) ==
    /\ Answered(c, "auth")
    /\ OpenThread(c)
    /\ UNCHANGED <<procVars, sessionVars, holder, clientVars, timeVars,
                   resultVars, threadVars, srv>>

\* The server no longer knows the method: not a failure, and from now on no
\* request re-checks auth.
AuthMethodMissing(c) ==
    /\ Answered(c, "auth")
    /\ authMethod' = "none"
    /\ OpenThread(c)
    /\ UNCHANGED <<procVars, dead, childAlive, holder, clientVars,
                   timeVars, resultVars, threadVars, srv>>

ThreadOk(c) ==
    /\ Answered(c, "thread")
    /\ threadId' = threadId \union {c}
    /\ srv' = [srv EXCEPT ![c] = "sent"]
    /\ MoveTo(c, "turn", TurnDeadline(c))
    /\ UNCHANGED <<procVars, sessionVars, events, holder, clientVars,
                   timeVars, resultVars, turnKnown, tried>>

TurnOk(c, named) ==
    /\ Answered(c, "turn")
    /\ srv[c] \in {"running", "ended"}
    /\ turnKnown' = IF named THEN turnKnown \union {c} ELSE turnKnown
    /\ MoveTo(c, "wait", TurnDeadline(c))
    /\ UNCHANGED <<procVars, sessionVars, events, holder, clientVars,
                   timeVars, resultVars, threadId, tried, srv>>

\* A missing turn id is a wildcard.
BelongsSlip(e, c) ==
    e.form # "none" /\ ((c \in turnKnown /\ e.form # "thread") => e.from = c)

\* _notification_belongs for a call that knows its thread and maybe its turn.
Belongs(e, c) ==
    /\ e.form # "none"
    /\ (c \in turnKnown /\ e.form \in {"both", "turn"}) => e.from = c
    /\ e.form \in {"both", "thread"} => e.from = c

\* wait_notification takes the oldest turn/completed.  One without any
\* identity fails the call; one of another turn is dropped; its own ends it.
TakeEvent(c) ==
    LET e == Head(events)
    IN  /\ At(c, "wait") /\ events # <<>>
        /\ events' = Tail(events)
        /\ \/ /\ e.form = "none" \/ (Belongs(e, c) /\ ~e.ok)
              /\ Abandon(c, "protocol")
              /\ UNCHANGED answer
           \/ /\ e.form # "none" /\ ~Belongs(e, c)
              /\ UNCHANGED <<pc, hopLeft, dropLeft, tried, resultVars>>
           \/ /\ Belongs(e, c) /\ e.ok
              /\ verdict' = [verdict EXCEPT ![c] = "text"]
              /\ answer' = [answer EXCEPT ![c] = {e}]
              /\ BeginDrop(c)
        /\ UNCHANGED <<procVars, sessionVars, holder, clientVars, left,
                       reserve, threadId, turnKnown, srv>>

\* _interrupt_turn came back: an answer, or a SparkProtocolError it swallows.
Interrupted(c) ==
    /\ At(c, "interrupt")
    /\ BeginDrop(c)
    /\ UNCHANGED <<procVars, sessionVars, events, holder, clientVars,
                   left, reserve, resultVars, threadId, turnKnown, srv>>

\* thread/archive came back the same way: _drop goes on to unsubscribe.
Archived(c) ==
    /\ At(c, "archive")
    /\ MoveTo(c, "unsubscribe", dropLeft[c])
    /\ tried' = [tried EXCEPT ![c] = @ \union {"unsubscribe"}]
    /\ UNCHANGED <<procVars, sessionVars, events, holder, clientVars,
                   timeVars, resultVars, threadId, turnKnown, srv>>

\* thread/unsubscribe came back.  If it was obeyed the turn falls silent.
Unsubscribed(c, obeyed) ==
    /\ At(c, "unsubscribe")
    /\ Finish(c, verdict[c])
    /\ srv' = [srv EXCEPT ![c] = IF obeyed THEN "ended" ELSE @]
    /\ UNCHANGED <<procVars, sessionVars, events, clientVars, left,
                   answer, threadVars>>

\* turn/start outside the try: a refused turn leaves its thread behind.
RpcFailsSlip(c, v) ==
    /\ At(c, "auth") \/ At(c, "thread") \/ At(c, "turn")
    /\ Finish(c, v)
    /\ srv' = [srv EXCEPT ![c] = IF @ = "sent" THEN "none" ELSE @]
    /\ dead => v = "protocol"
    /\ UNCHANGED <<procVars, sessionVars, events, clientVars, left,
                   answer, threadVars>>

\* account/read, thread/start or turn/start fails: a classified refusal, a
\* deadline the app-server reports, any other error, a reply without a usable
\* id, or (verdict "protocol") the session found dead.
RpcFails(c, v) ==
    /\ \/ /\ At(c, "auth") \/ At(c, "thread")
          /\ Finish(c, v)
          /\ UNCHANGED <<tried, srv>>
       \/ /\ At(c, "turn")
          /\ Abandon(c, v)
          /\ srv' = [srv EXCEPT ![c] = IF @ = "sent" THEN "none" ELSE @]
          /\ UNCHANGED <<holder, reserve>>
    /\ dead => v = "protocol"
    /\ UNCHANGED <<procVars, sessionVars, events, clientVars, left,
                   answer, threadId, turnKnown>>

\* wait_notification blocks without a timeout.
ExpiresSlip(c) ==
    /\ hopLeft[c] <= 0
    /\ \/ /\ At(c, "auth") \/ At(c, "thread")
          /\ Finish(c, "timeout")
          /\ UNCHANGED tried
       \/ /\ At(c, "turn")
          /\ Abandon(c, "timeout")
          /\ UNCHANGED <<holder, reserve>>
    /\ UNCHANGED <<procVars, sessionVars, events, clientVars, left,
                   answer, threadId, turnKnown, srv>>

\* The waiter's or the notification queue's get() ran out.  The request stays
\* with the app-server, which may still act on it.
Expires(c) ==
    /\ hopLeft[c] <= 0
    /\ \/ /\ At(c, "auth") \/ At(c, "thread")
          /\ Finish(c, "timeout")
          /\ UNCHANGED tried
       \/ /\ At(c, "turn") \/ At(c, "wait")
          /\ Abandon(c, "timeout")
          /\ UNCHANGED <<holder, reserve>>
    /\ UNCHANGED <<procVars, sessionVars, events, clientVars, left,
                   answer, threadId, turnKnown, srv>>

\* wait_notification found _dead set (it looks before each get()).
WaitFindsDead(c) ==
    /\ At(c, "wait") /\ dead
    /\ Abandon(c, "protocol")
    /\ UNCHANGED <<procVars, sessionVars, events, holder, clientVars,
                   left, reserve, answer, threadId, turnKnown, srv>>

\* The refusal of a teardown request leaves the loop but not the call.
TeardownRefusedSlip(c, r) ==
    /\ ~dead
    /\ At(c, "archive") \/ At(c, "unsubscribe")
    /\ Finish(c, verdict[c])
    /\ UNCHANGED <<procVars, sessionVars, events, clientVars, left,
                   answer, threadVars, srv>>

\* A teardown request is answered with a refusal.  SparkUnavailableError is
\* not a SparkProtocolError: neither _interrupt_turn nor _drop catches it.  It
\* replaces whatever invoke() was about to return or raise, and out of
\* thread/archive it also ends _drop's loop.
TeardownRefused(c, r) ==
    /\ ~dead
    /\ answer' = [answer EXCEPT ![c] = {}]
    /\ \/ /\ At(c, "interrupt")
          /\ verdict' = [verdict EXCEPT ![c] = r]
          /\ BeginDrop(c)
          /\ UNCHANGED <<holder, reserve>>
       \/ /\ At(c, "archive") \/ At(c, "unsubscribe")
          /\ Finish(c, r)
          /\ UNCHANGED tried
    /\ UNCHANGED <<procVars, sessionVars, events, clientVars, left,
                   threadId, turnKnown, srv>>

\* A reply reached the reader thread in the instant its request expired and
\* the reader died on it (module RpcSession shows the step): _dead is set, the
\* child is not.
ReaderLost(c) ==
    /\ \E hop \in RpcHops : At(c, hop)
    /\ hopLeft[c] <= 0 /\ ~dead
    /\ dead' = TRUE
    /\ UNCHANGED <<procVars, childAlive, authMethod, events, holder,
                   clientVars, pc, timeVars, hopLeft, resultVars, threadVars, srv>>

-----------------------------------------------------------------------------
(* The app-server's side of a turn, and time.                              *)

TurnBegins(c) ==
    /\ daemon = "serving" /\ childAlive /\ srv[c] = "sent"
    /\ srv' = [srv EXCEPT ![c] = "running"]
    /\ UNCHANGED <<procVars, sessionVars, events, holder, clientVars, pc,
                   timeVars, hopLeft, resultVars, threadVars>>

TurnEnds(c, form, ok) ==
    /\ daemon = "serving" /\ childAlive /\ srv[c] = "running"
    /\ srv' = [srv EXCEPT ![c] = "ended"]
    /\ events' = IF dead THEN events
                 ELSE Append(events, [from |-> c, form |-> form, ok |-> ok])
    /\ UNCHANGED <<procVars, sessionVars, holder, clientVars, pc, timeVars,
                   hopLeft, resultVars, threadVars>>

Down(timers, S) == [c \in Clients |-> IF c \in S THEN timers[c] - 1 ELSE timers[c]]

\* Time passes only while somebody waits for it, and never past an expiry
\* that has not been acted on.
Tick ==
    /\ \/ daemon = "booting"
       \/ \E c \in Clients : client[c] = "waiting" \/ pc[c] \in Hops \union {"queued"}
    /\ daemon = "booting" => bootLeft > 0
    /\ \A c \in Clients :
         /\ client[c] = "waiting" => patience[c] > 0
         /\ pc[c] = "queued" => left[c] > 0 /\ holder # NoClient
         /\ pc[c] \in Hops => hopLeft[c] > 0
         /\ pc[c] # "reply"
         /\ ~(daemon = "serving" /\ Backlogged(c))
    /\ bootLeft' = IF daemon = "booting" THEN bootLeft - 1 ELSE bootLeft
    /\ patience' = Down(patience, {c \in Clients : client[c] \in {"waiting", "gaveup"}
                                                  /\ pc[c] \notin {"done", "killed"}})
    /\ left' = Down(left, {c \in Clients : pc[c] \in Hops \union {"queued"}})
    /\ hopLeft' = Down(hopLeft, {c \in Clients : pc[c] \in Hops})
    /\ dropLeft' = Down(dropLeft, {c \in Clients : pc[c] \in Teardown})
    /\ UNCHANGED <<daemon, boots, sessionVars, events, holder, client, pc,
                   reserve, resultVars, threadVars, srv>>

\* The wait a handler is in comes to an end one way or another.
HopEnds(c) ==
    \/ Expires(c) \/ Interrupted(c) \/ Archived(c)
    \/ \E obeyed \in BOOLEAN : Unsubscribed(c, obeyed)

Caller(c) == Connect(c) \/ GiveUp(c)

Handler(c) ==
    \/ Accept(c) \/ AcceptMalformed(c) \/ QueueTimeout(c) \/ AcquireLock(c)
    \/ AuthOk(c) \/ AuthMethodMissing(c) \/ ThreadOk(c)
    \/ \E named \in ReplyNamesTurn : TurnOk(c, named)
    \/ TakeEvent(c)
    \/ \E v \in Failures : RpcFails(c, v)
    \/ WaitFindsDead(c)
    \/ \E r \in Refusals : TeardownRefused(c, r)
    \/ HopEnds(c)
    \/ Deliver(c)

Process == Boot \/ BootFails \/ ChildDies \/ WatchChild \/ Restart

Server(c) ==
    \/ TurnBegins(c) \/ ReaderLost(c)
    \/ \E form \in EventForms, ok \in BOOLEAN : TurnEnds(c, form, ok)

Next ==
    \/ Process \/ Tick
    \/ \E c \in Clients : Caller(c) \/ Handler(c) \/ Server(c)

\* Every wait in the code has a timeout and the scheduler runs ready threads,
\* so time passes, expired waits return, accepted connections are served, and
\* the watcher notices a dead child.  Nothing is assumed of the app-server.
Fairness ==
    /\ WF_vars(Tick) /\ WF_vars(WatchChild) /\ WF_vars(Boot \/ BootFails)
    /\ \A c \in Clients :
         /\ WF_vars(GiveUp(c))
         /\ WF_vars(Accept(c) \/ AcceptMalformed(c))
         /\ WF_vars(QueueTimeout(c) \/ AcquireLock(c))
         /\ WF_vars(HopEnds(c))
         /\ WF_vars(Deliver(c))

Spec == Init /\ [][Next]_vars
FairSpec == Spec /\ Fairness

-----------------------------------------------------------------------------
(* Properties.                                                             *)

\* How far past the deadline a request can run: each of the seven hops of a
\* call may be armed for Floor after the budget is gone.
Overrun == 7 * Floor

\* A handler is inside invoke() exactly while it owns the serial lock, on
\* every way out of the call: two calls never share the app-server, and no
\* exit of a call leaves the lock behind (daemon._dispatch).
SerialCalls == \A c \in Clients : pc[c] \in Hops <=> holder = c

HopNumber(hop) ==
    CASE hop = "auth" -> 1 [] hop = "thread" -> 2 [] hop = "turn" -> 3
      [] hop = "wait" -> 4 [] hop = "interrupt" -> 5
      [] hop = "archive" -> 6 [] hop = "unsubscribe" -> 7

\* What WithinBudget rests on: a wait is armed from the request's own deadline,
\* so it ends after that deadline by at most one floor for itself and one for
\* each hop before it, and the deadline _drop works to is no later than it
\* (appserver.invoke, _interrupt_turn, _drop).
HopsEndInBudget ==
    \A c \in Clients :
        /\ pc[c] = "queued" => left[c] >= 0
        /\ pc[c] \in Hops =>
             left[c] - hopLeft[c] >= -(HopNumber(pc[c]) * Floor)
        /\ pc[c] \in Teardown => dropLeft[c] <= left[c]

\* No request, its auth hop, turn and teardown included, outlives its own
\* deadline by more than the floors of its hops (appserver.invoke: nothing
\* here starts a clock of its own).
WithinBudget ==
    \A c \in Clients :
        /\ pc[c] = "queued" => left[c] >= 0
        /\ pc[c] \in Hops => left[c] >= -Overrun

\* A caller whose connection was accepted less than Grace minus the overrun
\* after it began to wait is still there when its answer is written: the turn
\* it paid for is received (client.request_daemon's grace).
PromptCallersAreHeard ==
    \A c \in Clients :
        /\ pc[c] = "reply" /\ verdict[c] = "text"
        /\ left[c] + Overrun < patience[c]
        => client[c] = "waiting"

\* Whatever completions its predecessors left in the process-global queue, the
\* text of a call is that of its own turn, or the call never learned its turn's
\* id and took a completion that names a turn and no thread
\* (_notification_belongs: what both sides know must agree).
KnownIdentityDecides ==
    \A c \in Clients : \A e \in answer[c] :
        e.from # c => c \notin turnKnown /\ e.form = "turn"

\* Whichever way a call that learned its thread id ends, thread/archive was
\* tried (the finally of invoke).
ThreadsAreDropped ==
    \A c \in threadId : pc[c] \in {"unsubscribe", "reply"} =>
        "archive" \in tried[c]

\* An answer is handed over only after both teardown requests were tried: no
\* text is delivered from a conversation _drop cut short.
DeliveredIsDropped ==
    \A c \in Clients : pc[c] = "reply" /\ verdict[c] = "text" =>
        /\ tried[c] = Teardown
        /\ answer[c] # {}

\* The serial lock always comes back.
LockComesBack == \A c \in Clients : (holder = c) ~> (holder # c)

\* Every accepted request is answered or dies with the process: a hung turn
\* of a predecessor does not leave it queued.
QueuedAreAnswered ==
    \A c \in Clients : (pc[c] = "queued") ~> (pc[c] \in {"done", "killed"})

\* spark/SPEC.md: "Drop" is both archive and unsubscribe.
DropIsBoth ==
    \A c \in threadId : pc[c] = "reply" => tried[c] = Teardown

\* appserver.py, invoke: a stale notification of an abandoned predecessor must
\* not be visible to this turn; _notification_belongs: "Admit only a
\* notification whose recognised identity matches.  A missing identity is not a
\* wildcard."
AnswerIsOwn == \A c \in Clients : \A e \in answer[c] : e.from = c

=============================================================================
