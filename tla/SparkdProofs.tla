---------------------------- MODULE SparkdProofs ----------------------------
(* Theorems about Sparkd, for every number of clients, every budget and     *)
(* every set of notification shapes and refusals: locks and clocks first,   *)
(* then what a call answers and what it leaves behind, whose text it        *)
(* returns, and that its thread is archived whichever way it ends.          *)
EXTENDS Sparkd, TLAPS

-----------------------------------------------------------------------------
(* Deadline arithmetic.                                                    *)

\* _remaining is at least Floor, and otherwise no more than what is left.
LEMMA RemainingBounds ==
    ASSUME NEW limit \in Int
    PROVE  /\ Remaining(limit) \in Nat
           /\ Remaining(limit) >= Floor
           /\ Remaining(limit) = Floor \/ Remaining(limit) = limit
  BY ClockAssumption DEF Remaining, Later

\* The teardown slice is never negative.
LEMMA ReserveIsNat ==
    ASSUME TypeOK, NEW c \in Clients
    PROVE  ReserveAt(c) \in Nat
  <1>1. left[c] \in Int
    BY DEF TypeOK
  <1>2. Remaining(left[c]) \in Nat
    BY <1>1, RemainingBounds
  <1>3. \A n \in Nat, d \in Nat \ {0} : n \div d \in Nat
    OBVIOUS
  <1>4. Remaining(left[c]) \div ReserveDivisor \in Nat
    BY <1>2, <1>3, ClockAssumption
  <1> QED
    BY <1>4, ClockAssumption DEF ReserveAt, Earlier

\* Every wait is armed for a natural number of ticks.
LEMMA LimitsAreInts ==
    ASSUME TypeOK, NEW c \in Clients
    PROVE  /\ TurnDeadline(c) \in Int
           /\ TeardownLimit(c) \in Int
           /\ TurnDeadline(c) <= left[c]
           /\ TeardownLimit(c) <= left[c]
  BY DEF TypeOK, TurnDeadline, TeardownLimit, Earlier

-----------------------------------------------------------------------------
(* Type correctness.                                                       *)

\* The steps out of a hop keep the types of what they write.
LEMMA MoveToTyped ==
    ASSUME TypeOK, NEW c \in Clients, NEW hop \in PCs, NEW limit \in Int,
           MoveTo(c, hop, limit)
    PROVE  pc' \in [Clients -> PCs] /\ hopLeft' \in [Clients -> Nat]
  <1>1. Remaining(limit) \in Nat
    BY RemainingBounds
  <1> QED
    BY <1>1 DEF MoveTo, TypeOK

LEMMA FinishTyped ==
    ASSUME TypeOK, NEW c \in Clients, NEW v \in Verdicts, Finish(c, v)
    PROVE  /\ pc' \in [Clients -> PCs]
           /\ verdict' \in [Clients -> Verdicts]
           /\ holder' \in Clients \union {NoClient}
           /\ hopLeft' \in [Clients -> Nat]
           /\ dropLeft' \in [Clients -> Int]
           /\ reserve' \in [Clients -> Nat]
  BY DEF Finish, TypeOK, PCs

LEMMA BeginDropTyped ==
    ASSUME TypeOK, NEW c \in Clients, BeginDrop(c)
    PROVE  /\ pc' \in [Clients -> PCs]
           /\ hopLeft' \in [Clients -> Nat]
           /\ dropLeft' \in [Clients -> Int]
           /\ tried' \in [Clients -> SUBSET Teardown]
  <1>1. TeardownLimit(c) \in Int
    BY LimitsAreInts
  <1>2. "archive" \in PCs /\ "archive" \in Teardown
    BY DEF PCs, Hops, RpcHops, Teardown
  <1>3. pc' \in [Clients -> PCs] /\ hopLeft' \in [Clients -> Nat]
    BY <1>1, <1>2, MoveToTyped DEF BeginDrop
  <1> QED
    BY <1>1, <1>2, <1>3 DEF BeginDrop, TypeOK

LEMMA AbandonTyped ==
    ASSUME TypeOK, NEW c \in Clients, NEW v \in Verdicts, Abandon(c, v)
    PROVE  /\ pc' \in [Clients -> PCs]
           /\ verdict' \in [Clients -> Verdicts]
           /\ hopLeft' \in [Clients -> Nat]
           /\ dropLeft' \in [Clients -> Int]
           /\ tried' \in [Clients -> SUBSET Teardown]
  <1>1. verdict' \in [Clients -> Verdicts]
    BY DEF Abandon, TypeOK
  <1>2. CASE c \in turnKnown
    <2>1. "interrupt" \in PCs /\ TeardownLimit(c) \in Int
      BY LimitsAreInts DEF PCs, Hops, RpcHops
    <2> QED
      BY <1>1, <1>2, <2>1, MoveToTyped DEF Abandon, TypeOK
  <1>3. CASE c \notin turnKnown
    BY <1>1, <1>3, BeginDropTyped DEF Abandon
  <1> QED
    BY <1>2, <1>3

LEMMA VerdictsAreTyped ==
    /\ Failures \subseteq Verdicts /\ Refusals \subseteq Verdicts
    /\ {"none", "text", "timeout", "protocol"} \subseteq Verdicts
    /\ Hops \subseteq PCs /\ {"idle", "queued", "reply", "done", "killed"} \subseteq PCs
  BY DEF Failures, Verdicts, PCs

LEMMA InitTyped == Init => TypeOK
  <1> SUFFICES ASSUME Init
               PROVE  TypeOK
    OBVIOUS
  <1>1. NoTimes \in [Clients -> Nat] /\ NoTimes \in [Clients -> Int]
    BY DEF NoTimes
  <1>2. events \in Seq(Events)
    BY DEF Init
  <1>3. pc \in [Clients -> PCs] /\ verdict \in [Clients -> Verdicts]
    BY VerdictsAreTyped DEF Init
  <1>4. bootLeft \in Nat
    BY ClockAssumption DEF Init
  <1> QED
    BY <1>1, <1>2, <1>3, <1>4 DEF Init, TypeOK

LEMMA NextTyped == TypeOK /\ [Next]_vars => TypeOK'
  <1> SUFFICES ASSUME TypeOK, [Next]_vars
               PROVE  TypeOK'
    OBVIOUS
  <1> USE DEF procVars, sessionVars, clientVars, timeVars, resultVars, threadVars
  <1>1. CASE Process
    <2>1. CASE Boot
      BY <2>1 DEF Boot, TypeOK
    <2>2. CASE BootFails
      BY <2>2 DEF BootFails, TypeOK
    <2>3. CASE ChildDies
      BY <2>3 DEF ChildDies, TypeOK
    <2>4. CASE WatchChild
      <3>1. pc' \in [Clients -> PCs] /\ client' \in
              [Clients -> {"idle", "waiting", "answered", "gaveup", "reset"}]
        BY <2>4 DEF WatchChild, TypeOK, PCs
      <3>2. /\ left' \in [Clients -> Int] /\ dropLeft' \in [Clients -> Int]
            /\ reserve' \in [Clients -> Nat] /\ hopLeft' \in [Clients -> Nat]
            /\ patience' \in [Clients -> Int]
        BY <2>4 DEF WatchChild, TypeOK, NoTimes
      <3>3. /\ verdict' \in [Clients -> Verdicts]
            /\ answer' \in [Clients -> SUBSET Events]
            /\ tried' \in [Clients -> SUBSET Teardown]
            /\ srv' \in [Clients -> {"none", "sent", "running", "ended"}]
        BY <2>4, VerdictsAreTyped DEF WatchChild, TypeOK
      <3> QED
        BY <2>4, <3>1, <3>2, <3>3 DEF WatchChild, TypeOK
    <2>5. CASE Restart
      <3>1. bootLeft' \in Nat /\ boots' \in Nat
        BY <2>5, ClockAssumption DEF Restart, TypeOK
      <3> QED
        BY <2>5, <3>1 DEF Restart, TypeOK
    <2> QED
      BY <1>1, <2>1, <2>2, <2>3, <2>4, <2>5 DEF Process
  <1>2. CASE Tick
    <2>1. ASSUME NEW timers \in [Clients -> Int], NEW S
          PROVE  Down(timers, S) \in [Clients -> Int]
      BY <2>1 DEF Down
    <2>2. hopLeft' \in [Clients -> Nat]
      BY <1>2 DEF Tick, TypeOK, Down
    <2>3. /\ left' \in [Clients -> Int] /\ dropLeft' \in [Clients -> Int]
          /\ patience' \in [Clients -> Int]
      BY <1>2, <2>1 DEF Tick, TypeOK
    <2>4. bootLeft' \in Nat
      BY <1>2 DEF Tick, TypeOK
    <2> QED
      BY <1>2, <2>2, <2>3, <2>4 DEF Tick, TypeOK
  <1>3. ASSUME NEW c \in Clients, Caller(c)
        PROVE  TypeOK'
    <2>1. CASE Connect(c)
      <3>1. Timeout + Grace \in Int
        BY ClockAssumption
      <3>2. patience' \in [Clients -> Int]
        BY <2>1, <3>1 DEF Connect, TypeOK
      <3> QED
        BY <2>1, <3>2 DEF Connect, TypeOK
    <2>2. CASE GiveUp(c)
      BY <2>2 DEF GiveUp, TypeOK
    <2> QED
      BY <1>3, <2>1, <2>2 DEF Caller
  <1>4. ASSUME NEW c \in Clients, Handler(c)
        PROVE  TypeOK'
    <2>1. CASE Accept(c)
      <3>1. "queued" \in PCs /\ Timeout \in Nat /\ Timeout \in Int
        BY VerdictsAreTyped, ClockAssumption
      <3> QED
        BY <2>1, <3>1 DEF Accept, TypeOK
    <2>2. CASE AcceptMalformed(c)
      BY <2>2, VerdictsAreTyped DEF AcceptMalformed, TypeOK
    <2>3. CASE QueueTimeout(c)
      BY <2>3, VerdictsAreTyped DEF QueueTimeout, TypeOK
    <2>4. CASE AcquireLock(c)
      <3> DEFINE r == ReserveAt(c)
      <3>1. r \in Nat /\ left[c] \in Int /\ AuthBudget \in Nat
        BY ReserveIsNat, ClockAssumption DEF TypeOK
      <3>2. left[c] - r \in Int /\ Earlier(left[c] - r, AuthBudget) \in Int
        BY <3>1 DEF Earlier
      <3>3. "thread" \in PCs /\ "auth" \in PCs
        BY DEF PCs, Hops, RpcHops
      <3>4. pc' \in [Clients -> PCs] /\ hopLeft' \in [Clients -> Nat]
        BY <2>4, <3>2, <3>3, MoveToTyped DEF AcquireLock
      <3>5. events' \in Seq(Events)
        <4>1. <<>> \in Seq(Events)
          OBVIOUS
        <4> QED
          BY <2>4, <4>1 DEF AcquireLock, TypeOK
      <3> QED
        BY <2>4, <3>1, <3>4, <3>5 DEF AcquireLock, TypeOK
    <2>5. CASE AuthOk(c) \/ AuthMethodMissing(c)
      <3>1. "thread" \in PCs /\ TurnDeadline(c) \in Int
        BY LimitsAreInts DEF PCs, Hops, RpcHops
      <3>2. OpenThread(c)
        BY <2>5 DEF AuthOk, AuthMethodMissing
      <3>3. pc' \in [Clients -> PCs] /\ hopLeft' \in [Clients -> Nat]
        BY <3>1, <3>2, MoveToTyped DEF OpenThread
      <3>4. events' = <<>> /\ <<>> \in Seq(Events)
        BY <3>2 DEF OpenThread
      <3>5. authMethod' \in {"unknown", "known", "none"}
        BY <2>5 DEF AuthOk, AuthMethodMissing, TypeOK
      <3> QED
        BY <2>5, <3>3, <3>4, <3>5 DEF AuthOk, AuthMethodMissing, TypeOK
    <2>6. CASE ThreadOk(c)
      <3>1. "turn" \in PCs /\ TurnDeadline(c) \in Int
        BY LimitsAreInts DEF PCs, Hops, RpcHops
      <3>2. pc' \in [Clients -> PCs] /\ hopLeft' \in [Clients -> Nat]
        BY <2>6, <3>1, MoveToTyped DEF ThreadOk
      <3> QED
        BY <2>6, <3>2 DEF ThreadOk, TypeOK
    <2>7. ASSUME NEW named \in ReplyNamesTurn, TurnOk(c, named)
          PROVE  TypeOK'
      <3>1. "wait" \in PCs /\ TurnDeadline(c) \in Int
        BY LimitsAreInts DEF PCs, Hops
      <3>2. pc' \in [Clients -> PCs] /\ hopLeft' \in [Clients -> Nat]
        BY <2>7, <3>1, MoveToTyped DEF TurnOk
      <3> QED
        BY <2>7, <3>2 DEF TurnOk, TypeOK
    <2>8. CASE TakeEvent(c)
      <3> DEFINE e == Head(events)
      <3>1. e \in Events /\ events' \in Seq(Events)
        BY <2>8 DEF TakeEvent, TypeOK
      <3>3. CASE Abandon(c, "protocol") /\ UNCHANGED answer
        BY <2>8, <3>1, <3>3, AbandonTyped, VerdictsAreTyped DEF TakeEvent, TypeOK
      <3>4. CASE UNCHANGED <<pc, hopLeft, dropLeft, tried, resultVars>>
        BY <2>8, <3>1, <3>4 DEF TakeEvent, TypeOK
      <3>5. CASE /\ verdict' = [verdict EXCEPT ![c] = "text"]
                 /\ answer' = [answer EXCEPT ![c] = {e}]
                 /\ BeginDrop(c)
        <4>1. verdict' \in [Clients -> Verdicts]
          BY <3>5, VerdictsAreTyped DEF TypeOK
        <4>2. answer' \in [Clients -> SUBSET Events]
          BY <3>1, <3>5 DEF TypeOK
        <4> QED
          BY <2>8, <3>1, <3>5, <4>1, <4>2, BeginDropTyped DEF TakeEvent, TypeOK
      <3> QED
        BY <2>8, <3>3, <3>4, <3>5 DEF TakeEvent
    <2>9. ASSUME NEW v \in Failures, RpcFails(c, v)
          PROVE  TypeOK'
      <3>1. v \in Verdicts
        BY VerdictsAreTyped
      <3>2. CASE Finish(c, v) /\ UNCHANGED <<tried, srv>>
        BY <2>9, <3>1, <3>2, FinishTyped DEF RpcFails, TypeOK
      <3>3. CASE /\ Abandon(c, v)
                 /\ srv' = [srv EXCEPT ![c] = IF @ = "sent" THEN "none" ELSE @]
                 /\ UNCHANGED <<holder, reserve>>
        BY <2>9, <3>1, <3>3, AbandonTyped DEF RpcFails, TypeOK
      <3> QED
        BY <2>9, <3>2, <3>3 DEF RpcFails
    <2>10. CASE WaitFindsDead(c)
      BY <2>10, AbandonTyped, VerdictsAreTyped DEF WaitFindsDead, TypeOK
    <2>11. ASSUME NEW r \in Refusals, TeardownRefused(c, r)
           PROVE  TypeOK'
      <3>1. r \in Verdicts
        BY VerdictsAreTyped
      <3>2. answer' \in [Clients -> SUBSET Events]
        BY <2>11 DEF TeardownRefused, TypeOK
      <3>3. CASE Finish(c, r) /\ UNCHANGED tried
        BY <2>11, <3>1, <3>2, <3>3, FinishTyped DEF TeardownRefused, TypeOK
      <3>4. CASE /\ verdict' = [verdict EXCEPT ![c] = r]
                 /\ BeginDrop(c)
                 /\ UNCHANGED <<holder, reserve>>
        <4>1. verdict' \in [Clients -> Verdicts]
          BY <3>1, <3>4 DEF TypeOK
        <4> QED
          BY <2>11, <3>2, <3>4, <4>1, BeginDropTyped DEF TeardownRefused, TypeOK
      <3> QED
        BY <2>11, <3>3, <3>4 DEF TeardownRefused
    <2>12. CASE Expires(c)
      <3>1. CASE Finish(c, "timeout") /\ UNCHANGED tried
        BY <2>12, <3>1, FinishTyped, VerdictsAreTyped DEF Expires, TypeOK
      <3>2. CASE Abandon(c, "timeout") /\ UNCHANGED <<holder, reserve>>
        BY <2>12, <3>2, AbandonTyped, VerdictsAreTyped DEF Expires, TypeOK
      <3> QED
        BY <2>12, <3>1, <3>2 DEF Expires
    <2>13. CASE Interrupted(c)
      BY <2>13, BeginDropTyped DEF Interrupted, TypeOK
    <2>14. CASE Archived(c)
      <3>1. /\ "unsubscribe" \in PCs /\ "unsubscribe" \in Teardown
            /\ dropLeft[c] \in Int
        BY DEF PCs, Hops, RpcHops, Teardown, TypeOK
      <3>2. pc' \in [Clients -> PCs] /\ hopLeft' \in [Clients -> Nat]
        BY <2>14, <3>1, MoveToTyped DEF Archived
      <3> QED
        BY <2>14, <3>1, <3>2 DEF Archived, TypeOK
    <2>15. ASSUME NEW obeyed \in BOOLEAN, Unsubscribed(c, obeyed)
           PROVE  TypeOK'
      <3>1. verdict[c] \in Verdicts
        BY DEF TypeOK
      <3> QED
        BY <2>15, <3>1, FinishTyped DEF Unsubscribed, TypeOK
    <2>16. CASE Deliver(c)
      BY <2>16, VerdictsAreTyped DEF Deliver, TypeOK
    <2> QED
      BY <1>4, <2>1, <2>2, <2>3, <2>4, <2>5, <2>6, <2>7, <2>8, <2>9, <2>10,
         <2>11, <2>12, <2>13, <2>14, <2>15, <2>16 DEF Handler, HopEnds
  <1>5. ASSUME NEW c \in Clients, Server(c)
        PROVE  TypeOK'
    <2>1. CASE TurnBegins(c)
      BY <2>1 DEF TurnBegins, TypeOK
    <2>2. CASE ReaderLost(c)
      BY <2>2 DEF ReaderLost, TypeOK
    <2>3. ASSUME NEW form \in EventForms, NEW ok \in BOOLEAN,
                 TurnEnds(c, form, ok)
          PROVE  TypeOK'
      <3>1. [from |-> c, form |-> form, ok |-> ok] \in Events
        BY DEF Events
      <3>2. events' \in Seq(Events)
        BY <2>3, <3>1 DEF TurnEnds, TypeOK
      <3> QED
        BY <2>3, <3>2 DEF TurnEnds, TypeOK
    <2> QED
      BY <1>5, <2>1, <2>2, <2>3 DEF Server
  <1>6. CASE UNCHANGED vars
    BY <1>6 DEF vars, TypeOK
  <1> QED
    BY <1>1, <1>2, <1>3, <1>4, <1>5, <1>6 DEF Next

\* Every variable keeps its type.
THEOREM TypeCorrect == Spec => []TypeOK
  BY InitTyped, NextTyped, PTL DEF Spec

-----------------------------------------------------------------------------
(* One call at a time.                                                     *)

LEMMA HopNames ==
    /\ RpcHops \subseteq Hops /\ "wait" \in Hops /\ Teardown \subseteq Hops
    /\ {"auth", "thread", "turn", "interrupt", "archive", "unsubscribe"} \subseteq RpcHops
    /\ \A elsewhere \in {"idle", "queued", "reply", "done", "killed"} : elsewhere \notin Hops
  BY DEF Hops, RpcHops, Teardown

LEMMA MoveToSerial ==
    ASSUME TypeOK, SerialCalls, NEW c \in Clients, NEW hop \in Hops, NEW limit,
           holder = c, MoveTo(c, hop, limit), UNCHANGED holder
    PROVE  SerialCalls'
  BY DEF SerialCalls, MoveTo, TypeOK

LEMMA FinishSerial ==
    ASSUME TypeOK, SerialCalls, NEW c \in Clients, NEW v, holder = c, Finish(c, v)
    PROVE  SerialCalls'
  BY HopNames, ShapeAssumption DEF SerialCalls, Finish, TypeOK

LEMMA BeginDropSerial ==
    ASSUME TypeOK, SerialCalls, NEW c \in Clients, holder = c, BeginDrop(c),
           UNCHANGED holder
    PROVE  SerialCalls'
  <1>1. MoveTo(c, "archive", TeardownLimit(c)) /\ "archive" \in Hops
    BY HopNames DEF BeginDrop
  <1> QED
    BY <1>1, MoveToSerial

LEMMA AbandonSerial ==
    ASSUME TypeOK, SerialCalls, NEW c \in Clients, NEW v, holder = c,
           Abandon(c, v), UNCHANGED holder
    PROVE  SerialCalls'
  <1>1. CASE c \in turnKnown
    BY <1>1, HopNames, MoveToSerial DEF Abandon
  <1>2. CASE c \notin turnKnown
    BY <1>2, BeginDropSerial DEF Abandon
  <1> QED
    BY <1>1, <1>2

LEMMA InitSerial == Init => SerialCalls
  <1> SUFFICES ASSUME Init, NEW c \in Clients
               PROVE  pc[c] \notin Hops /\ holder # c
    BY DEF SerialCalls
  <1> QED
    BY HopNames, ShapeAssumption DEF Init

LEMMA NextSerial == TypeOK /\ SerialCalls /\ [Next]_vars => SerialCalls'
  <1> SUFFICES ASSUME TypeOK, SerialCalls, [Next]_vars
               PROVE  SerialCalls'
    OBVIOUS
  <1> USE DEF procVars, sessionVars, clientVars, timeVars, resultVars, threadVars
  <1>1. CASE Process
    <2>1. CASE Boot \/ BootFails \/ ChildDies \/ Restart
      BY <2>1 DEF Boot, BootFails, ChildDies, Restart, SerialCalls
    <2>2. CASE WatchChild
      BY <2>2, HopNames, ShapeAssumption DEF WatchChild, SerialCalls, TypeOK
    <2> QED
      BY <1>1, <2>1, <2>2 DEF Process
  <1>2. CASE Tick
    BY <1>2 DEF Tick, SerialCalls
  <1>3. ASSUME NEW c \in Clients, Caller(c)
        PROVE  SerialCalls'
    BY <1>3 DEF Caller, Connect, GiveUp, SerialCalls
  <1>4. ASSUME NEW c \in Clients, Handler(c)
        PROVE  SerialCalls'
    <2>1. CASE Accept(c)
      BY <2>1, HopNames DEF Accept, Backlogged, SerialCalls, TypeOK
    <2>2. CASE AcceptMalformed(c)
      BY <2>2, HopNames DEF AcceptMalformed, Backlogged, SerialCalls, TypeOK
    <2>3. CASE QueueTimeout(c)
      BY <2>3, HopNames DEF QueueTimeout, SerialCalls, TypeOK
    <2>4. CASE AcquireLock(c)
      <3>1. PICK hop \in Hops : \E limit : MoveTo(c, hop, limit)
        BY <2>4, HopNames DEF AcquireLock
      <3>2. holder = NoClient /\ holder' = c
        BY <2>4 DEF AcquireLock
      <3> QED
        BY <3>1, <3>2, ShapeAssumption DEF MoveTo, SerialCalls, TypeOK
    <2>5. CASE AuthOk(c) \/ AuthMethodMissing(c)
      BY <2>5, HopNames, MoveToSerial
      DEF AuthOk, AuthMethodMissing, OpenThread, Answered, At
    <2>6. CASE ThreadOk(c)
      BY <2>6, HopNames, MoveToSerial DEF ThreadOk, Answered, At
    <2>7. ASSUME NEW named \in ReplyNamesTurn, TurnOk(c, named)
          PROVE  SerialCalls'
      BY <2>7, HopNames, MoveToSerial DEF TurnOk, Answered, At
    <2>8. CASE TakeEvent(c)
      <3>1. holder = c /\ UNCHANGED holder
        BY <2>8 DEF TakeEvent, At
      <3>2. CASE Abandon(c, "protocol")
        BY <3>1, <3>2, AbandonSerial
      <3>3. CASE UNCHANGED pc
        BY <3>1, <3>3 DEF SerialCalls
      <3>4. CASE BeginDrop(c)
        BY <3>1, <3>4, BeginDropSerial
      <3> QED
        BY <2>8, <3>2, <3>3, <3>4 DEF TakeEvent
    <2>9. ASSUME NEW v \in Failures, RpcFails(c, v)
          PROVE  SerialCalls'
      BY <2>9, FinishSerial, AbandonSerial DEF RpcFails, At
    <2>10. CASE WaitFindsDead(c)
      BY <2>10, AbandonSerial DEF WaitFindsDead, At
    <2>11. ASSUME NEW r \in Refusals, TeardownRefused(c, r)
           PROVE  SerialCalls'
      BY <2>11, FinishSerial, BeginDropSerial DEF TeardownRefused, At
    <2>12. CASE Expires(c)
      BY <2>12, FinishSerial, AbandonSerial DEF Expires, At
    <2>13. CASE Interrupted(c)
      BY <2>13, BeginDropSerial DEF Interrupted, At
    <2>14. CASE Archived(c)
      BY <2>14, HopNames, MoveToSerial DEF Archived, At
    <2>15. ASSUME NEW obeyed \in BOOLEAN, Unsubscribed(c, obeyed)
           PROVE  SerialCalls'
      BY <2>15, FinishSerial DEF Unsubscribed, At
    <2>16. CASE Deliver(c)
      BY <2>16, HopNames DEF Deliver, SerialCalls, TypeOK
    <2> QED
      BY <1>4, <2>1, <2>2, <2>3, <2>4, <2>5, <2>6, <2>7, <2>8, <2>9, <2>10,
         <2>11, <2>12, <2>13, <2>14, <2>15, <2>16 DEF Handler, HopEnds
  <1>5. ASSUME NEW c \in Clients, Server(c)
        PROVE  SerialCalls'
    BY <1>5 DEF Server, TurnBegins, ReaderLost, TurnEnds, SerialCalls
  <1>6. CASE UNCHANGED vars
    BY <1>6 DEF vars, SerialCalls
  <1> QED
    BY <1>1, <1>2, <1>3, <1>4, <1>5, <1>6 DEF Next

\* At every moment exactly the call that owns the serial lock is talking to
\* the app-server, on every path into and out of invoke() (daemon._dispatch).
THEOREM SerialCallsHold == Spec => []SerialCalls
  <1>1. TypeOK /\ SerialCalls /\ [Next]_vars => (TypeOK /\ SerialCalls)'
    BY NextTyped, NextSerial
  <1> QED
    BY <1>1, InitTyped, InitSerial, PTL DEF Spec

-----------------------------------------------------------------------------
(* The budget.                                                             *)

\* What the daemon may rely on about a caller it still owes an answer: it is
\* waiting or it gave up after its patience ran out, and an answer about to be
\* written is overdue by at most Overrun (a connection nobody accepted yet has
\* no deadline).
CallersAccounted ==
    \A c \in Clients :
        /\ pc[c] \in Hops \union {"queued", "reply"} => client[c] \in {"waiting", "gaveup"}
        /\ client[c] = "gaveup" => patience[c] <= 0
        /\ pc[c] \in {"idle", "reply"} => left[c] >= -Overrun

BudgetInv == TypeOK /\ SerialCalls /\ HopsEndInBudget /\ CallersAccounted

LEMMA HopNumbers ==
    /\ \A hop \in Hops : HopNumber(hop) \in 1..7
    /\ HopNumber("auth") = 1 /\ HopNumber("thread") = 2 /\ HopNumber("turn") = 3
    /\ HopNumber("wait") = 4 /\ HopNumber("interrupt") = 5
    /\ HopNumber("archive") = 6 /\ HopNumber("unsubscribe") = 7
  BY DEF HopNumber, Hops, RpcHops

\* A call in hop k has overrun by at most k floors, so by at most Overrun.
LEMMA OverrunInHop ==
    ASSUME TypeOK, HopsEndInBudget, NEW c \in Clients, pc[c] \in Hops
    PROVE  left[c] >= -(HopNumber(pc[c]) * Floor) /\ left[c] >= -Overrun
  <1> DEFINE k == HopNumber(pc[c])
  <1>1. left[c] - hopLeft[c] >= -(k * Floor) /\ hopLeft[c] \in Nat /\ left[c] \in Int
    BY DEF HopsEndInBudget, TypeOK
  <1>2. k \in 1..7 /\ Floor \in Nat
    BY HopNumbers, ClockAssumption
  <1>3. k * Floor \in Int /\ k * Floor <= 7 * Floor
    <2> HIDE DEF k
    <2>1. k = 1 \/ k = 2 \/ k = 3 \/ k = 4 \/ k = 5 \/ k = 6 \/ k = 7
      BY <1>2
    <2> QED
      BY <1>2, <2>1
  <1> QED
    BY <1>1, <1>3, <1>2 DEF Overrun

\* Arming the next hop from the request's deadline costs at most one floor.
LEMMA MoveToInBudget ==
    ASSUME TypeOK, HopsEndInBudget, NEW c \in Clients, NEW hop \in Hops,
           NEW limit \in Int, limit <= left[c], MoveTo(c, hop, limit), UNCHANGED left,
           left[c] >= Floor - HopNumber(hop) * Floor,
           hop \in Teardown => dropLeft'[c] <= left[c],
           \A d \in Clients \ {c} : dropLeft'[d] = dropLeft[d]
    PROVE  HopsEndInBudget'
  <1> SUFFICES ASSUME NEW d \in Clients
               PROVE  /\ pc'[d] = "queued" => left'[d] >= 0
                      /\ pc'[d] \in Hops =>
                           left'[d] - hopLeft'[d] >= -(HopNumber(pc'[d]) * Floor)
                      /\ pc'[d] \in Teardown => dropLeft'[d] <= left'[d]
    BY DEF HopsEndInBudget
  <1>1. CASE d = c
    <2>1. pc'[c] = hop /\ hopLeft'[c] = Remaining(limit) /\ left'[c] = left[c]
      BY DEF MoveTo, TypeOK
    <2>2. Remaining(limit) = Floor \/ Remaining(limit) = limit
      BY RemainingBounds
    <2>3. left[c] \in Int /\ Floor \in Nat
      BY ClockAssumption DEF TypeOK
    <2>4. HopNumber(hop) * Floor \in Int /\ HopNumber(hop) * Floor >= 0
      <3>1. HopNumber(hop) \in 1..7
        BY HopNumbers
      <3>2. \A k \in 1..7, f \in Nat : k * f \in Int /\ k * f >= 0
        OBVIOUS
      <3> QED
        BY <2>3, <3>1, <3>2
    <2>5. left[c] - Remaining(limit) >= -(HopNumber(hop) * Floor)
      BY <2>2, <2>3, <2>4
    <2>6. hop # "queued"
      BY HopNames
    <2> QED
      BY <1>1, <2>1, <2>5, <2>6
  <1>2. CASE d # c
    <2>1. pc'[d] = pc[d] /\ hopLeft'[d] = hopLeft[d]
      BY <1>2 DEF MoveTo, TypeOK
    <2> QED
      BY <1>2, <2>1 DEF HopsEndInBudget
  <1> QED
    BY <1>1, <1>2

LEMMA FinishInBudget ==
    ASSUME TypeOK, HopsEndInBudget, NEW c \in Clients, NEW v, Finish(c, v),
           UNCHANGED left
    PROVE  HopsEndInBudget'
  <1> SUFFICES ASSUME NEW d \in Clients
               PROVE  /\ pc'[d] = "queued" => left'[d] >= 0
                      /\ pc'[d] \in Hops =>
                           left'[d] - hopLeft'[d] >= -(HopNumber(pc'[d]) * Floor)
                      /\ pc'[d] \in Teardown => dropLeft'[d] <= left'[d]
    BY DEF HopsEndInBudget
  <1>1. CASE d = c
    <2>1. pc'[d] = "reply"
      BY <1>1 DEF Finish, TypeOK
    <2> QED
      BY <2>1, HopNames
  <1>2. CASE d # c
    <2>1. pc'[d] = pc[d] /\ hopLeft'[d] = hopLeft[d] /\ dropLeft'[d] = dropLeft[d]
      BY <1>2 DEF Finish, TypeOK
    <2> QED
      BY <2>1 DEF HopsEndInBudget
  <1> QED
    BY <1>1, <1>2

LEMMA BeginDropInBudget ==
    ASSUME TypeOK, HopsEndInBudget, NEW c \in Clients, left[c] >= -(5 * Floor),
           BeginDrop(c), UNCHANGED left
    PROVE  HopsEndInBudget'
  <1>1. /\ TeardownLimit(c) \in Int /\ TeardownLimit(c) <= left[c]
        /\ left[c] \in Int /\ Floor \in Nat
    BY LimitsAreInts, ClockAssumption DEF TypeOK
  <1>2. "archive" \in Hops /\ left[c] >= Floor - HopNumber("archive") * Floor
    BY <1>1, HopNames, HopNumbers
  <1>3. /\ dropLeft'[c] <= left[c]
        /\ \A d \in Clients \ {c} : dropLeft'[d] = dropLeft[d]
    BY <1>1 DEF BeginDrop, TypeOK
  <1>4. MoveTo(c, "archive", TeardownLimit(c))
    BY DEF BeginDrop
  <1> QED
    BY <1>1, <1>2, <1>3, <1>4, MoveToInBudget

LEMMA AbandonInBudget ==
    ASSUME TypeOK, HopsEndInBudget, NEW c \in Clients, NEW v,
           left[c] >= -(4 * Floor), Abandon(c, v), UNCHANGED left
    PROVE  HopsEndInBudget'
  <1>1. /\ TeardownLimit(c) \in Int /\ TeardownLimit(c) <= left[c]
        /\ left[c] \in Int /\ Floor \in Nat
    BY LimitsAreInts, ClockAssumption DEF TypeOK
  <1>2. CASE c \in turnKnown
    <2>1. /\ "interrupt" \in Hops /\ "interrupt" \notin Teardown
          /\ left[c] >= Floor - HopNumber("interrupt") * Floor
      BY <1>1, HopNames, HopNumbers DEF Teardown
    <2>2. MoveTo(c, "interrupt", TeardownLimit(c)) /\ UNCHANGED dropLeft
      BY <1>2 DEF Abandon
    <2> QED
      BY <1>1, <2>1, <2>2, MoveToInBudget
  <1>3. CASE c \notin turnKnown
    <2>1. left[c] >= -(5 * Floor)
      BY <1>1
    <2> QED
      BY <1>3, <2>1, BeginDropInBudget DEF Abandon
  <1> QED
    BY <1>2, <1>3

LEMMA InitInBudget == Init => HopsEndInBudget /\ CallersAccounted
  <1> SUFFICES ASSUME Init, NEW c \in Clients
               PROVE  pc[c] = "idle" /\ client[c] = "idle" /\ left[c] >= -Overrun
    BY HopNames DEF HopsEndInBudget, CallersAccounted, Teardown
  <1> QED
    BY ClockAssumption DEF Init, NoTimes, Overrun

LEMMA NextInBudget == TypeOK /\ HopsEndInBudget /\ [Next]_vars => HopsEndInBudget'
  <1> SUFFICES ASSUME TypeOK, HopsEndInBudget, [Next]_vars
               PROVE  HopsEndInBudget'
    OBVIOUS
  <1> USE DEF procVars, sessionVars, clientVars, timeVars, resultVars, threadVars
  <1>1. CASE Process
    <2>1. CASE Boot \/ BootFails \/ ChildDies \/ Restart
      BY <2>1 DEF Boot, BootFails, ChildDies, Restart, HopsEndInBudget
    <2>2. CASE WatchChild
      <3> SUFFICES ASSUME NEW c \in Clients
                   PROVE  pc'[c] \notin Hops \union {"queued"}
        BY HopNames DEF HopsEndInBudget
      <3>1. pc'[c] = "killed" \/ pc'[c] \in {"idle", "done", "killed"}
        BY <2>2 DEF WatchChild, TypeOK
      <3> QED
        BY <3>1, HopNames
    <2> QED
      BY <1>1, <2>1, <2>2 DEF Process
  <1>2. CASE Tick
    <2> SUFFICES ASSUME NEW c \in Clients
                 PROVE  /\ pc'[c] = "queued" => left'[c] >= 0
                        /\ pc'[c] \in Hops =>
                             left'[c] - hopLeft'[c] >= -(HopNumber(pc'[c]) * Floor)
                        /\ pc'[c] \in Teardown => dropLeft'[c] <= left'[c]
      BY DEF HopsEndInBudget
    <2>1. left[c] \in Int /\ hopLeft[c] \in Int /\ dropLeft[c] \in Int
      BY DEF TypeOK
    <2>2. pc' = pc
      BY <1>2 DEF Tick
    <2>3. CASE pc[c] = "queued"
      <3>1. left[c] > 0 /\ left'[c] = left[c] - 1
        BY <1>2, <2>3 DEF Tick, Down
      <3> QED
        BY <2>1, <2>2, <2>3, <3>1, HopNames
    <2>4. CASE pc[c] \in Hops
      <3>1. left'[c] = left[c] - 1 /\ hopLeft'[c] = hopLeft[c] - 1
        BY <1>2, <2>4 DEF Tick, Down
      <3>2. pc[c] \in Teardown => dropLeft'[c] = dropLeft[c] - 1
        BY <1>2 DEF Tick, Down
      <3>3. left'[c] - hopLeft'[c] = left[c] - hopLeft[c]
        BY <2>1, <3>1
      <3>4. pc[c] # "queued"
        BY <2>4, HopNames
      <3> QED
        BY <2>1, <2>2, <2>4, <3>1, <3>2, <3>3, <3>4 DEF HopsEndInBudget
    <2> QED
      BY <2>2, <2>3, <2>4, HopNames
  <1>3. ASSUME NEW c \in Clients, Caller(c)
        PROVE  HopsEndInBudget'
    BY <1>3 DEF Caller, Connect, GiveUp, HopsEndInBudget
  <1>4. ASSUME NEW c \in Clients, Handler(c)
        PROVE  HopsEndInBudget'
    <2>0. left[c] \in Int /\ Floor \in Nat
      BY ClockAssumption DEF TypeOK
    <2>1. CASE Accept(c)
      <3>1. /\ pc' = [pc EXCEPT ![c] = "queued"] /\ left' = [left EXCEPT ![c] = Timeout]
            /\ UNCHANGED <<hopLeft, dropLeft>>
        BY <2>1 DEF Accept
      <3>2. "queued" \notin Hops /\ "queued" \notin Teardown /\ Timeout >= 0
        BY HopNames, ClockAssumption DEF Teardown
      <3>3. \A d \in Clients \ {c} : pc'[d] = pc[d] /\ left'[d] = left[d]
        BY <3>1 DEF TypeOK
      <3>4. pc'[c] = "queued" /\ left'[c] = Timeout
        BY <3>1 DEF TypeOK
      <3> QED
        BY <3>1, <3>2, <3>3, <3>4 DEF HopsEndInBudget
    <2>2. CASE AcceptMalformed(c)
      BY <2>2, HopNames DEF AcceptMalformed, HopsEndInBudget, TypeOK
    <2>3. CASE QueueTimeout(c)
      BY <2>3, HopNames DEF QueueTimeout, HopsEndInBudget, TypeOK
    <2>4. CASE AcquireLock(c)
      <3> DEFINE r == ReserveAt(c)
      <3>1. r \in Nat /\ AuthBudget \in Nat /\ left[c] >= 0
        BY <2>4, ReserveIsNat, ClockAssumption DEF AcquireLock
      <3>2. PICK hop \in {"auth", "thread"}, limit \in {left[c] - r, Earlier(left[c] - r, AuthBudget)} :
              MoveTo(c, hop, limit)
        BY <2>4 DEF AcquireLock
      <3>3. limit \in Int /\ limit <= left[c]
        BY <2>0, <3>1, <3>2 DEF Earlier
      <3>4. /\ hop \in Hops /\ hop \notin Teardown
            /\ left[c] >= Floor - HopNumber(hop) * Floor
        BY <2>0, <3>1, <3>2, HopNames, HopNumbers DEF Teardown
      <3>5. UNCHANGED <<left, dropLeft>>
        BY <2>4 DEF AcquireLock
      <3> QED
        BY <3>2, <3>3, <3>4, <3>5, MoveToInBudget
    <2>5. ASSUME NEW hop \in Hops, NEW next \in Hops,
                 HopNumber(next) = HopNumber(hop) + 1, next \notin Teardown,
                 pc[c] = hop, MoveTo(c, next, TurnDeadline(c)), UNCHANGED timeVars
          PROVE  HopsEndInBudget'
      <3>1. left[c] >= -(HopNumber(hop) * Floor)
        BY <2>5, OverrunInHop
      <3>2. Floor - HopNumber(next) * Floor = -(HopNumber(hop) * Floor)
        <4>1. \A k \in 1..7, f \in Nat : f - (k + 1) * f = -(k * f)
          OBVIOUS
        <4> QED
          BY <2>0, <2>5, <4>1, HopNumbers
      <3> QED
        BY <2>5, <3>1, <3>2, LimitsAreInts, MoveToInBudget
    <2>6. CASE AuthOk(c) \/ AuthMethodMissing(c)
      <3>1. pc[c] = "auth" /\ MoveTo(c, "thread", TurnDeadline(c)) /\ UNCHANGED timeVars
        BY <2>6 DEF AuthOk, AuthMethodMissing, OpenThread, Answered, At
      <3> QED
        BY <2>5, <3>1, HopNames, HopNumbers DEF Teardown
    <2>7. CASE ThreadOk(c)
      <3>1. pc[c] = "thread" /\ MoveTo(c, "turn", TurnDeadline(c)) /\ UNCHANGED timeVars
        BY <2>7 DEF ThreadOk, Answered, At
      <3> QED
        BY <2>5, <3>1, HopNames, HopNumbers DEF Teardown
    <2>8. ASSUME NEW named \in ReplyNamesTurn, TurnOk(c, named)
          PROVE  HopsEndInBudget'
      <3>1. pc[c] = "turn" /\ MoveTo(c, "wait", TurnDeadline(c)) /\ UNCHANGED timeVars
        BY <2>8 DEF TurnOk, Answered, At
      <3> QED
        BY <2>5, <3>1, HopNames, HopNumbers DEF Teardown
    <2>9. ASSUME pc[c] \in {"auth", "thread", "turn", "wait"}
          PROVE  left[c] >= -(4 * Floor) /\ left[c] >= -(5 * Floor)
      <3>1. left[c] >= -(HopNumber(pc[c]) * Floor)
        BY <2>9, OverrunInHop, HopNames
      <3> QED
        BY <2>0, <2>9, <3>1, HopNumbers
    <2>10. CASE TakeEvent(c)
      <3>1. pc[c] = "wait" /\ UNCHANGED left
        BY <2>10 DEF TakeEvent, At
      <3>2. CASE Abandon(c, "protocol")
        BY <2>9, <3>1, <3>2, AbandonInBudget
      <3>3. CASE UNCHANGED <<pc, hopLeft, dropLeft, tried, resultVars>>
        BY <3>1, <3>3 DEF HopsEndInBudget
      <3>4. CASE BeginDrop(c)
        BY <2>9, <3>1, <3>4, BeginDropInBudget
      <3> QED
        BY <2>10, <3>2, <3>3, <3>4 DEF TakeEvent
    <2>11. ASSUME NEW v \in Failures, RpcFails(c, v)
           PROVE  HopsEndInBudget'
      <3>1. CASE Finish(c, v)
        BY <2>11, <3>1, FinishInBudget DEF RpcFails
      <3>2. CASE At(c, "turn") /\ Abandon(c, v)
        BY <2>9, <2>11, <3>2, AbandonInBudget DEF RpcFails, At
      <3> QED
        BY <2>11, <3>1, <3>2 DEF RpcFails
    <2>12. CASE WaitFindsDead(c)
      BY <2>9, <2>12, AbandonInBudget DEF WaitFindsDead, At
    <2>13. ASSUME pc[c] = "interrupt"
           PROVE  left[c] >= -(5 * Floor)
      BY <2>13, OverrunInHop, HopNames, HopNumbers
    <2>14. ASSUME NEW r \in Refusals, TeardownRefused(c, r)
           PROVE  HopsEndInBudget'
      <3>1. CASE Finish(c, r)
        BY <2>14, <3>1, FinishInBudget DEF TeardownRefused
      <3>2. CASE At(c, "interrupt") /\ BeginDrop(c)
        BY <2>13, <2>14, <3>2, BeginDropInBudget DEF TeardownRefused, At
      <3> QED
        BY <2>14, <3>1, <3>2 DEF TeardownRefused
    <2>15. CASE Expires(c)
      <3>1. CASE Finish(c, "timeout")
        BY <2>15, <3>1, FinishInBudget DEF Expires
      <3>2. CASE (At(c, "turn") \/ At(c, "wait")) /\ Abandon(c, "timeout")
        BY <2>9, <2>15, <3>2, AbandonInBudget DEF Expires, At
      <3> QED
        BY <2>15, <3>1, <3>2 DEF Expires
    <2>16. CASE Interrupted(c)
      BY <2>13, <2>16, BeginDropInBudget DEF Interrupted, At
    <2>17. CASE Archived(c)
      <3>1. pc[c] = "archive" /\ "archive" \in Teardown
        BY <2>17 DEF Archived, At, Teardown
      <3>2. dropLeft[c] \in Int /\ dropLeft[c] <= left[c]
        BY <3>1 DEF HopsEndInBudget, TypeOK
      <3>3. left[c] >= Floor - HopNumber("unsubscribe") * Floor
        BY <2>0, <3>1, OverrunInHop, HopNames, HopNumbers
      <3>4. /\ MoveTo(c, "unsubscribe", dropLeft[c]) /\ "unsubscribe" \in Hops
            /\ UNCHANGED <<left, dropLeft>>
        BY <2>17, HopNames DEF Archived
      <3> QED
        BY <3>2, <3>3, <3>4, MoveToInBudget
    <2>18. ASSUME NEW obeyed \in BOOLEAN, Unsubscribed(c, obeyed)
           PROVE  HopsEndInBudget'
      BY <2>18, FinishInBudget DEF Unsubscribed
    <2>19. CASE Deliver(c)
      BY <2>19, HopNames DEF Deliver, HopsEndInBudget, TypeOK
    <2> QED
      BY <1>4, <2>1, <2>2, <2>3, <2>4, <2>6, <2>7, <2>8, <2>10, <2>11, <2>12,
         <2>14, <2>15, <2>16, <2>17, <2>18, <2>19 DEF Handler, HopEnds
  <1>5. ASSUME NEW c \in Clients, Server(c)
        PROVE  HopsEndInBudget'
    BY <1>5 DEF Server, TurnBegins, ReaderLost, TurnEnds, HopsEndInBudget
  <1>6. CASE UNCHANGED vars
    BY <1>6 DEF vars, HopsEndInBudget
  <1> QED
    BY <1>1, <1>2, <1>3, <1>4, <1>5, <1>6 DEF Next

\* A step of a call that stays in the call or ends it disturbs no caller.
LEMMA CallStepAccounted ==
    ASSUME TypeOK, CallersAccounted, NEW c \in Clients, pc[c] \in Hops,
           left[c] >= -Overrun, UNCHANGED <<client, patience, left>>,
           NEW where \in PCs, pc' = [pc EXCEPT ![c] = where]
    PROVE  CallersAccounted'
  <1> SUFFICES ASSUME NEW d \in Clients
               PROVE  /\ pc'[d] \in Hops \union {"queued", "reply"} =>
                            client'[d] \in {"waiting", "gaveup"}
                      /\ client'[d] = "gaveup" => patience'[d] <= 0
                      /\ pc'[d] \in {"idle", "reply"} => left'[d] >= -Overrun
    BY DEF CallersAccounted
  <1>1. CASE d = c
    BY <1>1 DEF CallersAccounted
  <1>2. CASE d # c
    <2>1. pc'[d] = pc[d]
      BY <1>2 DEF TypeOK
    <2> QED
      BY <2>1 DEF CallersAccounted
  <1> QED
    BY <1>1, <1>2

\* Whatever a hop of a call does next, only the owner of the lock moves.
LEMMA HandlerMovesOne ==
    ASSUME TypeOK, NEW c \in Clients, Handler(c), pc[c] \in Hops
    PROVE  /\ UNCHANGED <<client, patience, left>>
           /\ \E where \in PCs : pc' = [pc EXCEPT ![c] = where]
  <1> USE DEF procVars, sessionVars, clientVars, timeVars, resultVars, threadVars
  <1>1. pc[c] \notin {"idle", "queued", "reply", "done", "killed"}
    BY HopNames
  <1>2. /\ ~Accept(c) /\ ~AcceptMalformed(c) /\ ~QueueTimeout(c)
        /\ ~AcquireLock(c) /\ ~Deliver(c)
    BY <1>1 DEF Accept, AcceptMalformed, Backlogged, QueueTimeout, AcquireLock, Deliver
  <1>3. ASSUME NEW hop \in Hops, NEW limit, MoveTo(c, hop, limit)
        PROVE  \E where \in PCs : pc' = [pc EXCEPT ![c] = where]
    BY <1>3 DEF MoveTo, PCs
  <1>4. ASSUME NEW v, Finish(c, v)
        PROVE  \E where \in PCs : pc' = [pc EXCEPT ![c] = where]
    BY <1>4, VerdictsAreTyped DEF Finish
  <1>5. ASSUME BeginDrop(c)
        PROVE  \E where \in PCs : pc' = [pc EXCEPT ![c] = where]
    <2>1. MoveTo(c, "archive", TeardownLimit(c)) /\ "archive" \in Hops
      BY <1>5, HopNames DEF BeginDrop
    <2> QED
      BY <2>1, <1>3
  <1>6. ASSUME NEW v, Abandon(c, v)
        PROVE  \E where \in PCs : pc' = [pc EXCEPT ![c] = where]
    <2>1. CASE c \in turnKnown
      <3>1. MoveTo(c, "interrupt", TeardownLimit(c)) /\ "interrupt" \in Hops
        BY <1>6, <2>1, HopNames DEF Abandon
      <3> QED
        BY <3>1, <1>3
    <2>2. CASE c \notin turnKnown
      BY <1>5, <1>6, <2>2 DEF Abandon
    <2> QED
      BY <2>1, <2>2
  <1>7. CASE AuthOk(c) \/ AuthMethodMissing(c)
    <2>1. MoveTo(c, "thread", TurnDeadline(c)) /\ "thread" \in Hops
      BY <1>7, HopNames DEF AuthOk, AuthMethodMissing, OpenThread
    <2> QED
      BY <1>7, <2>1, <1>3 DEF AuthOk, AuthMethodMissing
  <1>8. CASE ThreadOk(c)
    <2>1. MoveTo(c, "turn", TurnDeadline(c)) /\ "turn" \in Hops
      BY <1>8, HopNames DEF ThreadOk
    <2> QED
      BY <1>8, <2>1, <1>3 DEF ThreadOk
  <1>9. ASSUME NEW named \in ReplyNamesTurn, TurnOk(c, named)
        PROVE  /\ UNCHANGED <<client, patience, left>>
               /\ \E where \in PCs : pc' = [pc EXCEPT ![c] = where]
    <2>1. MoveTo(c, "wait", TurnDeadline(c)) /\ "wait" \in Hops
      BY <1>9, HopNames DEF TurnOk
    <2> QED
      BY <1>9, <2>1, <1>3 DEF TurnOk
  <1>10. CASE TakeEvent(c)
    <2>1. CASE UNCHANGED <<pc, hopLeft, dropLeft, tried, resultVars>>
      <3>1. pc' = [pc EXCEPT ![c] = pc[c]] /\ pc[c] \in PCs
        BY <2>1 DEF TypeOK
      <3> QED
        BY <1>10, <3>1 DEF TakeEvent
    <2>2. CASE Abandon(c, "protocol") \/ BeginDrop(c)
      BY <1>5, <1>6, <1>10, <2>2 DEF TakeEvent
    <2> QED
      BY <1>10, <2>1, <2>2 DEF TakeEvent
  <1>11. ASSUME NEW v \in Failures, RpcFails(c, v)
         PROVE  /\ UNCHANGED <<client, patience, left>>
                /\ \E where \in PCs : pc' = [pc EXCEPT ![c] = where]
    BY <1>4, <1>6, <1>11 DEF RpcFails
  <1>12. CASE WaitFindsDead(c)
    BY <1>6, <1>12 DEF WaitFindsDead
  <1>13. ASSUME NEW r \in Refusals, TeardownRefused(c, r)
         PROVE  /\ UNCHANGED <<client, patience, left>>
                /\ \E where \in PCs : pc' = [pc EXCEPT ![c] = where]
    BY <1>4, <1>5, <1>13 DEF TeardownRefused
  <1>14. CASE Expires(c)
    BY <1>4, <1>6, <1>14 DEF Expires
  <1>15. CASE Interrupted(c)
    BY <1>5, <1>15 DEF Interrupted
  <1>16. CASE Archived(c)
    <2>1. MoveTo(c, "unsubscribe", dropLeft[c]) /\ "unsubscribe" \in Hops
      BY <1>16, HopNames DEF Archived
    <2> QED
      BY <1>16, <2>1, <1>3 DEF Archived
  <1>17. ASSUME NEW obeyed \in BOOLEAN, Unsubscribed(c, obeyed)
         PROVE  /\ UNCHANGED <<client, patience, left>>
                /\ \E where \in PCs : pc' = [pc EXCEPT ![c] = where]
    BY <1>4, <1>17 DEF Unsubscribed
  <1> QED
    BY <1>2, <1>7, <1>8, <1>9, <1>10, <1>11, <1>12, <1>13, <1>14, <1>15, <1>16,
       <1>17 DEF Handler, HopEnds

LEMMA NextAccounted == BudgetInv /\ [Next]_vars => CallersAccounted'
  <1> SUFFICES ASSUME BudgetInv, [Next]_vars
               PROVE  CallersAccounted'
    OBVIOUS
  <1> USE DEF procVars, sessionVars, clientVars, timeVars, resultVars, threadVars, BudgetInv
  <1>1. CASE Process
    <2>1. CASE Boot \/ BootFails \/ ChildDies \/ Restart
      BY <2>1 DEF Boot, BootFails, ChildDies, Restart, CallersAccounted
    <2>2. CASE WatchChild
      <3> SUFFICES ASSUME NEW c \in Clients
                   PROVE  /\ pc'[c] \notin Hops \union {"queued", "reply"}
                          /\ client'[c] = "gaveup" => patience'[c] <= 0
                          /\ left'[c] >= -Overrun
        BY HopNames DEF CallersAccounted
      <3>1. pc'[c] \in {"idle", "done", "killed"}
        BY <2>2 DEF WatchChild, TypeOK
      <3>2. client'[c] = "gaveup" => client[c] = "gaveup"
        BY <2>2 DEF WatchChild, TypeOK
      <3>3. patience'[c] \in {0, patience[c]}
        BY <2>2 DEF WatchChild, TypeOK
      <3>4. left'[c] = 0 /\ 0 >= -Overrun
        BY <2>2, ClockAssumption DEF WatchChild, NoTimes, Overrun
      <3> QED
        BY <3>1, <3>2, <3>3, <3>4, HopNames DEF CallersAccounted
    <2> QED
      BY <1>1, <2>1, <2>2 DEF Process
  <1>2. CASE Tick
    <2> SUFFICES ASSUME NEW c \in Clients
                 PROVE  /\ pc[c] \in Hops \union {"queued", "reply"} =>
                              client[c] \in {"waiting", "gaveup"}
                        /\ client[c] = "gaveup" => patience'[c] <= 0
                        /\ pc[c] # "reply"
                        /\ pc[c] = "idle" => left'[c] >= -Overrun
      BY <1>2 DEF Tick, CallersAccounted
    <2>1. patience'[c] <= patience[c] /\ patience[c] \in Int /\ patience'[c] \in Int
      BY <1>2 DEF Tick, Down, TypeOK
    <2>2. pc[c] = "idle" => left'[c] = left[c]
      BY <1>2, HopNames DEF Tick, Down, TypeOK
    <2> QED
      BY <1>2, <2>1, <2>2 DEF Tick, CallersAccounted
  <1>3. ASSUME NEW c \in Clients, Caller(c)
        PROVE  CallersAccounted'
    <2>1. CASE Connect(c)
      BY <2>1 DEF Connect, CallersAccounted, TypeOK
    <2>2. CASE GiveUp(c)
      BY <2>2 DEF GiveUp, CallersAccounted, TypeOK
    <2> QED
      BY <1>3, <2>1, <2>2 DEF Caller
  <1>4. ASSUME NEW c \in Clients, Handler(c)
        PROVE  CallersAccounted'
    <2>1. CASE pc[c] \in Hops
      <3>1. left[c] >= -Overrun
        BY <2>1, OverrunInHop
      <3> QED
        BY <1>4, <2>1, <3>1, HandlerMovesOne, CallStepAccounted
    <2>2. CASE Accept(c) \/ AcceptMalformed(c)
      <3>1. /\ client[c] \in {"waiting", "gaveup"} /\ UNCHANGED clientVars
            /\ \A d \in Clients \ {c} : pc'[d] = pc[d] /\ left'[d] = left[d]
        BY <2>2 DEF Accept, AcceptMalformed, Backlogged, TypeOK
      <3>2. pc'[c] = "queued" \/ (pc'[c] = "reply" /\ left'[c] = left[c] /\ pc[c] = "idle")
        BY <2>2 DEF Accept, AcceptMalformed, Backlogged, TypeOK
      <3> QED
        BY <2>2, <3>1, <3>2 DEF CallersAccounted
    <2>3. CASE QueueTimeout(c)
      <3>1. pc[c] = "queued" /\ left[c] >= 0 /\ left[c] \in Int
        BY <2>3 DEF QueueTimeout, HopsEndInBudget, TypeOK
      <3>2. left[c] >= -Overrun
        BY <3>1, ClockAssumption DEF Overrun
      <3> QED
        BY <2>3, <3>1, <3>2 DEF QueueTimeout, CallersAccounted, TypeOK
    <2>4. CASE AcquireLock(c)
      <3>1. PICK hop \in Hops : \E limit : MoveTo(c, hop, limit)
        BY <2>4, HopNames DEF AcquireLock
      <3>2. hop \notin {"idle", "reply"} /\ pc[c] = "queued" /\ UNCHANGED <<client, patience, left>>
        BY <2>4, HopNames DEF AcquireLock
      <3>3. /\ pc'[c] = hop
            /\ \A d \in Clients \ {c} : pc'[d] = pc[d]
        BY <3>1 DEF MoveTo, TypeOK
      <3> QED
        BY <3>2, <3>3 DEF CallersAccounted
    <2>5. CASE Deliver(c)
      <3>1. /\ pc'[c] = "done" /\ "done" \notin Hops \union {"idle", "queued", "reply"}
            /\ client'[c] # "gaveup" \/ client[c] = "gaveup"
            /\ patience'[c] = 0
        BY <2>5, HopNames DEF Deliver, TypeOK
      <3>2. \A d \in Clients \ {c} :
              /\ pc'[d] = pc[d] /\ client'[d] = client[d]
              /\ patience'[d] = patience[d] /\ left'[d] = left[d]
        BY <2>5 DEF Deliver, TypeOK
      <3> QED
        BY <3>1, <3>2 DEF CallersAccounted
    <2>6. CASE pc[c] \notin Hops /\ Handler(c)
      <3>1. \A hop \in Hops : ~At(c, hop)
        BY <2>6 DEF At
      <3>2. Accept(c) \/ AcceptMalformed(c) \/ QueueTimeout(c) \/ AcquireLock(c) \/ Deliver(c)
        BY <2>6, <3>1, HopNames
        DEF Handler, HopEnds, AuthOk, AuthMethodMissing, ThreadOk, TurnOk, Answered,
            TakeEvent, RpcFails, WaitFindsDead, TeardownRefused, Expires,
            Interrupted, Archived, Unsubscribed
      <3> QED
        BY <3>2, <2>2, <2>3, <2>4, <2>5
    <2> QED
      BY <1>4, <2>1, <2>6
  <1>5. ASSUME NEW c \in Clients, Server(c)
        PROVE  CallersAccounted'
    BY <1>5 DEF Server, TurnBegins, ReaderLost, TurnEnds, CallersAccounted
  <1>6. CASE UNCHANGED vars
    BY <1>6 DEF vars, CallersAccounted
  <1> QED
    BY <1>1, <1>2, <1>3, <1>4, <1>5, <1>6 DEF Next

LEMMA BudgetInvariant == Spec => []BudgetInv
  <1>1. Init => BudgetInv
    BY InitTyped, InitSerial, InitInBudget DEF BudgetInv
  <1>2. BudgetInv /\ [Next]_vars => BudgetInv'
    BY NextTyped, NextSerial, NextInBudget, NextAccounted DEF BudgetInv
  <1> QED
    BY <1>1, <1>2, PTL DEF Spec

\* Every wait of a call is armed so that it ends within one floor per hop of
\* the request's own deadline, whatever the hops before it took.
THEOREM HopsEndInBudgetHolds == Spec => []HopsEndInBudget
  BY BudgetInvariant, PTL DEF BudgetInv

\* The whole call, queue wait and teardown included, ends within Overrun of
\* the request's deadline.
THEOREM WithinBudgetHolds == Spec => []WithinBudget
  <1>1. BudgetInv => WithinBudget
    BY OverrunInHop DEF BudgetInv, WithinBudget, HopsEndInBudget
  <1> QED
    BY <1>1, BudgetInvariant, PTL

\* If the daemon accepted the connection early enough into the caller's grace,
\* the caller is still waiting when the turn it paid for is answered.
THEOREM PromptCallersAreHeardHolds == Spec => []PromptCallersAreHeard
  <1>1. BudgetInv => PromptCallersAreHeard
    <2> SUFFICES ASSUME BudgetInv, NEW c \in Clients, pc[c] = "reply",
                        left[c] + Overrun < patience[c]
                 PROVE  client[c] = "waiting"
      BY DEF PromptCallersAreHeard
    <2>1. left[c] \in Int /\ patience[c] \in Int /\ Overrun \in Int
      BY ClockAssumption DEF BudgetInv, TypeOK, Overrun
    <2>2. patience[c] > 0
      BY <2>1 DEF BudgetInv, CallersAccounted
    <2> QED
      BY <2>1, <2>2 DEF BudgetInv, CallersAccounted
  <1> QED
    BY <1>1, BudgetInvariant, PTL

-----------------------------------------------------------------------------
(* Teardown.                                                               *)

\* How far a call that may have a thread is on its way out.
ThreadIsTracked ==
    \A c \in threadId :
        /\ pc[c] \in {"turn", "wait", "interrupt", "archive", "unsubscribe", "reply"}
        /\ pc[c] = "reply" => "archive" \in tried[c]

TeardownIsRecorded ==
    \A c \in Clients :
        /\ pc[c] = "archive" => "archive" \in tried[c]
        /\ pc[c] = "unsubscribe" => tried[c] = Teardown

TextIsTornDown ==
    \A c \in Clients : verdict[c] = "text" =>
        /\ pc[c] \in {"archive", "unsubscribe", "reply"}
        /\ answer[c] # {}
        /\ pc[c] = "reply" => tried[c] = Teardown

DropInv == ThreadIsTracked /\ TeardownIsRecorded /\ TextIsTornDown

\* A refusal or a failure is never taken for a text.
LEMMA FailuresAreNoText == "text" \notin Failures /\ "text" \notin Refusals
  BY ShapeAssumption DEF Failures

\* The first teardown request: whatever the call came with, it is on record.
LEMMA BeginDropRecorded ==
    ASSUME TypeOK, DropInv, NEW c \in Clients, BeginDrop(c), pc[c] \in {"turn", "wait", "interrupt"},
           UNCHANGED threadId, NEW v \in Verdicts,
           verdict' = [verdict EXCEPT ![c] = v],
           \A d \in Clients : d # c => answer'[d] = answer[d],
           v = "text" => answer'[c] # {}
    PROVE  DropInv'
  <1>1. /\ pc' = [pc EXCEPT ![c] = "archive"]
        /\ tried' = [tried EXCEPT ![c] = @ \union {"archive"}]
    BY DEF BeginDrop, MoveTo
  <1>2. pc \in [Clients -> PCs] /\ tried \in [Clients -> SUBSET Teardown]
        /\ verdict \in [Clients -> Verdicts] /\ threadId \subseteq Clients
    BY DEF TypeOK
  <1>3. ThreadIsTracked'
    BY <1>1, <1>2 DEF DropInv, ThreadIsTracked
  <1>4. TeardownIsRecorded'
    BY <1>1, <1>2 DEF DropInv, TeardownIsRecorded
  <1>5. TextIsTornDown'
    BY <1>1, <1>2 DEF DropInv, TextIsTornDown
  <1> QED
    BY <1>3, <1>4, <1>5 DEF DropInv

\* An exception inside the turn leads to the drop, at once or by way of the interrupt.
LEMMA AbandonRecorded ==
    ASSUME TypeOK, DropInv, NEW c \in Clients, NEW v \in Failures, Abandon(c, v),
           pc[c] \in {"turn", "wait"}, UNCHANGED <<threadId, answer>>
    PROVE  DropInv'
  <1>1. v # "text" /\ v \in Verdicts
    BY FailuresAreNoText, VerdictsAreTyped
  <1>2. CASE c \in turnKnown
    <2>1. /\ pc' = [pc EXCEPT ![c] = "interrupt"]
          /\ verdict' = [verdict EXCEPT ![c] = v]
          /\ UNCHANGED tried
      BY <1>2 DEF Abandon, MoveTo
    <2> QED
      BY <1>1, <2>1 DEF DropInv, ThreadIsTracked, TeardownIsRecorded, TextIsTornDown, TypeOK
  <1>3. CASE c \notin turnKnown
    BY <1>1, <1>3, BeginDropRecorded DEF Abandon
  <1> QED
    BY <1>2, <1>3

\* Leaving invoke: by an early hop without a thread, or after teardown.
LEMMA FinishRecorded ==
    ASSUME TypeOK, DropInv, NEW c \in Clients, NEW v \in Verdicts, Finish(c, v),
           pc[c] \in {"auth", "thread", "archive", "unsubscribe"},
           UNCHANGED <<threadId, tried>>,
           \A d \in Clients : d # c => answer'[d] = answer[d],
           v = "text" => verdict[c] = "text" /\ pc[c] = "unsubscribe" /\ answer'[c] = answer[c]
    PROVE  DropInv'
  <1>1. pc' = [pc EXCEPT ![c] = "reply"] /\ verdict' = [verdict EXCEPT ![c] = v]
    BY DEF Finish
  <1>2. c \in threadId => "archive" \in tried[c]
    BY DEF DropInv, ThreadIsTracked, TeardownIsRecorded, Teardown
  <1>3. pc \in [Clients -> PCs] /\ verdict \in [Clients -> Verdicts] /\ threadId \subseteq Clients
    BY DEF TypeOK
  <1>4. ThreadIsTracked'
    BY <1>1, <1>2, <1>3 DEF DropInv, ThreadIsTracked
  <1>5. TeardownIsRecorded'
    BY <1>1, <1>3 DEF DropInv, TeardownIsRecorded
  <1>6. TextIsTornDown'
    BY <1>1, <1>3 DEF DropInv, TextIsTornDown, TeardownIsRecorded
  <1> QED
    BY <1>4, <1>5, <1>6 DEF DropInv

\* A handler that moves on without a verdict, outside teardown.
LEMMA MoveToRecorded ==
    ASSUME TypeOK, DropInv, NEW c \in Clients,
           NEW hop \in {"queued", "auth", "thread", "turn", "wait"},
           pc' = [pc EXCEPT ![c] = hop],
           pc[c] \notin {"archive", "unsubscribe", "reply"},
           c \in threadId => hop \in {"turn", "wait"},
           UNCHANGED <<verdict, answer, tried, threadId>>
    PROVE  DropInv'
  BY DEF DropInv, ThreadIsTracked, TeardownIsRecorded, TextIsTornDown, TypeOK

LEMMA InitRecorded == Init => DropInv
  BY DEF Init, DropInv, ThreadIsTracked, TeardownIsRecorded, TextIsTornDown

LEMMA NextRecorded == TypeOK /\ DropInv /\ [Next]_vars => DropInv'
  <1> SUFFICES ASSUME TypeOK, DropInv, [Next]_vars
               PROVE  DropInv'
    OBVIOUS
  <1> USE DEF procVars, sessionVars, clientVars, timeVars, resultVars, threadVars
  <1>0. ASSUME UNCHANGED <<pc, verdict, answer, tried, threadId>>
        PROVE  DropInv'
    BY <1>0 DEF DropInv, ThreadIsTracked, TeardownIsRecorded, TextIsTornDown
  <1>1. CASE Process
    <2>1. CASE Boot \/ BootFails \/ ChildDies \/ Restart
      BY <1>0, <2>1 DEF Boot, BootFails, ChildDies, Restart
    <2>2. CASE WatchChild
      BY <2>2 DEF WatchChild, DropInv, ThreadIsTracked, TeardownIsRecorded, TextIsTornDown, TypeOK
    <2> QED
      BY <1>1, <2>1, <2>2 DEF Process
  <1>2. CASE Tick
    BY <1>0, <1>2 DEF Tick
  <1>3. ASSUME NEW c \in Clients, Caller(c)
        PROVE  DropInv'
    BY <1>0, <1>3 DEF Caller, Connect, GiveUp
  <1>4. ASSUME NEW c \in Clients, Handler(c)
        PROVE  DropInv'
    <2>1. c \in threadId =>
             pc[c] \in {"turn", "wait", "interrupt", "archive", "unsubscribe", "reply"}
      BY DEF DropInv, ThreadIsTracked
    <2>2. CASE Accept(c)
      BY <2>1, <2>2, MoveToRecorded DEF Accept, Backlogged
    <2>3. CASE AcceptMalformed(c) \/ QueueTimeout(c)
      <3>1. c \notin threadId /\ pc[c] \in {"idle", "queued"}
        BY <2>1, <2>3 DEF AcceptMalformed, QueueTimeout, Backlogged
      <3> QED
        <4>1. ASSUME NEW v \in {"protocol", "timeout"}, threadId' = threadId, tried' = tried,
                     answer' = answer, pc' = [pc EXCEPT ![c] = "reply"],
                     verdict' = [verdict EXCEPT ![c] = v]
              PROVE  DropInv'
          BY <3>1, <4>1 DEF DropInv, ThreadIsTracked, TeardownIsRecorded, TextIsTornDown, TypeOK
        <4> QED
          BY <2>3, <4>1 DEF AcceptMalformed, QueueTimeout, resultVars, threadVars
    <2>4. CASE AcquireLock(c)
      BY <2>1, <2>4, MoveToRecorded DEF AcquireLock, MoveTo
    <2>5. CASE AuthOk(c) \/ AuthMethodMissing(c)
      BY <2>1, <2>5, MoveToRecorded DEF AuthOk, AuthMethodMissing, OpenThread, Answered, At, MoveTo
    <2>6. CASE ThreadOk(c)
      BY <2>6 DEF ThreadOk, Answered, At, MoveTo, DropInv, ThreadIsTracked,
                  TeardownIsRecorded, TextIsTornDown, TypeOK
    <2>7. ASSUME NEW named \in ReplyNamesTurn, TurnOk(c, named)
          PROVE  DropInv'
      BY <2>1, <2>7, MoveToRecorded DEF TurnOk, Answered, At, MoveTo
    <2>8. CASE TakeEvent(c)
      <3> DEFINE e == Head(events)
      <3>1. pc[c] = "wait" /\ "protocol" \in Failures /\ "text" \in Verdicts
        BY <2>8, VerdictsAreTyped DEF TakeEvent, At, Failures
      <3>3. CASE Abandon(c, "protocol") /\ UNCHANGED answer
        BY <2>8, <3>1, <3>3, AbandonRecorded DEF TakeEvent
      <3>4. CASE UNCHANGED <<pc, hopLeft, dropLeft, tried, resultVars>>
        BY <1>0, <2>8, <3>4 DEF TakeEvent
      <3>5. CASE /\ verdict' = [verdict EXCEPT ![c] = "text"]
                 /\ answer' = [answer EXCEPT ![c] = {e}]
                 /\ BeginDrop(c)
        <4>1. answer'[c] # {} /\ \A d \in Clients : d # c => answer'[d] = answer[d]
          BY <3>5 DEF TypeOK
        <4> QED
          BY <2>8, <3>1, <3>5, <4>1, BeginDropRecorded DEF TakeEvent
      <3> QED
        BY <2>8, <3>3, <3>4, <3>5 DEF TakeEvent
    <2>9. ASSUME NEW v \in Failures, RpcFails(c, v)
          PROVE  DropInv'
      <3>1. v \in Verdicts /\ v # "text"
        BY FailuresAreNoText, VerdictsAreTyped
      <3>2. CASE (At(c, "auth") \/ At(c, "thread")) /\ Finish(c, v) /\ UNCHANGED tried
        BY <2>9, <3>1, <3>2, FinishRecorded DEF RpcFails, At
      <3>3. CASE At(c, "turn") /\ Abandon(c, v)
        BY <2>9, <3>3, AbandonRecorded DEF RpcFails, At
      <3> QED
        BY <2>9, <3>2, <3>3 DEF RpcFails
    <2>10. CASE WaitFindsDead(c)
      BY <2>10, AbandonRecorded DEF WaitFindsDead, At, Failures
    <2>11. ASSUME NEW r \in Refusals, TeardownRefused(c, r)
           PROVE  DropInv'
      <3>1. r \in Verdicts /\ r # "text" /\ \A d \in Clients : d # c => answer'[d] = answer[d]
        BY <2>11, FailuresAreNoText, VerdictsAreTyped DEF TeardownRefused, TypeOK
      <3>2. CASE (At(c, "archive") \/ At(c, "unsubscribe")) /\ Finish(c, r) /\ UNCHANGED tried
        BY <2>11, <3>1, <3>2, FinishRecorded DEF TeardownRefused, At
      <3>3. CASE At(c, "interrupt") /\ verdict' = [verdict EXCEPT ![c] = r] /\ BeginDrop(c)
        BY <2>11, <3>1, <3>3, BeginDropRecorded DEF TeardownRefused, At
      <3> QED
        BY <2>11, <3>2, <3>3 DEF TeardownRefused
    <2>12. CASE Expires(c)
      <3>1. "timeout" \in Failures /\ "timeout" \in Verdicts
        BY VerdictsAreTyped DEF Failures
      <3>2. CASE (At(c, "auth") \/ At(c, "thread")) /\ Finish(c, "timeout") /\ UNCHANGED tried
        BY <2>12, <3>1, <3>2, FinishRecorded DEF Expires, At
      <3>3. CASE (At(c, "turn") \/ At(c, "wait")) /\ Abandon(c, "timeout")
        BY <2>12, <3>1, <3>3, AbandonRecorded DEF Expires, At
      <3> QED
        BY <2>12, <3>2, <3>3 DEF Expires
    <2>13. CASE Interrupted(c)
      <3>1. verdict' = [verdict EXCEPT ![c] = verdict[c]] /\ verdict[c] \in Verdicts
        BY <2>13 DEF Interrupted, TypeOK
      <3>2. verdict[c] # "text"
        BY <2>13 DEF Interrupted, At, DropInv, TextIsTornDown
      <3> QED
        BY <2>13, <3>1, <3>2, BeginDropRecorded DEF Interrupted, At
    <2>14. CASE Archived(c)
      BY <2>14 DEF Archived, At, MoveTo, DropInv, ThreadIsTracked, TeardownIsRecorded,
                   TextIsTornDown, TypeOK, Teardown
    <2>15. ASSUME NEW obeyed \in BOOLEAN, Unsubscribed(c, obeyed)
           PROVE  DropInv'
      <3>1. verdict[c] \in Verdicts
        BY DEF TypeOK
      <3> QED
        BY <2>15, <3>1, FinishRecorded DEF Unsubscribed, At
    <2>16. CASE Deliver(c)
      BY <2>16 DEF Deliver, DropInv, ThreadIsTracked, TeardownIsRecorded, TextIsTornDown, TypeOK
    <2> QED
      BY <1>4, <2>2, <2>3, <2>4, <2>5, <2>6, <2>7, <2>8, <2>9, <2>10,
         <2>11, <2>12, <2>13, <2>14, <2>15, <2>16 DEF Handler, HopEnds
  <1>5. ASSUME NEW c \in Clients, Server(c)
        PROVE  DropInv'
    BY <1>0, <1>5 DEF Server, TurnBegins, ReaderLost, TurnEnds
  <1>6. CASE UNCHANGED vars
    BY <1>0, <1>6 DEF vars
  <1> QED
    BY <1>1, <1>2, <1>3, <1>4, <1>5, <1>6 DEF Next

LEMMA DropInvariant == Spec => [](TypeOK /\ DropInv)
  <1>1. Init => TypeOK /\ DropInv
    BY InitTyped, InitRecorded
  <1>2. TypeOK /\ DropInv /\ [Next]_vars => (TypeOK /\ DropInv)'
    BY NextTyped, NextRecorded
  <1> QED
    BY <1>1, <1>2, PTL DEF Spec

\* Whichever way a call that learned its thread id ends - a refusal in the
\* teardown included - thread/archive was tried (the finally of invoke).
THEOREM ThreadsAreDroppedHolds == Spec => []ThreadsAreDropped
  <1>1. TypeOK /\ DropInv => ThreadsAreDropped
    BY DEF TypeOK, DropInv, ThreadIsTracked, TeardownIsRecorded, ThreadsAreDropped, Teardown
  <1> QED
    BY <1>1, DropInvariant, PTL

\* No text is delivered from a conversation that _drop cut short.
THEOREM DeliveredIsDroppedHolds == Spec => []DeliveredIsDropped
  <1>1. DropInv => DeliveredIsDropped
    BY DEF DropInv, TextIsTornDown, DeliveredIsDropped
  <1> QED
    BY <1>1, DropInvariant, PTL

-----------------------------------------------------------------------------
(* Whose text it is.                                                       *)

\* A completion is taken on the way into teardown, and never before the turn is known.
AnswersAreLate ==
    \A c \in Clients : answer[c] # {} => pc[c] \in {"archive", "unsubscribe", "reply"}

AnswerInv == AnswersAreLate /\ KnownIdentityDecides

LEMMA InitAnswers == Init => AnswerInv
  BY DEF Init, AnswerInv, AnswersAreLate, KnownIdentityDecides

\* What _notification_belongs lets through names the thread of the call, or its
\* turn if the call knows it, or is a completion with a turn id for a call without.
LEMMA BelongsDecides ==
    ASSUME TypeOK, NEW c \in Clients, events # <<>>, Belongs(Head(events), c),
           Head(events).from # c
    PROVE  c \notin turnKnown /\ Head(events).form = "turn"
  <1>1. Head(events) \in Events
    BY DEF TypeOK
  <1>2. Head(events).form \in {"both", "turn", "thread", "none"}
    BY <1>1, ShapeAssumption DEF Events
  <1> QED
    BY <1>2 DEF Belongs

LEMMA NextAnswers ==
    ASSUME TypeOK, AnswerInv, [Next]_vars
    PROVE  AnswerInv'
  <1> USE DEF procVars, sessionVars, clientVars, timeVars, resultVars, threadVars,
              AnswerInv, AnswersAreLate, KnownIdentityDecides
  <1>0. ASSUME UNCHANGED <<answer, turnKnown, pc>>
        PROVE  AnswerInv'
    BY <1>0
  <1>1. ASSUME NEW c \in Clients, NEW hop \in PCs, UNCHANGED <<answer, turnKnown>>,
               pc' = [pc EXCEPT ![c] = hop],
               pc[c] \notin {"archive", "unsubscribe", "reply"}
                 \/ hop \in {"archive", "unsubscribe", "reply"}
        PROVE  AnswerInv'
    BY <1>1 DEF TypeOK
  <1>2. CASE Boot \/ BootFails \/ ChildDies \/ Restart \/ Tick
    BY <1>0, <1>2 DEF Boot, BootFails, ChildDies, Restart, Tick
  <1>3. CASE WatchChild
    BY <1>3 DEF WatchChild
  <1>4. ASSUME NEW c \in Clients, Caller(c) \/ Server(c)
        PROVE  AnswerInv'
    BY <1>0, <1>4 DEF Caller, Connect, GiveUp, Server, TurnBegins, ReaderLost, TurnEnds
  <1>5. ASSUME NEW c \in Clients, Handler(c)
        PROVE  AnswerInv'
    <2>1. CASE Accept(c) \/ AcceptMalformed(c) \/ QueueTimeout(c)
      <3>1. \E hop \in {"queued", "reply"} : pc' = [pc EXCEPT ![c] = hop]
        BY <2>1 DEF Accept, AcceptMalformed, QueueTimeout
      <3>2. pc[c] \in {"idle", "queued"} /\ UNCHANGED <<answer, turnKnown>>
        BY <2>1 DEF Accept, AcceptMalformed, QueueTimeout, Backlogged
      <3> QED
        BY <1>1, <3>1, <3>2 DEF PCs
    <2>2. CASE AcquireLock(c) \/ AuthOk(c) \/ AuthMethodMissing(c) \/ ThreadOk(c)
      <3>1. \E hop \in {"auth", "thread", "turn"} : pc' = [pc EXCEPT ![c] = hop]
        BY <2>2 DEF AcquireLock, AuthOk, AuthMethodMissing, OpenThread, ThreadOk, MoveTo
      <3>2. pc[c] \in {"queued", "auth", "thread"} /\ UNCHANGED <<answer, turnKnown>>
        BY <2>2 DEF AcquireLock, AuthOk, AuthMethodMissing, ThreadOk, Answered, At
      <3> QED
        BY <1>1, <3>1, <3>2 DEF PCs, Hops, RpcHops
    <2>3. ASSUME NEW named \in ReplyNamesTurn, TurnOk(c, named)
          PROVE  AnswerInv'
      <3>1. answer[c] = {} /\ UNCHANGED answer /\ pc' = [pc EXCEPT ![c] = "wait"]
        BY <2>3 DEF TurnOk, Answered, At, MoveTo
      <3>2. turnKnown' \subseteq turnKnown \union {c}
        BY <2>3 DEF TurnOk
      <3> QED
        BY <3>1, <3>2 DEF TypeOK
    <2>4. CASE TakeEvent(c)
      <3> DEFINE e == Head(events)
      <3>1. pc[c] = "wait" /\ UNCHANGED turnKnown /\ events # <<>>
        BY <2>4 DEF TakeEvent, At
      <3>2. CASE Abandon(c, "protocol") /\ UNCHANGED answer
        <4>1. \E hop \in {"interrupt", "archive"} : pc' = [pc EXCEPT ![c] = hop]
          BY <3>2 DEF Abandon, BeginDrop, MoveTo
        <4> QED
          BY <1>1, <3>1, <3>2, <4>1 DEF PCs, Hops, RpcHops
      <3>3. CASE UNCHANGED <<pc, hopLeft, dropLeft, tried, resultVars>>
        BY <1>0, <3>1, <3>3
      <3>4. CASE Belongs(e, c) /\ answer' = [answer EXCEPT ![c] = {e}] /\ BeginDrop(c)
        <4>1. pc' = [pc EXCEPT ![c] = "archive"]
          BY <3>4 DEF BeginDrop, MoveTo
        <4>2. e.from # c => c \notin turnKnown /\ e.form = "turn"
          BY <3>1, <3>4, BelongsDecides
        <4>3. AnswersAreLate'
          BY <3>4, <4>1 DEF TypeOK
        <4>4. KnownIdentityDecides'
          BY <3>1, <3>4, <4>2 DEF TypeOK
        <4> QED
          BY <4>3, <4>4
      <3> QED
        BY <2>4, <3>2, <3>3, <3>4 DEF TakeEvent
    <2>5. CASE WaitFindsDead(c) \/ Expires(c) \/ Interrupted(c) \/ Archived(c)
               \/ (\E v \in Failures : RpcFails(c, v))
               \/ (\E obeyed \in BOOLEAN : Unsubscribed(c, obeyed))
      <3>1. UNCHANGED <<answer, turnKnown>>
        BY <2>5 DEF WaitFindsDead, Expires, Interrupted, Archived, RpcFails, Unsubscribed
      <3>2. CASE Archived(c) \/ \E obeyed \in BOOLEAN : Unsubscribed(c, obeyed)
        <4>1. \E hop \in {"unsubscribe", "reply"} : pc' = [pc EXCEPT ![c] = hop]
          BY <3>2 DEF Archived, Unsubscribed, Finish, MoveTo
        <4> QED
          BY <1>1, <3>1, <4>1 DEF PCs, Hops, RpcHops
      <3>3. CASE WaitFindsDead(c) \/ Expires(c) \/ Interrupted(c)
                 \/ \E v \in Failures : RpcFails(c, v)
        <4>1. pc[c] \in {"auth", "thread", "turn", "wait", "interrupt"}
          BY <3>3 DEF WaitFindsDead, Expires, Interrupted, RpcFails, At
        <4>2. \E hop \in {"interrupt", "archive", "reply"} : pc' = [pc EXCEPT ![c] = hop]
          BY <3>3 DEF WaitFindsDead, Expires, Interrupted, RpcFails, Abandon, BeginDrop,
             Finish, MoveTo
        <4> QED
          BY <1>1, <3>1, <4>1, <4>2 DEF PCs, Hops, RpcHops
      <3> QED
        BY <2>5, <3>2, <3>3
    <2>6. CASE \E r \in Refusals : TeardownRefused(c, r)
      <3>1. \E hop \in {"archive", "reply"} : pc' = [pc EXCEPT ![c] = hop]
        BY <2>6 DEF TeardownRefused, BeginDrop, Finish, MoveTo
      <3>2. answer' = [answer EXCEPT ![c] = {}] /\ UNCHANGED turnKnown
        BY <2>6 DEF TeardownRefused
      <3> QED
        BY <3>1, <3>2 DEF TypeOK
    <2>7. CASE Deliver(c)
      BY <2>7 DEF Deliver, TypeOK
    <2> QED
      BY <1>5, <2>1, <2>2, <2>3, <2>4, <2>5, <2>6, <2>7 DEF Handler, HopEnds
  <1>6. CASE UNCHANGED vars
    BY <1>0, <1>6 DEF vars
  <1> QED
    BY <1>2, <1>3, <1>4, <1>5, <1>6 DEF Next, Process

LEMMA AnswerInvariant == Spec => [](TypeOK /\ AnswerInv)
  <1>1. Init => TypeOK /\ AnswerInv
    BY InitTyped, InitAnswers
  <1>2. TypeOK /\ AnswerInv /\ [Next]_vars => (TypeOK /\ AnswerInv)'
    BY NextTyped, NextAnswers
  <1> QED
    BY <1>1, <1>2, PTL DEF Spec

\* Whatever completions its predecessors left in the process-global queue, a
\* call takes another turn's for its own in one case alone: turn/start's reply
\* named no turn and the completion carries a turn id and no thread id
\* (_drain_events and _notification_belongs).
THEOREM KnownIdentityDecidesHolds == Spec => []KnownIdentityDecides
  <1>1. TypeOK /\ AnswerInv => KnownIdentityDecides
    BY DEF AnswerInv
  <1> QED
    BY <1>1, AnswerInvariant, PTL

\* Every completion can be told apart: none carries a turn id alone, or else
\* every reply to turn/start names its turn.
Identifiable == "turn" \notin EventForms \/ FALSE \notin ReplyNamesTurn

\* A call that waits for the end of a turn, or took one, knows the turn if
\* every reply names one.
TurnsAreKnown ==
    \A c \in Clients :
        (pc[c] = "wait" \/ answer[c] # {}) /\ FALSE \notin ReplyNamesTurn => c \in turnKnown

\* A call comes to wait by TurnOk alone, and keeps the id of its turn until it is answered.
LEMMA NextTurnsAreKnown ==
    ASSUME TypeOK, TurnsAreKnown, [Next]_vars
    PROVE  TurnsAreKnown'
  <1> USE DEF procVars, sessionVars, clientVars, timeVars, resultVars, threadVars, TurnsAreKnown
  <1>0. ASSUME UNCHANGED turnKnown,
               \A d \in Clients : pc'[d] = "wait" => pc[d] = "wait",
               \A d \in Clients : answer'[d] # {} => answer[d] # {} \/ pc[d] = "wait"
        PROVE  TurnsAreKnown'
    BY <1>0
  <1>1. ASSUME NEW c \in Clients, NEW named \in ReplyNamesTurn, TurnOk(c, named)
        PROVE  TurnsAreKnown'
    <2>1. FALSE \notin ReplyNamesTurn => named
      BY ShapeAssumption, Zenon
    <2>2. turnKnown' = IF named THEN turnKnown \union {c} ELSE turnKnown
      BY <1>1 DEF TurnOk
    <2>3. pc' = [pc EXCEPT ![c] = "wait"]
      BY <1>1 DEF TurnOk, MoveTo
    <2>4. UNCHANGED answer
      BY <1>1 DEF TurnOk
    <2> QED
      BY <2>1, <2>2, <2>3, <2>4 DEF TypeOK
  <1>2. ASSUME NEW c \in Clients, Deliver(c)
        PROVE  TurnsAreKnown'
    BY <1>2 DEF Deliver, TypeOK
  <1>3. CASE WatchChild
    BY <1>3 DEF WatchChild, TypeOK
  <1>4. CASE Boot \/ BootFails \/ ChildDies \/ Restart \/ Tick
    BY <1>4 DEF Boot, BootFails, ChildDies, Restart, Tick
  <1>5. ASSUME NEW c \in Clients, Caller(c) \/ Server(c)
        PROVE  TurnsAreKnown'
    BY <1>5 DEF Caller, Connect, GiveUp, Server, TurnBegins, ReaderLost, TurnEnds
  <1>6. ASSUME NEW c \in Clients, Handler(c), ~Deliver(c),
               ~\E named \in ReplyNamesTurn : TurnOk(c, named)
        PROVE  TurnsAreKnown'
    <2>1. UNCHANGED turnKnown
      BY <1>6 DEF Handler, HopEnds, Accept, AcceptMalformed, QueueTimeout, AcquireLock,
         AuthOk, AuthMethodMissing, ThreadOk, TakeEvent, RpcFails, WaitFindsDead,
         TeardownRefused, Expires, Interrupted, Archived, Unsubscribed
    <2>2. UNCHANGED pc \/ \E place \in PCs \ {"wait"} : pc' = [pc EXCEPT ![c] = place]
      <3>1. \A v : Abandon(c, v) => \E place \in PCs \ {"wait"} : pc' = [pc EXCEPT ![c] = place]
        BY DEF Abandon, BeginDrop, MoveTo, PCs, Hops, RpcHops
      <3>2. \A v : Finish(c, v) => \E place \in PCs \ {"wait"} : pc' = [pc EXCEPT ![c] = place]
        BY DEF Finish, PCs
      <3>3. CASE TakeEvent(c) \/ WaitFindsDead(c) \/ Expires(c)
                 \/ \E v \in Failures : RpcFails(c, v)
        BY <3>1, <3>2, <3>3
        DEF TakeEvent, WaitFindsDead, Expires, RpcFails, BeginDrop, MoveTo, PCs, Hops, RpcHops
      <3>4. CASE Interrupted(c) \/ Archived(c) \/ \E obeyed \in BOOLEAN : Unsubscribed(c, obeyed)
        BY <3>2, <3>4 DEF Interrupted, Archived, Unsubscribed, BeginDrop, MoveTo, PCs, Hops, RpcHops
      <3>5. CASE \E r \in Refusals : TeardownRefused(c, r)
        BY <3>2, <3>5 DEF TeardownRefused, BeginDrop, MoveTo, PCs, Hops, RpcHops
      <3>6. CASE Accept(c) \/ AcceptMalformed(c) \/ QueueTimeout(c) \/ AcquireLock(c)
                 \/ AuthOk(c) \/ AuthMethodMissing(c) \/ ThreadOk(c)
        BY <3>6 DEF Accept, AcceptMalformed, QueueTimeout, AcquireLock, AuthOk,
           AuthMethodMissing, OpenThread, ThreadOk, MoveTo, PCs, Hops, RpcHops
      <3> QED
        BY <1>6, <3>3, <3>4, <3>5, <3>6 DEF Handler, HopEnds
    <2>3. \A d \in Clients : answer'[d] # {} => answer[d] # {} \/ pc[d] = "wait"
      <3>1. CASE TakeEvent(c)
        BY <3>1 DEF TakeEvent, At, TypeOK
      <3>2. CASE \E r \in Refusals : TeardownRefused(c, r)
        BY <3>2 DEF TeardownRefused, TypeOK
      <3>3. CASE ~TakeEvent(c) /\ ~\E r \in Refusals : TeardownRefused(c, r)
        <4>1. UNCHANGED answer
          BY <1>6, <3>3 DEF Handler, HopEnds, Accept, AcceptMalformed, QueueTimeout,
             AcquireLock, AuthOk, AuthMethodMissing, ThreadOk, RpcFails, WaitFindsDead,
             Expires, Interrupted, Archived, Unsubscribed
        <4> QED
          BY <4>1
      <3> QED
        BY <3>1, <3>2, <3>3
    <2> QED
      BY <1>0, <2>1, <2>2, <2>3 DEF TypeOK
  <1>7. CASE UNCHANGED vars
    BY <1>7 DEF vars
  <1> QED
    BY <1>1, <1>2, <1>3, <1>4, <1>5, <1>6, <1>7 DEF Next, Process

\* The docstring's promise, where the app-server lets the code keep it: with
\* completions that can be told apart, the text a call returns is that of its
\* own turn.  Run sparkd_answer shows that the hypothesis is needed.
THEOREM AnswerIsOwnHolds ==
    ASSUME Identifiable
    PROVE  Spec => []AnswerIsOwn
  <1> DEFINE Inv == (TypeOK /\ AnswerInv) /\ TurnsAreKnown
  <1>1. Init => TurnsAreKnown
    BY DEF Init, TurnsAreKnown
  <1>2. Inv /\ [Next]_vars => TurnsAreKnown'
    BY NextTurnsAreKnown
  <1>3. Inv => AnswerIsOwn
    <2> SUFFICES ASSUME Inv, NEW c \in Clients, NEW e \in answer[c]
                 PROVE  e.from = c
      BY DEF AnswerIsOwn
    <2>1. e.form \in EventForms
      BY DEF TypeOK, Events
    <2>2. CASE "turn" \notin EventForms
      BY <2>1, <2>2 DEF AnswerInv, KnownIdentityDecides
    <2>3. CASE FALSE \notin ReplyNamesTurn
      BY <2>3 DEF TurnsAreKnown, AnswerInv, KnownIdentityDecides
    <2> QED
      BY <2>2, <2>3, Identifiable DEF Identifiable
  <1> QED
    BY <1>1, <1>2, <1>3, AnswerInvariant, PTL DEF Spec

=============================================================================
