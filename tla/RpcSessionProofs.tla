-------------------------- MODULE RpcSessionProofs --------------------------
(* Theorems about RpcSession, for every number of calls and of server       *)
(* requests and every capacity of the two pipes.                            *)
EXTENDS RpcSession, TLAPS

-----------------------------------------------------------------------------
(* The inductive invariant.  OwnLetters and NotYetSent follow the messages, *)
(* CallsInOrder, Registered and SweptTogether the ids in _pending.          *)

On(pipe) == {pipe[n] : n \in 1..Len(pipe)}
InFlight == On(stdin) \union On(stdout) \union asked \union {line}

\* A call is over once a later one began, or once its thread left request().
CallsInOrder ==
    /\ \A k \in Calls : outcome[k] # "none" <=> (k < call \/ (k = call /\ caller = "idle"))
    /\ caller # "idle" => call \in Calls

\* A message names the call it is about, and a waiter holds its own reply.
OwnLetters ==
    /\ \A m \in InFlight : m.id = m.about
    /\ \A i \in 0..MaxCalls : box[i] \in {NoLine, Death} \/ box[i].about = i

\* No message is about a call that has sent nothing yet.
NotYetSent ==
    \A m \in InFlight :
        /\ m.id <= call
        /\ caller \in {"checked", "registered", "writing"} => m.id # call

\* An id is registered by its own call, once, and leaves _pending with its reply.
Registered ==
    /\ \A i \in pending \union roster : i \in 1..call /\ (caller = "checked" => i # call)
    /\ reader = "popped" => line.id \notin pending
    /\ ~dead /\ caller \in {"registered", "writing", "waiting", "expired"}
           /\ box[Ident(call)] # NoLine => Ident(call) \notin pending

\* From the sweep's snapshot on, _pending moves only if the open call is not in it.
SweptTogether ==
    /\ reader \in {"sweeping", "gone"} => dead
    /\ reader \notin {"sweeping", "gone"} => roster = {}
    /\ reader \in {"sweeping", "gone"} /\ Ident(call) \in roster
           /\ caller \in {"registered", "writing", "waiting", "expired"}
           => pending = roster
    /\ reader = "gone" /\ Ident(call) \in roster
           /\ caller \in {"registered", "writing", "waiting"}
           => box[Ident(call)] = Death

\* The reader stops only for the child's end or an id that its caller forgot.
ReaderHasACause ==
    /\ reader = "found" => /\ line.id \in Calls
                           /\ line.id \in pending \/ outcome[line.id] = "expired"
    /\ dead \/ reader = "dying"
           => child = "exited" \/ \E k \in Calls : outcome[k] = "expired"

-----------------------------------------------------------------------------
(* The pipes.                                                              *)

\* Writing a line puts that line into a pipe, and nothing else.
LEMMA WrittenToPipe ==
    ASSUME NEW pipe \in Seq(Messages), NEW m \in Messages
    PROVE  /\ Append(pipe, m) \in Seq(Messages)
           /\ Len(Append(pipe, m)) = Len(pipe) + 1
           /\ On(Append(pipe, m)) \subseteq On(pipe) \union {m}
  BY DEF On

\* Reading a line takes one from the pipe.
LEMMA ReadFromPipe ==
    ASSUME NEW pipe \in Seq(Messages), pipe # <<>>
    PROVE  /\ Head(pipe) \in Messages /\ Head(pipe) \in On(pipe)
           /\ Tail(pipe) \in Seq(Messages)
           /\ Len(Tail(pipe)) = Len(pipe) - 1
           /\ On(Tail(pipe)) \subseteq On(pipe)
  BY DEF On

\* What the two sides put into the pipes are messages.
LEMMA Letters ==
    /\ NoLine \in Messages /\ Ask \in Messages /\ Verdict \in Messages /\ Death \in Messages
    /\ \A k \in 0..MaxCalls : Request(k, k) \in Messages
    /\ \A m \in Messages : Reply(m) \in Messages
  BY BoundsAssumption DEF NoLine, Ask, Verdict, Death, Request, Reply, Messages

\* Lines carry the ids of calls.
LEMMA LetterFields ==
    ASSUME NEW m \in Messages
    PROVE  m.id \in 0..MaxCalls /\ m.about \in 0..MaxCalls
  BY DEF Messages

-----------------------------------------------------------------------------
(* Type correctness.                                                       *)

LEMMA InitTyped == Init => TypeOK
  <1> SUFFICES ASSUME Init PROVE TypeOK
    OBVIOUS
  <1>1. box \in [0..MaxCalls -> Messages] /\ line \in Messages
    BY Letters DEF Init
  <1>2. call \in 0..MaxCalls /\ asks \in 0..MaxAsks /\ heard \in [Calls -> 0..MaxCalls]
    BY BoundsAssumption DEF Init
  <1>3. /\ stdin \in Seq(Messages) /\ Len(stdin) <= StdinCap
        /\ stdout \in Seq(Messages) /\ Len(stdout) <= StdoutCap
    BY BoundsAssumption DEF Init
  <1> QED
    BY <1>1, <1>2, <1>3 DEF Init, TypeOK

LEMMA NextTyped == TypeOK /\ [Next]_vars => TypeOK'
  <1> SUFFICES ASSUME TypeOK, [Next]_vars PROVE TypeOK'
    OBVIOUS
  <1> USE BoundsAssumption DEF TypeOK, callerVars, readerVars, childVars
  <1>1. CASE Begin
    BY <1>1 DEF Begin
  <1>2. CASE BeginDead
    <2>1. call' \in 0..MaxCalls
      BY <1>2 DEF BeginDead
    <2>2. outcome' \in [Calls -> {"none", "answered", "failed", "expired"}]
      BY <1>2 DEF BeginDead
    <2> QED
      BY <1>2, <2>1, <2>2 DEF BeginDead
  <1>3. CASE Register
    BY <1>3, Letters DEF Register, Ident
  <1>4. CASE LockToSend
    BY <1>4 DEF LockToSend
  <1>5. CASE Send
    BY <1>5, Letters, WrittenToPipe DEF Send, Ident
  <1>6. CASE SendFails
    BY <1>6 DEF SendFails, Ends
  <1>7. ASSUME NEW result \in Results, Receive(result)
        PROVE  TypeOK'
    BY <1>7, LetterFields DEF Receive, Ends, Results, Ident
  <1>8. CASE Expire
    BY <1>8 DEF Expire
  <1>9. CASE Forget
    BY <1>9 DEF Forget, Ends
  <1>10. CASE TakeLine
    BY <1>10, ReadFromPipe DEF TakeLine
  <1>11. CASE PopWaiter
    BY <1>11 DEF PopWaiter
  <1>12. CASE PopRaises
    BY <1>12 DEF PopRaises
  <1>13. CASE PutReply
    BY <1>13 DEF PutReply
  <1>14. CASE LockToAnswer
    BY <1>14 DEF LockToAnswer
  <1>15. CASE AnswerAsk
    BY <1>15, Letters, WrittenToPipe DEF AnswerAsk
  <1>16. CASE AnswerAskFails
    BY <1>16 DEF AnswerAskFails
  <1>17. CASE EndOfFile
    BY <1>17 DEF EndOfFile
  <1>18. CASE Die
    BY <1>18 DEF Die
  <1>19. ASSUME NEW i \in 0..MaxCalls, SweepOne(i)
         PROVE  TypeOK'
    BY <1>19, Letters DEF SweepOne
  <1>20. CASE SweepEnds
    BY <1>20 DEF SweepEnds
  <1>21. CASE ChildReads
    BY <1>21, ReadFromPipe DEF ChildReads
  <1>22. ASSUME NEW m \in asked, ChildReplies(m)
         PROVE  TypeOK'
    BY <1>22, Letters, WrittenToPipe DEF ChildReplies
  <1>23. CASE ChildAsks
    BY <1>23, Letters, WrittenToPipe DEF ChildAsks
  <1>24. CASE ChildExits
    BY <1>24 DEF ChildExits
  <1>25. CASE UNCHANGED vars
    BY <1>25 DEF vars
  <1> QED
    BY <1>1, <1>2, <1>3, <1>4, <1>5, <1>6, <1>7, <1>8, <1>9, <1>10, <1>11, <1>12,
       <1>13, <1>14, <1>15, <1>16, <1>17, <1>18, <1>19, <1>20, <1>21, <1>22, <1>23,
       <1>24, <1>25 DEF Next, CallerSteps, ReaderSteps, ChildSteps

\* The variables keep their types; each pipe holds what it can and no more.
THEOREM TypeCorrect == Spec => []TypeOK
  BY InitTyped, NextTyped, PTL DEF Spec

-----------------------------------------------------------------------------
(* Calls in order.                                                         *)

\* The reader and the child never touch what the calling thread keeps.
LEMMA CallersAreAlone ==
    ASSUME ReaderSteps \/ ChildSteps
    PROVE  UNCHANGED callerVars
  BY DEF ReaderSteps, ChildSteps, TakeLine, PopWaiter, PopRaises, PutReply,
         LockToAnswer, AnswerAsk, AnswerAskFails, EndOfFile, Die, SweepOne, SweepEnds,
         ChildReads, ChildReplies, ChildAsks, ChildExits

\* A call ends where it was open, and only then.
LEMMA EndsInOrder ==
    ASSUME TypeOK, CallsInOrder, NEW result \in {"answered", "failed", "expired"},
           caller # "idle", Ends(result), call' = call
    PROVE  CallsInOrder'
  BY DEF TypeOK, CallsInOrder, Ends, Calls

LEMMA NextInOrder ==
    ASSUME TypeOK, CallsInOrder, [Next]_vars
    PROVE  CallsInOrder'
  <1> USE DEF CallsInOrder, callerVars
  <1>1. CASE Begin
    <2>1. call \in Int /\ call' = call + 1 /\ call' \in Calls
      BY <1>1, BoundsAssumption DEF Begin, TypeOK, Calls
    <2>2. \A k \in Calls : k < call + 1 <=> (k < call \/ k = call)
      BY <2>1 DEF Calls
    <2> QED
      BY <1>1, <2>1, <2>2 DEF Begin
  <1>2. CASE BeginDead
    BY <1>2 DEF BeginDead, TypeOK, Calls
  <1>3. CASE Register \/ LockToSend \/ Send \/ Expire
    BY <1>3 DEF Register, LockToSend, Send, Expire
  <1>4. CASE SendFails \/ Forget
    BY <1>4, EndsInOrder DEF SendFails, Forget
  <1>5. ASSUME NEW result \in Results, Receive(result)
        PROVE  CallsInOrder'
    BY <1>5, EndsInOrder DEF Receive, Results
  <1>6. CASE ReaderSteps \/ ChildSteps
    BY <1>6, CallersAreAlone
  <1>7. CASE UNCHANGED vars
    BY <1>7 DEF vars
  <1> QED
    BY <1>1, <1>2, <1>3, <1>4, <1>5, <1>6, <1>7 DEF Next, CallerSteps

-----------------------------------------------------------------------------
(* Replies reach their own calls.                                          *)

\* What a step can add to the messages under way: a request of the open call,
\* an ask, an answer to one, or the reply to a request the child has read.
NewLetters == {Request(call, call), Ask, Verdict} \union {Reply(m) : m \in asked}

LEMMA LettersUnderWay ==
    ASSUME TypeOK, [Next]_vars
    PROVE  /\ Send \/ InFlight' \subseteq InFlight \union {Ask, Verdict} \union {Reply(m) : m \in asked}
           /\ InFlight' \subseteq InFlight \union NewLetters
  <1> USE DEF InFlight, NewLetters, callerVars, readerVars, childVars
  <1>1. CASE Send
    BY <1>1, Letters, WrittenToPipe DEF Send, Ident, TypeOK
  <1>2. CASE TakeLine
    BY <1>2, ReadFromPipe DEF TakeLine, TypeOK
  <1>3. CASE AnswerAsk
    BY <1>3, Letters, WrittenToPipe DEF AnswerAsk, TypeOK
  <1>4. CASE ChildReads
    BY <1>4, ReadFromPipe DEF ChildReads, TypeOK
  <1>5. ASSUME NEW m \in asked, ChildReplies(m)
        PROVE  InFlight' \subseteq InFlight \union {Reply(l) : l \in asked}
    BY <1>5, Letters, WrittenToPipe DEF ChildReplies, TypeOK
  <1>6. CASE ChildAsks
    BY <1>6, Letters, WrittenToPipe DEF ChildAsks, TypeOK
  <1>7. CASE ChildExits
    BY <1>7 DEF ChildExits, On
  <1>8. CASE Begin \/ BeginDead \/ Register \/ LockToSend \/ SendFails \/ Expire \/ Forget
             \/ \E result \in Results : Receive(result)
    BY <1>8 DEF Begin, BeginDead, Register, LockToSend, SendFails, Expire, Forget, Receive
  <1>9. CASE PopWaiter \/ PopRaises \/ PutReply \/ LockToAnswer \/ AnswerAskFails
             \/ EndOfFile \/ Die \/ SweepEnds \/ \E i \in 0..MaxCalls : SweepOne(i)
    BY <1>9 DEF PopWaiter, PopRaises, PutReply, LockToAnswer, AnswerAskFails, EndOfFile,
                Die, SweepEnds, SweepOne
  <1>10. CASE UNCHANGED vars
    BY <1>10 DEF vars
  <1> QED
    BY <1>1, <1>2, <1>3, <1>4, <1>5, <1>6, <1>7, <1>8, <1>9, <1>10
    DEF Next, CallerSteps, ReaderSteps, ChildSteps

\* Whoever writes a waiter's queue writes a reply to its own call, or its death.
LEMMA BoxesChange ==
    ASSUME TypeOK, [Next]_vars, NEW i \in 0..MaxCalls
    PROVE  box'[i] \in {box[i], NoLine, Death} \/ (i = line.id /\ box'[i] = line)
  <1> USE DEF callerVars, readerVars, childVars, TypeOK
  <1>1. CASE Register
    BY <1>1 DEF Register
  <1>2. CASE PutReply
    BY <1>2 DEF PutReply
  <1>3. ASSUME NEW j \in 0..MaxCalls, SweepOne(j)
        PROVE  box'[i] \in {box[i], Death}
    BY <1>3 DEF SweepOne
  <1>4. CASE Begin \/ BeginDead \/ LockToSend \/ Send \/ SendFails \/ Expire \/ Forget
             \/ \E result \in Results : Receive(result)
    BY <1>4 DEF Begin, BeginDead, LockToSend, Send, SendFails, Expire, Forget, Receive
  <1>5. CASE TakeLine \/ PopWaiter \/ PopRaises \/ LockToAnswer \/ AnswerAsk
             \/ AnswerAskFails \/ EndOfFile \/ Die \/ SweepEnds \/ ChildSteps
    BY <1>5 DEF TakeLine, PopWaiter, PopRaises, LockToAnswer, AnswerAsk, AnswerAskFails,
                EndOfFile, Die, SweepEnds, ChildSteps, ChildReads, ChildReplies,
                ChildAsks, ChildExits
  <1>6. CASE UNCHANGED vars
    BY <1>6 DEF vars
  <1> QED
    BY <1>1, <1>2, <1>3, <1>4, <1>5, <1>6 DEF Next, CallerSteps, ReaderSteps

\* A letter is about the call whose id it bears; replying keeps both fields.
LEMMA OwnFields ==
    /\ \A k \in 0..MaxCalls : Request(k, k).id = k /\ Request(k, k).about = k
    /\ Ask.id = 0 /\ Ask.about = 0 /\ Verdict.id = 0 /\ Verdict.about = 0
    /\ \A m \in Messages : Reply(m).id = m.id /\ Reply(m).about = m.about
  BY DEF Request, Ask, Verdict, Reply, Messages

LEMMA NextOwnLetters ==
    ASSUME TypeOK, OwnLetters, [Next]_vars
    PROVE  OwnLetters'
  <1>1. call \in 0..MaxCalls /\ asked \subseteq Messages /\ asked \subseteq InFlight
         /\ line \in InFlight /\ line \in Messages
    BY DEF TypeOK, InFlight
  <1>2. \A m \in NewLetters : m.id = m.about
    BY <1>1, OwnFields DEF NewLetters, OwnLetters
  <1>3. \A m \in InFlight' : m.id = m.about
    BY <1>2, LettersUnderWay DEF OwnLetters
  <1>4. ASSUME NEW i \in 0..MaxCalls
        PROVE  box'[i] \in {NoLine, Death} \/ box'[i].about = i
    BY <1>1, BoxesChange DEF OwnLetters
  <1> QED
    BY <1>3, <1>4 DEF OwnLetters

\* The answer a call returns is what its own waiter holds.
LEMMA NextHeardOwn ==
    ASSUME TypeOK, CallsInOrder, OwnLetters, RepliesAreOwn, [Next]_vars
    PROVE  RepliesAreOwn'
  <1> USE DEF RepliesAreOwn, callerVars
  <1>1. ASSUME NEW result \in Results, Receive(result)
        PROVE  RepliesAreOwn'
    <2>1. call \in Calls /\ call \in 0..MaxCalls /\ box[call] # NoLine
      BY <1>1 DEF Receive, CallsInOrder, TypeOK, Ident
    <2>2. CASE box[call] = Death
      BY <1>1, <2>2 DEF Receive, Death, Ident
    <2>3. CASE box[call].about = call
      BY <1>1, <2>1, <2>3 DEF Receive, Ident, TypeOK
    <2> QED
      BY <2>1, <2>2, <2>3 DEF OwnLetters
  <1>2. CASE Begin \/ BeginDead \/ Register \/ LockToSend \/ Send \/ SendFails
             \/ Expire \/ Forget
    BY <1>2 DEF Begin, BeginDead, Register, LockToSend, Send, SendFails, Expire, Forget
  <1>3. CASE ReaderSteps \/ ChildSteps
    BY <1>3, CallersAreAlone
  <1>4. CASE UNCHANGED vars
    BY <1>4 DEF vars
  <1> QED
    BY <1>1, <1>2, <1>3, <1>4 DEF Next, CallerSteps

LEMMA InitOrdered == Init => CallsInOrder /\ OwnLetters /\ RepliesAreOwn
  <1> SUFFICES ASSUME Init PROVE CallsInOrder /\ OwnLetters /\ RepliesAreOwn
    OBVIOUS
  <1>1. CallsInOrder /\ RepliesAreOwn
    BY DEF Init, CallsInOrder, RepliesAreOwn, Calls
  <1>2. InFlight = {NoLine}
    BY DEF Init, InFlight, On
  <1>3. OwnLetters
    BY <1>2 DEF Init, OwnLetters, NoLine
  <1> QED
    BY <1>1, <1>3

\* A reply that arrives after its call gave up is never taken for the answer
\* to a later call (_dispatch looks the id up, request() forgets it).
THEOREM RepliesAreOwnHolds == Spec => []RepliesAreOwn
  <1> DEFINE Inv == TypeOK /\ CallsInOrder /\ OwnLetters /\ RepliesAreOwn
  <1>1. Init => Inv
    BY InitTyped, InitOrdered
  <1>2. Inv /\ [Next]_vars => Inv'
    BY NextTyped, NextInOrder, NextOwnLetters, NextHeardOwn
  <1>3. Inv => RepliesAreOwn
    OBVIOUS
  <1> QED
    BY <1>1, <1>2, <1>3, PTL DEF Spec

-----------------------------------------------------------------------------
(* Who is registered.                                                      *)

\* No message is about a call that has sent nothing yet.
LEMMA NextNotYetSent ==
    ASSUME TypeOK, CallsInOrder, NotYetSent, [Next]_vars
    PROVE  NotYetSent'
  <1> USE DEF callerVars
  <1>1. /\ call \in 0..MaxCalls /\ asked \subseteq Messages /\ asked \subseteq InFlight
        /\ InFlight \subseteq Messages
    BY DEF TypeOK, InFlight, On
  <1>2. \A m \in Messages : m.id \in 0..MaxCalls
    BY LetterFields
  <1>3. \A m \in {Ask, Verdict} \union {Reply(l) : l \in asked} :
            /\ m.id <= call /\ m.id \in 0..MaxCalls
            /\ caller \in {"checked", "registered", "writing"} => m.id # call
    BY <1>1, <1>2, OwnFields, BoundsAssumption DEF NotYetSent, CallsInOrder, Calls
  <1>4. CASE Send
    <2>1. \A m \in InFlight' : m.id <= call
      BY <1>1, <1>3, <1>4, LettersUnderWay, OwnFields DEF NewLetters, NotYetSent
    <2> QED
      BY <1>4, <2>1 DEF Send, NotYetSent
  <1>5. CASE ~Send
    <2>1. \A m \in InFlight' :
             /\ m.id <= call /\ m.id \in 0..MaxCalls
             /\ caller \in {"checked", "registered", "writing"} => m.id # call
      BY <1>1, <1>2, <1>3, <1>5, LettersUnderWay DEF NotYetSent
    <2>2. CASE Begin \/ BeginDead
      BY <1>1, <2>1, <2>2 DEF Begin, BeginDead, NotYetSent
    <2>3. CASE Register \/ LockToSend \/ SendFails \/ Expire \/ Forget
               \/ \E result \in Results : Receive(result)
      BY <2>1, <2>3 DEF Register, LockToSend, SendFails, Expire, Forget, Receive, Ends,
                        NotYetSent
    <2>4. CASE ReaderSteps \/ ChildSteps
      BY <2>1, <2>4, CallersAreAlone DEF NotYetSent
    <2>5. CASE UNCHANGED vars
      BY <2>1, <2>5 DEF vars, NotYetSent
    <2> QED
      BY <1>5, <2>2, <2>3, <2>4, <2>5 DEF Next, CallerSteps
  <1> QED
    BY <1>4, <1>5

\* An id is in _pending once, from its own registration on.
LEMMA NextRegistered ==
    ASSUME TypeOK, CallsInOrder, NotYetSent, OnlyTheOpenCallWaits, SweptTogether,
           Registered, [Next]_vars
    PROVE  Registered'
  <1> USE DEF Registered, callerVars, readerVars, childVars, Ident
  <1>1. /\ call \in Int
        /\ caller # "idle" => call \in Calls
        /\ \A i \in 1..call : i \in Int
    BY DEF TypeOK, CallsInOrder
  <1>2. CASE Begin
    <2>1. pending = {}
      BY <1>2 DEF Begin, OnlyTheOpenCallWaits
    <2>2. roster = {}
      BY <1>2 DEF Begin, SweptTogether
    <2> QED
      BY <1>2, <2>1, <2>2 DEF Begin
  <1>3. CASE BeginDead
    <2>1. \A i \in 1..call : i \in 1..(call + 1)
      BY <1>1
    <2> QED
      BY <1>3, <2>1 DEF BeginDead
  <1>4. CASE Register
    <2>1. line.id # call
      BY <1>4 DEF Register, NotYetSent, InFlight
    <2> QED
      BY <1>1, <1>4, <2>1 DEF Register, Calls, TypeOK
  <1>5. CASE LockToSend \/ Send \/ Expire
    BY <1>5 DEF LockToSend, Send, Expire
  <1>6. CASE SendFails
    BY <1>6 DEF SendFails, Ends
  <1>7. CASE Forget
    BY <1>7 DEF Forget, Ends
  <1>8. ASSUME NEW result \in Results, Receive(result)
        PROVE  Registered'
    BY <1>8 DEF Receive, Ends
  <1>9. CASE PopWaiter
    BY <1>9 DEF PopWaiter
  <1>10. CASE PutReply
    BY <1>10 DEF PutReply, TypeOK
  <1>11. CASE Die
    BY <1>11 DEF Die
  <1>12. ASSUME NEW i \in 0..MaxCalls, SweepOne(i)
         PROVE  Registered'
    BY <1>12 DEF SweepOne, SweptTogether
  <1>13. CASE TakeLine
    BY <1>13 DEF TakeLine
  <1>14. CASE PopRaises \/ LockToAnswer \/ AnswerAsk \/ AnswerAskFails \/ EndOfFile \/ SweepEnds
    BY <1>14 DEF PopRaises, LockToAnswer, AnswerAsk, AnswerAskFails, EndOfFile, SweepEnds
  <1>15. CASE ChildSteps
    BY <1>15 DEF ChildSteps, ChildReads, ChildReplies, ChildAsks, ChildExits
  <1>16. CASE UNCHANGED vars
    BY <1>16 DEF vars
  <1> QED
    BY <1>2, <1>3, <1>4, <1>5, <1>6, <1>7, <1>8, <1>9, <1>10, <1>11, <1>12, <1>13,
       <1>14, <1>15, <1>16 DEF Next, CallerSteps, ReaderSteps

LEMMA NextOnlyOpenWaits ==
    ASSUME TypeOK, OnlyTheOpenCallWaits, Registered, [Next]_vars
    PROVE  OnlyTheOpenCallWaits'
  <1> USE DEF OnlyTheOpenCallWaits, callerVars, readerVars, childVars, Ident
  <1>1. ASSUME NEW result \in Results, Receive(result)
        PROVE  OnlyTheOpenCallWaits'
    BY <1>1 DEF Receive, Ends, Registered
  <1>2. CASE Begin \/ BeginDead
    BY <1>2 DEF Begin, BeginDead
  <1>3. CASE Register \/ LockToSend \/ Send \/ SendFails \/ Expire \/ Forget
    BY <1>3 DEF Register, LockToSend, Send, SendFails, Expire, Forget, Ends
  <1>4. CASE TakeLine \/ PopWaiter \/ PopRaises \/ PutReply \/ LockToAnswer \/ AnswerAsk
             \/ AnswerAskFails \/ EndOfFile \/ Die \/ SweepEnds
             \/ \E i \in 0..MaxCalls : SweepOne(i)
    BY <1>4 DEF TakeLine, PopWaiter, PopRaises, PutReply, LockToAnswer, AnswerAsk,
                AnswerAskFails, EndOfFile, Die, SweepEnds, SweepOne
  <1>5. CASE ChildSteps
    BY <1>5 DEF ChildSteps, ChildReads, ChildReplies, ChildAsks, ChildExits
  <1>6. CASE UNCHANGED vars
    BY <1>6 DEF vars
  <1> QED
    BY <1>1, <1>2, <1>3, <1>4, <1>5, <1>6 DEF Next, CallerSteps, ReaderSteps

\* Between the snapshot and the end of the sweep, the open call's id stays put.
LEMMA NextSweptTogether ==
    ASSUME TypeOK, CallsInOrder, Registered, SweptTogether, [Next]_vars
    PROVE  SweptTogether'
  <1> USE DEF SweptTogether, callerVars, readerVars, childVars, Ident
  <1>1. CASE Begin \/ BeginDead
    <2>1. \A i \in roster : i \in 1..call
      BY DEF Registered
    <2> QED
      BY <1>1, <2>1 DEF Begin, BeginDead, TypeOK
  <1>2. CASE Register
    BY <1>2 DEF Register, Registered
  <1>3. CASE LockToSend \/ Send \/ Expire
    BY <1>3 DEF LockToSend, Send, Expire
  <1>4. CASE SendFails \/ Forget
    BY <1>4 DEF SendFails, Forget, Ends
  <1>5. ASSUME NEW result \in Results, Receive(result)
        PROVE  SweptTogether'
    BY <1>5 DEF Receive, Ends
  <1>6. CASE Die
    BY <1>6 DEF Die
  <1>7. ASSUME NEW i \in 0..MaxCalls, SweepOne(i)
        PROVE  SweptTogether'
    BY <1>7 DEF SweepOne
  <1>8. CASE SweepEnds
    BY <1>8 DEF SweepEnds
  <1>9. CASE TakeLine \/ PopWaiter \/ PopRaises \/ PutReply \/ LockToAnswer \/ AnswerAsk
             \/ AnswerAskFails \/ EndOfFile
    BY <1>9 DEF TakeLine, PopWaiter, PopRaises, PutReply, LockToAnswer, AnswerAsk,
                AnswerAskFails, EndOfFile
  <1>10. CASE ChildSteps
    BY <1>10 DEF ChildSteps, ChildReads, ChildReplies, ChildAsks, ChildExits
  <1>11. CASE UNCHANGED vars
    BY <1>11 DEF vars
  <1> QED
    BY <1>1, <1>2, <1>3, <1>4, <1>5, <1>6, <1>7, <1>8, <1>9, <1>10, <1>11
    DEF Next, CallerSteps, ReaderSteps

\* A recorded timeout stays on record, and an exited child stays exited.
LEMMA CausesStay ==
    ASSUME TypeOK, CallsInOrder, [Next]_vars
    PROVE  /\ \A k \in Calls : outcome[k] = "expired" => outcome'[k] = "expired"
           /\ child = "exited" => child' = "exited"
  <1> USE DEF callerVars, readerVars, childVars
  <1>1. caller # "idle" => outcome[call] = "none" /\ call \in Calls
    BY DEF CallsInOrder, TypeOK
  <1>2. CASE Begin \/ Register \/ LockToSend \/ Send \/ Expire
    BY <1>2 DEF Begin, Register, LockToSend, Send, Expire
  <1>3. CASE BeginDead
    BY <1>3 DEF BeginDead, CallsInOrder, TypeOK, Calls
  <1>4. CASE SendFails \/ Forget \/ \E result \in Results : Receive(result)
    BY <1>1, <1>4 DEF SendFails, Forget, Receive, Ends, TypeOK
  <1>5. CASE ReaderSteps \/ ChildSteps
    <2>1. child' = child \/ child' = "exited"
      BY <1>5 DEF ReaderSteps, ChildSteps, TakeLine, PopWaiter, PopRaises, PutReply,
         LockToAnswer, AnswerAsk, AnswerAskFails, EndOfFile, Die, SweepOne, SweepEnds,
         ChildReads, ChildReplies, ChildAsks, ChildExits
    <2> QED
      BY <1>5, <2>1, CallersAreAlone
  <1>6. CASE UNCHANGED vars
    BY <1>6 DEF vars
  <1> QED
    BY <1>2, <1>3, <1>4, <1>5, <1>6 DEF Next, CallerSteps

\* What stops the reader: the child's end, or an id that its caller forgot.
LEMMA NextHasACause ==
    ASSUME TypeOK, CallsInOrder, Registered, ReaderHasACause, [Next]_vars
    PROVE  ReaderHasACause'
  <1> USE DEF ReaderHasACause, callerVars, readerVars, childVars, Ident
  <1>1. CASE Begin \/ BeginDead \/ Register \/ LockToSend \/ Send \/ Expire
             \/ \E result \in Results : Receive(result)
    BY <1>1, CausesStay DEF Begin, BeginDead, Register, LockToSend, Send, Expire, Receive
  <1>2. CASE SendFails
    BY <1>2, CausesStay DEF SendFails
  <1>3. CASE Forget
    BY <1>3, CausesStay DEF Forget, Ends, TypeOK, CallsInOrder
  <1>4. CASE TakeLine
    <2>1. \A i \in pending : i \in Calls
      BY BoundsAssumption DEF Registered, Calls, TypeOK
    <2> QED
      BY <1>4, <2>1, CausesStay DEF TakeLine
  <1>5. CASE PopWaiter
    BY <1>5, CausesStay DEF PopWaiter
  <1>6. CASE PopRaises
    BY <1>6, CausesStay DEF PopRaises
  <1>7. CASE AnswerAskFails \/ EndOfFile
    BY <1>7, CausesStay DEF AnswerAskFails, EndOfFile
  <1>8. CASE Die
    BY <1>8, CausesStay DEF Die
  <1>9. CASE PutReply \/ LockToAnswer \/ AnswerAsk \/ SweepEnds
             \/ \E i \in 0..MaxCalls : SweepOne(i)
    BY <1>9, CausesStay DEF PutReply, LockToAnswer, AnswerAsk, SweepEnds, SweepOne
  <1>10. CASE ChildSteps
    BY <1>10, CausesStay DEF ChildSteps, ChildReads, ChildReplies, ChildAsks, ChildExits
  <1>11. CASE UNCHANGED vars
    BY <1>11 DEF vars
  <1> QED
    BY <1>1, <1>2, <1>3, <1>4, <1>5, <1>6, <1>7, <1>8, <1>9, <1>10, <1>11
    DEF Next, CallerSteps, ReaderSteps

-----------------------------------------------------------------------------
(* The invariant, and what follows from it.                                *)

SessionInv ==
    /\ TypeOK /\ CallsInOrder /\ OwnLetters /\ RepliesAreOwn
    /\ NotYetSent /\ Registered /\ OnlyTheOpenCallWaits
    /\ SweptTogether /\ ReaderHasACause

LEMMA InitSession == Init => SessionInv
  <1> SUFFICES ASSUME Init PROVE SessionInv
    OBVIOUS
  <1>1. InFlight = {NoLine}
    BY DEF Init, InFlight, On
  <1>2. NotYetSent
    BY <1>1 DEF Init, NotYetSent, NoLine
  <1>3. Registered /\ OnlyTheOpenCallWaits /\ SweptTogether /\ ReaderHasACause
    BY DEF Init, Registered, OnlyTheOpenCallWaits, SweptTogether, ReaderHasACause
  <1> QED
    BY <1>2, <1>3, InitTyped, InitOrdered DEF SessionInv

LEMMA NextSession == SessionInv /\ [Next]_vars => SessionInv'
  BY NextTyped, NextInOrder, NextOwnLetters, NextHeardOwn, NextNotYetSent, NextRegistered,
     NextOnlyOpenWaits, NextSweptTogether, NextHasACause DEF SessionInv

LEMMA SessionInvariant == Spec => []SessionInv
  BY InitSession, NextSession, PTL DEF Spec

\* While the session lives, only the call being made has a waiter: nothing of
\* an expired or answered call stays behind in _pending.
THEOREM OnlyTheOpenCallWaitsHolds == Spec => []OnlyTheOpenCallWaits
  <1>1. SessionInv => OnlyTheOpenCallWaits
    BY DEF SessionInv
  <1> QED
    BY <1>1, SessionInvariant, PTL

\* A call that had registered when the reader died is told so by the sweep in
\* _read_loop's finally, however its steps and the sweep's interleave.
THEOREM OpenCallsAreToldHolds == Spec => []OpenCallsAreTold
  <1>1. SessionInv => OpenCallsAreTold
    BY DEF SessionInv, SweptTogether, OpenCallsAreTold, Death, NoLine
  <1> QED
    BY <1>1, SessionInvariant, PTL

\* A session is declared dead for a living child only if some call timed out:
\* the KeyError race of _dispatch with an expiring request() is the one cause.
THEOREM DeathHasACauseHolds == Spec => []DeathHasACause
  <1>1. SessionInv => DeathHasACause
    BY DEF SessionInv, ReaderHasACause, DeathHasACause
  <1> QED
    BY <1>1, SessionInvariant, PTL

-----------------------------------------------------------------------------
(* The session implements RpcCalls.                                        *)

StatusOf == [k \in Calls |-> Status(k)]

\* How RpcCalls sees the calls: all before the current one are over.
LEMMA StatusReads ==
    ASSUME TypeOK, CallsInOrder
    PROVE  /\ \A k \in Calls : k < call => StatusOf[k] \in Abstract!Over
           /\ \A k \in Calls : k > call => StatusOf[k] = "new"
           /\ caller # "idle" => call \in Calls /\ StatusOf[call] = "open"
           /\ caller = "idle" /\ call \in Calls => StatusOf[call] \in Abstract!Over
           /\ call \in Int
  BY DEF TypeOK, CallsInOrder, StatusOf, Status, Abstract!Over, Calls

\* The ends of a call: what it was, and the rest untouched.
LEMMA StatusEnds ==
    ASSUME TypeOK, CallsInOrder, NEW result \in {"answered", "failed", "expired"},
           caller # "idle", Ends(result), call' = call
    PROVE  StatusOf' = [StatusOf EXCEPT ![call] = result]
  BY DEF TypeOK, CallsInOrder, StatusOf, Status, Ends

\* A step that neither begins nor ends a call.
LEMMA StatusStays ==
    ASSUME call' = call, outcome' = outcome, (caller' = "idle") <=> (caller = "idle")
    PROVE  StatusOf' = StatusOf
  BY DEF StatusOf, Status

LEMMA StepImplements ==
    ASSUME SessionInv, [Next]_vars
    PROVE  [Abstract!Next]_(Abstract!vars)
  <1> USE DEF callerVars, readerVars, childVars
  <1>0. TypeOK /\ CallsInOrder /\ OwnLetters
    BY DEF SessionInv
  <1>a. SUFFICES ASSUME ~UNCHANGED <<StatusOf, heard, dead>>
                 PROVE  Abstract!Next
    BY DEF Abstract!vars, StatusOf
  <1>1. CASE Begin
    <2>1. call + 1 \in Calls
      BY <1>0, <1>1, BoundsAssumption DEF Begin, TypeOK, Calls
    <2>2. StatusOf[call + 1] = "new" /\ \A j \in Calls : j < call + 1 => StatusOf[j] \in Abstract!Over
      BY <1>0, <1>1, <2>1, StatusReads DEF Begin, Calls
    <2>3. StatusOf' = [StatusOf EXCEPT ![call + 1] = "open"]
      <3>1. outcome[call + 1] = "none" /\ call \in Int
        BY <1>0, <1>1, <2>1 DEF Begin, CallsInOrder, Calls, TypeOK
      <3>2. \A k \in Calls : Status(k)' = IF k = call + 1 THEN "open" ELSE Status(k)
        BY <1>0, <1>1, <3>1 DEF Begin, Status, CallsInOrder
      <3> QED
        BY <2>1, <3>2 DEF StatusOf
    <2>4. Abstract!Begin(call + 1)
      BY <1>1, <2>2, <2>3 DEF Begin, Abstract!Begin, Abstract!MyTurn, StatusOf
    <2> QED
      BY <2>1, <2>4 DEF Abstract!Next
  <1>2. CASE BeginDead
    <2>1. call + 1 \in Calls
      BY <1>0, <1>2, BoundsAssumption DEF BeginDead, TypeOK, Calls
    <2>2. StatusOf[call + 1] = "new" /\ \A j \in Calls : j < call + 1 => StatusOf[j] \in Abstract!Over
      BY <1>0, <1>2, <2>1, StatusReads DEF BeginDead, Calls
    <2>3. StatusOf' = [StatusOf EXCEPT ![call + 1] = "failed"]
      BY <1>0, <1>2, <2>1 DEF BeginDead, StatusOf, Status, CallsInOrder, Calls, TypeOK
    <2>4. Abstract!Refuse(call + 1)
      BY <1>2, <2>2, <2>3 DEF BeginDead, Abstract!Refuse, Abstract!MyTurn, StatusOf
    <2> QED
      BY <2>1, <2>4 DEF Abstract!Next
  <1>3. ASSUME NEW result \in Results, Receive(result)
        PROVE  Abstract!Next
    <2>1. call \in Calls /\ StatusOf[call] = "open"
      BY <1>0, <1>3, StatusReads DEF Receive
    <2>2. StatusOf' = [StatusOf EXCEPT ![call] = result]
      BY <1>0, <1>3, StatusEnds DEF Receive, Results
    <2>3. CASE result = "answered"
      <3>1. box[call].about = call
        BY <1>0, <1>3, <2>3 DEF Receive, OwnLetters, TypeOK, Ident, Death
      <3> QED
        BY <1>3, <2>1, <2>2, <2>3, <3>1
        DEF Receive, Ident, StatusOf, Abstract!Next, Abstract!Answer
    <2>4. CASE result = "failed"
      BY <1>3, <2>1, <2>2, <2>4 DEF Receive, StatusOf, Abstract!Next, Abstract!Fail
    <2> QED
      BY <1>3, <2>3, <2>4 DEF Results
  <1>4. CASE SendFails
    <2>1. call \in Calls /\ StatusOf[call] = "open"
      BY <1>0, <1>4, StatusReads DEF SendFails
    <2>2. StatusOf' = [StatusOf EXCEPT ![call] = "failed"]
      BY <1>0, <1>4, StatusEnds DEF SendFails
    <2> QED
      BY <1>4, <2>1, <2>2 DEF SendFails, StatusOf, Abstract!Next, Abstract!Fail
  <1>5. CASE Forget
    <2>1. call \in Calls /\ StatusOf[call] = "open"
      BY <1>0, <1>5, StatusReads DEF Forget
    <2>2. StatusOf' = [StatusOf EXCEPT ![call] = "expired"]
      BY <1>0, <1>5, StatusEnds DEF Forget
    <2> QED
      BY <1>5, <2>1, <2>2 DEF Forget, StatusOf, Abstract!Next, Abstract!Expire
  <1>6. CASE Register \/ LockToSend \/ Send \/ Expire
    BY <1>a, <1>6, StatusStays DEF Register, LockToSend, Send, Expire
  <1>7. CASE Die \/ AnswerAskFails
    BY <1>0, <1>a, <1>7, StatusStays
    DEF Die, AnswerAskFails, TypeOK, StatusOf, Abstract!Next, Abstract!GoDown
  <1>8. CASE TakeLine \/ PopWaiter \/ PopRaises \/ PutReply \/ LockToAnswer \/ AnswerAsk
             \/ EndOfFile \/ SweepEnds \/ \E i \in 0..MaxCalls : SweepOne(i)
    BY <1>a, <1>8, StatusStays DEF TakeLine, PopWaiter, PopRaises, PutReply, LockToAnswer,
       AnswerAsk, EndOfFile, SweepEnds, SweepOne
  <1>9. CASE ChildSteps
    BY <1>a, <1>9, StatusStays DEF ChildSteps, ChildReads, ChildReplies, ChildAsks, ChildExits
  <1>10. CASE UNCHANGED vars
    BY <1>a, <1>10, StatusStays DEF vars
  <1> QED
    BY <1>1, <1>2, <1>3, <1>4, <1>5, <1>6, <1>7, <1>8, <1>9, <1>10
    DEF Next, CallerSteps, ReaderSteps

\* Whatever the calling thread, the reader thread and the child do, request()
\* behaves as RpcCalls says: calls in order, each ending once and in its own
\* answer, none begun on a session known to be dead.
THEOREM SessionImplementsCalls == Spec => ImplementsRpcCalls
  <1>1. Init => Abstract!Init
    BY DEF Init, Abstract!Init, Status, Calls
  <1>2. SessionInv /\ [Next]_vars => [Abstract!Next]_(Abstract!vars)
    BY StepImplements
  <1> QED
    BY <1>1, <1>2, SessionInvariant, PTL DEF Spec, ImplementsRpcCalls, Abstract!Spec

=============================================================================
