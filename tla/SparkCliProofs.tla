--------------------------- MODULE SparkCliProofs ---------------------------
(* Theorems about SparkCli, for every set of daemons and any number of      *)
(* their starts and stops.                                                  *)
EXTENDS SparkCli, TLAPS

-----------------------------------------------------------------------------
(* The inductive invariant: what is settled at each place of an invocation. *)

\* The invocation is under way: nothing came of it yet, nothing is written.
Pending ==
    pc \in {"idle", "prepare", "probe", "connect", "call", "exec"} =>
        /\ records = <<>> /\ ~failing /\ exit = 0
        /\ pc = "prepare" => verb \in Wrapped
        /\ pc \in {"connect", "call", "exec"} => transport # "none"

\* A result that is worth its exit code came with a response, over a transport;
\* an exception that is on its way out left no result behind.
Settled ==
    /\ ~failing => answer \in ResultStatus /\ hashed /\ transport # "none"
    /\ failing => answer \in Failures \union {"broken", "error"}

\* The engine has what it will return or raise.
Answered ==
    /\ pc = "validate" => ~failing
    /\ pc \in {"validate", "left", "audit"} => Settled /\ records = <<>> /\ exit = 0
    /\ pc = "audit" => verb \in Wrapped

\* The line a bare engine wrote says what the command is about to exit with.
EngineLine ==
    /\ exit = 0
    /\ records = <<>> => failing
    /\ Len(records) <= 1
    /\ \A i \in DOMAIN records :
          /\ records[i].status = RecordedStatus(answer)
          /\ ~failing => records[i].hashed /\ records[i].transport # "none"

Publishing ==
    pc = "publish" =>
        /\ Settled
        /\ verb \notin Wrapped => EngineLine
        /\ verb \in Wrapped =>
              records = <<>> /\ exit \in 0..2 /\ (exit # 0 => failing /\ answer = "broken")

CliInv == CliTypeOK /\ Pending /\ Answered /\ Publishing /\ RecordIsWhatTheCallerHears

-----------------------------------------------------------------------------
(* Helpers of the actions.                                                 *)

\* A line of telemetry is well formed.
LEMMA LineTyped ==
    ASSUME CliTypeOK, NEW status \in Answers
    PROVE  Line(status) \in Record
  BY DEF Line, Record, CliTypeOK

LEMMA StatusTyped ==
    ASSUME NEW a \in Answers
    PROVE  RecordedStatus(a) \in Answers /\ WrapperStatus(a) \in Answers
  BY DEF Answers, RecordedStatus, WrapperStatus

\* Only the five results have exit codes of their own; an exception is 1.
LEMMA ExitCodes ==
    /\ \A a \in Answers : ExitCode(a) \in 0..5 /\ ExitCode(a) # 2
    /\ \A a \in Answers \ ResultStatus : ExitCode(a) = 1
    /\ \A a \in ResultStatus : ExitCode(a) # 1
  BY DEF Answers, ResultStatus, Failures, ExitCode

LEMMA EmitTyped ==
    ASSUME CliTypeOK, NEW status \in Answers, NEW next, Emit(status, next)
    PROVE  /\ records' \in Seq(Record) /\ failing' \in BOOLEAN /\ answer' \in Answers
           /\ pc' = next
  <1>1. Line(status) \in Record
    BY LineTyped
  <1>2. \A line \in Record : Append(records, line) \in Seq(Record)
    BY DEF CliTypeOK
  <1> QED
    BY <1>1, <1>2 DEF Emit, CliTypeOK, Answers

LEMMA GetsTyped ==
    ASSUME CliTypeOK, NEW a \in Answers, Gets(a), transport' \in {"none", "oneshot", "daemon"},
           peer' \in Daemons \union {NoDaemon}
    PROVE  CliTypeOK'
  BY DEF Gets, CliTypeOK, daemonVars

-----------------------------------------------------------------------------
(* Type correctness.                                                       *)

LEMMA NextCliTyped == CliTypeOK /\ [CliNext]_cliVars => CliTypeOK'
  <1> SUFFICES ASSUME CliTypeOK, [CliNext]_cliVars PROVE CliTypeOK'
    OBVIOUS
  <1> USE DEF daemonVars, callVars
  <1>1. ASSUME NEW d \in Daemons, Listen(d) \/ Stop(d) \/ Killed(d)
        PROVE  CliTypeOK'
    BY <1>1, CliAssumption DEF Listen, Stop, Killed, Event, CliTypeOK
  <1>2. ASSUME NEW v \in Verbs, NEW m \in Modes, Invoke(v, m)
        PROVE  CliTypeOK'
    BY <1>2 DEF Invoke, CliTypeOK
  <1>3. CASE Prepare
    <2>1. pc' \in {"probe", "publish"} /\ answer' \in {answer, "broken"}
          /\ (failing' = failing \/ failing' = TRUE) /\ exit' \in {exit, 1, 2}
      BY <1>3 DEF Prepare
    <2>2. failing' \in BOOLEAN
      BY <2>1, Zenon DEF CliTypeOK
    <2>3. answer' \in Answers /\ exit' \in 0..5
      BY <2>1 DEF CliTypeOK, Answers
    <2> QED
      BY <1>3, <2>1, <2>2, <2>3 DEF Prepare, CliTypeOK
  <1>4. CASE Probe
    BY <1>4, GetsTyped DEF Probe, CliTypeOK, Answers, Failures
  <1>5. CASE Connect
    BY <1>5, GetsTyped DEF Connect, Connectable, CliTypeOK, Answers, Failures
  <1>6. CASE Call
    BY <1>6, GetsTyped DEF Call, CliTypeOK, Answers
  <1>7. CASE Exec
    BY <1>7, GetsTyped DEF Exec, CliTypeOK, Answers
  <1>8. CASE Validate
    BY <1>8 DEF Validate, CliTypeOK, Answers, Failures
  <1>9. CASE Leave
    BY <1>9, EmitTyped, StatusTyped DEF Leave, CliTypeOK
  <1>10. CASE Audit
    BY <1>10 DEF Audit, Audited, CliTypeOK, Answers, ResultStatus
  <1>11. CASE Publish
    <2>1. answer' \in Answers /\ records' \in Seq(Record) /\ failing' \in BOOLEAN /\ pc' = "over"
      BY <1>11, EmitTyped, StatusTyped DEF Publish, CliTypeOK
    <2>2. ExitCode(answer) \in 0..5
      BY ExitCodes DEF CliTypeOK
    <2> QED
      BY <1>11, <2>1, <2>2 DEF Publish, CliTypeOK
  <1>12. CASE UNCHANGED cliVars
    BY <1>12 DEF cliVars, CliTypeOK
  <1> QED
    BY <1>1, <1>2, <1>3, <1>4, <1>5, <1>6, <1>7, <1>8, <1>9, <1>10, <1>11, <1>12 DEF CliNext

-----------------------------------------------------------------------------
(* The record and the exit code.                                           *)

LEMMA InitCli == CliInit => CliInv
  <1> SUFFICES ASSUME CliInit PROVE CliInv
    OBVIOUS
  <1>1. CliTypeOK
    <2>1. events \in 0..MaxEvents /\ exit \in 0..5 /\ records \in Seq(Record)
      BY CliAssumption DEF CliInit
    <2>2. verb \in Verbs /\ mode \in Modes /\ answer \in Answers
      BY DEF CliInit, Verbs, Modes, Answers
    <2> QED
      BY <2>1, <2>2 DEF CliInit, CliTypeOK
  <1>2. Pending /\ Answered /\ Publishing /\ RecordIsWhatTheCallerHears
    BY DEF CliInit, Pending, Answered, Publishing, RecordIsWhatTheCallerHears
  <1> QED
    BY <1>1, <1>2 DEF CliInv

\* The call is over: a result has a hash and a transport, anything else raises.
LEMMA GetsSettles ==
    ASSUME CliInv, NEW a \in ResultStatus \union Failures \union {"broken"}, Gets(a),
           pc \in {"probe", "connect", "call", "exec"},
           a \in ResultStatus => transport' # "none"
    PROVE  (Pending /\ Answered /\ Publishing /\ RecordIsWhatTheCallerHears)'
  <1>1. records = <<>> /\ exit = 0
    BY DEF CliInv, Pending
  <1>2. Settled' /\ pc' \in {"validate", "left"} /\ (pc' = "validate" => ~failing')
    BY DEF Gets, Settled
  <1>3. records' = <<>> /\ exit' = 0
    BY <1>1 DEF Gets
  <1> QED
    BY <1>2, <1>3 DEF Pending, Answered, Publishing, RecordIsWhatTheCallerHears

\* One line at most, of the status that the failure or the result has.
LEMMA EmitSays ==
    ASSUME CliTypeOK, records = <<>>, NEW status \in Answers, NEW next, Emit(status, next)
    PROVE  /\ \/ records' = <<Line(status)>> /\ failing' = failing /\ answer' = answer
              \/ /\ records' = <<>> /\ failing' = TRUE
                 /\ answer' = IF failing THEN answer ELSE "error"
           /\ pc' = next
  BY DEF Emit

\* One line and its exit code.
LEMMA OneLine ==
    ASSUME NEW line, records' = <<line>>,
           IF exit' = 2 THEN line.status = "error"
           ELSE /\ exit' = ExitCode(line.status)
                /\ exit' # 1 => line.hashed /\ line.transport # "none"
    PROVE  RecordIsWhatTheCallerHears'
  <1>1. Len(records') = 1 /\ records' # <<>> /\ DOMAIN records' = {1} /\ records'[1] = line
    OBVIOUS
  <1> QED
    BY <1>1 DEF RecordIsWhatTheCallerHears

\* No line, because writing it failed.
LEMMA NoLine ==
    ASSUME records' = <<>>, exit' \in {1, 2}
    PROVE  RecordIsWhatTheCallerHears'
  <1>1. Len(records') <= 1 /\ DOMAIN records' = {}
    OBVIOUS
  <1> QED
    BY <1>1 DEF RecordIsWhatTheCallerHears

LEMMA NextPlaces ==
    ASSUME CliInv, [CliNext]_cliVars
    PROVE  (Pending /\ Answered /\ Publishing /\ RecordIsWhatTheCallerHears)'
  <1> DEFINE Places == Pending /\ Answered /\ Publishing /\ RecordIsWhatTheCallerHears
  <1> USE DEF daemonVars, callVars
  <1>0. CliTypeOK /\ Places
    BY DEF CliInv
  <1>1. ASSUME NEW d \in Daemons, Listen(d) \/ Stop(d) \/ Killed(d)
        PROVE  Places'
    BY <1>0, <1>1 DEF Listen, Stop, Killed, Event, Pending, Answered, Settled, Publishing,
                      EngineLine, RecordedStatus, RecordIsWhatTheCallerHears
  <1>2. ASSUME NEW v \in Verbs, NEW m \in Modes, Invoke(v, m)
        PROVE  Places'
    BY <1>0, <1>2 DEF Invoke, Pending, Answered, Publishing, RecordIsWhatTheCallerHears, Wrapped
  <1>3. CASE Prepare
    BY <1>0, <1>3 DEF Prepare, Pending, Answered, Settled, Publishing,
                      RecordIsWhatTheCallerHears, Failures
  <1>4. CASE Probe
    <2>1. CASE mode = "misspelt" /\ Gets("protocol_error")
      BY <1>4, <2>1, GetsSettles DEF Probe, Failures, ResultStatus
    <2>2. CASE pc' \in {"exec", "connect"} /\ transport' \in {"oneshot", "daemon"}
               /\ UNCHANGED <<answer, hashed, records, failing, exit>>
      BY <1>0, <1>4, <2>2 DEF Probe, Pending, Answered, Publishing, RecordIsWhatTheCallerHears
    <2> QED
      BY <1>4, <2>1, <2>2 DEF Probe
  <1>5. CASE Connect
    <2>1. CASE Gets("unavailable")
      BY <1>5, <2>1, GetsSettles DEF Connect, Failures, ResultStatus
    <2>2. CASE pc' = "call" /\ UNCHANGED <<transport, answer, hashed, records, failing, exit>>
      BY <1>0, <1>5, <2>2 DEF Connect, Pending, Answered, Publishing, RecordIsWhatTheCallerHears
    <2> QED
      BY <1>5, <2>1, <2>2 DEF Connect
  <1>6. CASE Call \/ Exec
    <2>1. PICK a \in ResultStatus \union Failures \union {"broken"} : Gets(a)
      BY <1>6 DEF Call, Exec
    <2>2. transport' # "none" /\ pc \in {"call", "exec"}
      BY <1>0, <1>6 DEF Call, Exec, Pending
    <2> QED
      BY <2>1, <2>2, GetsSettles
  <1>7. CASE Validate
    <2>1. Settled /\ ~failing /\ records = <<>> /\ exit = 0
      BY <1>0, <1>7 DEF Validate, Answered
    <2>2. Settled'
      <3>1. CASE UNCHANGED <<answer, failing, hashed>>
        BY <1>7, <2>1, <3>1 DEF Validate, Settled
      <3>2. CASE answer' = "protocol_error" /\ failing' = TRUE
        <4>1. failing'
          BY <3>2, Zenon
        <4>2. answer' \in Failures
          BY <3>2 DEF Failures
        <4> QED
          BY <4>1, <4>2 DEF Settled
      <3> QED
        BY <1>7, <3>1, <3>2 DEF Validate
    <2> QED
      BY <1>7, <2>1, <2>2 DEF Validate, Pending, Answered, Publishing, RecordIsWhatTheCallerHears
  <1>8. CASE Leave
    <2>1. Settled /\ records = <<>> /\ exit = 0
      BY <1>0, <1>8 DEF Leave, Answered
    <2>2. CASE verb \in Wrapped
      BY <1>8, <2>1, <2>2 DEF Leave, Pending, Answered, Settled, Publishing,
                              RecordIsWhatTheCallerHears
    <2>3. CASE verb \notin Wrapped
      <3>1. Emit(RecordedStatus(answer), "publish")
        BY <1>8, <2>3 DEF Leave
      <3>2. RecordedStatus(answer) \in Answers
        BY <1>0, StatusTyped DEF CliTypeOK
      <3>3. pc' = "publish" /\ exit' = 0 /\ verb' = verb /\ transport' = transport /\ hashed' = hashed
        BY <1>8, <2>1, <3>1, <3>2, <1>0, EmitSays DEF Leave
      <3>4. CASE records' = <<Line(RecordedStatus(answer))>> /\ failing' = failing /\ answer' = answer
        BY <2>1, <2>3, <3>3, <3>4 DEF Pending, Answered, Settled, Publishing, EngineLine,
           RecordIsWhatTheCallerHears, Line, RecordedStatus
      <3>5. CASE /\ records' = <<>> /\ failing' = TRUE
                 /\ answer' = IF failing THEN answer ELSE "error"
        BY <2>1, <2>3, <3>3, <3>5 DEF Pending, Answered, Settled, Publishing, EngineLine,
           RecordIsWhatTheCallerHears
      <3> QED
        BY <1>0, <2>1, <3>1, <3>2, <3>4, <3>5, EmitSays
    <2> QED
      BY <2>2, <2>3
  <1>9. CASE Audit
    BY <1>0, <1>9 DEF Audit, Audited, Pending, Answered, Settled, Publishing,
                      RecordIsWhatTheCallerHears, ResultStatus
  <1>10. CASE Publish
    <2>0. Settled /\ answer \in Answers /\ pc' = "over"
      BY <1>0, <1>10, StatusTyped, EmitSays DEF Publish, Publishing, CliTypeOK
    <2>1. CASE verb \notin Wrapped
      <3>1. EngineLine /\ UNCHANGED <<answer, records, failing>>
        BY <1>0, <1>10, <2>1 DEF Publish, Publishing
      <3>2. exit' = IF ~failing THEN ExitCode(answer) ELSE 1
        BY <1>10, <3>1 DEF Publish, EngineLine
      <3>3. exit' = ExitCode(RecordedStatus(answer)) /\ exit' # 2
        BY <2>0, <3>2, ExitCodes DEF Settled, RecordedStatus, ResultStatus, Failures, Answers
      <3>4. exit' # 1 => ~failing
        BY <3>2
      <3>5. RecordIsWhatTheCallerHears'
        BY <3>1, <3>2, <3>3, <3>4 DEF EngineLine, RecordIsWhatTheCallerHears
      <3> QED
        BY <2>0, <3>5 DEF Pending, Answered, Publishing
    <2>2. CASE verb \in Wrapped
      <3>1. /\ records = <<>> /\ exit \in 0..2 /\ (exit # 0 => failing /\ answer = "broken")
            /\ Emit(WrapperStatus(answer), "over")
        BY <1>0, <1>10, <2>2 DEF Publish, Publishing
      <3>2. WrapperStatus(answer) \in Answers
        BY <2>0, StatusTyped
      <3>3. ASSUME records' = <<Line(WrapperStatus(answer))>>,
                   failing' = failing, answer' = answer
            PROVE  RecordIsWhatTheCallerHears'
        <4>1. CASE ~failing
          <5>1. WrapperStatus(answer) = answer /\ exit = 0 /\ exit' = ExitCode(answer)
            BY <1>10, <2>0, <3>1, <3>3, <4>1
            DEF Publish, Settled, WrapperStatus, RecordedStatus, ResultStatus
          <5> QED
            BY <2>0, <3>3, <4>1, <5>1, OneLine, ExitCodes DEF Settled, Line, Answers
        <4>2. CASE failing
          <5>1. exit' = IF exit = 2 THEN 2 ELSE 1
            BY <1>10, <3>3, <4>2 DEF Publish
          <5>2. WrapperStatus(answer) \in Answers \ ResultStatus
            BY <2>0, <4>2 DEF Settled, WrapperStatus, RecordedStatus, ResultStatus, Failures, Answers
          <5>3. exit = 2 => WrapperStatus(answer) = "error"
            BY <3>1 DEF WrapperStatus
          <5> QED
            BY <3>3, <5>1, <5>2, <5>3, OneLine, ExitCodes DEF Line
        <4> QED
          BY <4>1, <4>2
      <3>4. ASSUME records' = <<>>, failing' = TRUE
            PROVE  RecordIsWhatTheCallerHears'
        <4>1. exit' \in {1, 2}
          BY <1>10, <3>4 DEF Publish
        <4> QED
          BY <3>4, <4>1, NoLine
      <3>5. RecordIsWhatTheCallerHears'
        BY <1>0, <3>1, <3>2, <3>3, <3>4, EmitSays
      <3> QED
        BY <2>0, <3>5 DEF Pending, Answered, Publishing
    <2> QED
      BY <2>1, <2>2
  <1>11. CASE UNCHANGED cliVars
    BY <1>0, <1>11 DEF cliVars, Pending, Answered, Settled, Publishing, EngineLine, RecordedStatus,
                       RecordIsWhatTheCallerHears
  <1> QED
    BY <1>1, <1>2, <1>3, <1>4, <1>5, <1>6, <1>7, <1>8, <1>9, <1>10, <1>11 DEF CliNext

LEMMA CliInvariant == CliSpec => []CliInv
  <1>1. CliInv /\ [CliNext]_cliVars => CliInv'
    BY NextCliTyped, NextPlaces DEF CliInv
  <1> QED
    BY <1>1, InitCli, PTL DEF CliSpec

\* The variables of an invocation and of the daemons keep their types.
THEOREM CliTypeCorrect == CliSpec => []CliTypeOK
  <1>1. CliInv => CliTypeOK
    BY DEF CliInv
  <1> QED
    BY <1>1, CliInvariant, PTL

\* The one line of telemetry an invocation leaves tells the status that its
\* exit code tells, for the bare verbs (run_spark's finally) as for the wrapped
\* ones (_publish_invocation), whatever fails on the way and whichever daemon
\* comes or goes.
THEOREM RecordIsWhatTheCallerHearsHolds == CliSpec => []RecordIsWhatTheCallerHears
  <1>1. CliInv => RecordIsWhatTheCallerHears
    BY DEF CliInv
  <1> QED
    BY <1>1, CliInvariant, PTL

=============================================================================
