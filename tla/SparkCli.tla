----------------------------- MODULE SparkCli -----------------------------
(***************************************************************************)
(* One invocation of `afford spark': the verbs of cli.py over run_spark of *)
(* engine.py, with the daemons that may come and go on the socket's path.  *)
(*                                                                         *)
(* The transport is chosen once, by a probe; the connection is made later. *)
(* The model's answer is validated, and for `slice' and `transform' the    *)
(* wrapper audits it and may downgrade it.  One line of telemetry is       *)
(* written on the way out, by the engine or by the wrapper.                *)
(***************************************************************************)
EXTENDS Integers, Sequences

CONSTANTS
    Daemons,    \* processes that may serve on the path (daemon.py)
    NoDaemon,   \* none of them
    MaxEvents   \* bound: how often a daemon starts or stops

ASSUME CliAssumption == NoDaemon \notin Daemons /\ MaxEvents \in Nat

VARIABLES
    bound,      \* whose listening socket the path names; NoDaemon: no path
    up,         \* the daemons that serve
    events,     \* starts and stops of daemons so far
    pc,         \* where the invocation is
    verb, mode, \* its arguments: the command, and AFFORD_SPARK_TRANSPORT
    transport,  \* what it chose
    peer,       \* the daemon it is connected to
    answer,     \* what came of the call: a state of the result, or a failure
    hashed,     \* there is a response whose hash can be recorded
    records,    \* the lines of telemetry it wrote
    failing,    \* an exception or an exit is on its way out
    exit        \* its exit code

daemonVars == <<bound, up, events>>
callVars == <<verb, mode, transport, peer, answer, hashed, records, failing, exit>>
cliVars == <<daemonVars, pc, callVars>>

-----------------------------------------------------------------------------
Verbs    == {"locate", "slice", "transform", "triage"}
Wrapped  == {"slice", "transform"}    \* the wrapper owns the record
Modes    == {"auto", "oneshot", "daemon", "misspelt"}
ResultStatus  == {"complete", "incomplete", "ambiguous", "refused"}
Failures == {"unavailable", "timeout", "protocol_error"}

\* broken: the connection, codex's output or the worktree; error: the wrapper's own
\* audit or record.
Answers == ResultStatus \union Failures \union {"none", "broken", "error"}

ExitCode(status) ==
    CASE status = "complete" -> 0 [] status = "incomplete" -> 3
      [] status = "ambiguous" -> 4 [] status = "refused" -> 5 [] OTHER -> 1

Record == [transport : {"none", "oneshot", "daemon"}, status : Answers, hashed : BOOLEAN]

CliTypeOK ==
    /\ bound \in Daemons \union {NoDaemon} /\ up \subseteq Daemons /\ events \in 0..MaxEvents
    /\ pc \in {"idle", "prepare", "probe", "connect", "call", "exec", "validate", "left", "audit",
               "publish", "over"}
    /\ verb \in Verbs /\ mode \in Modes /\ transport \in {"none", "oneshot", "daemon"}
    /\ peer \in Daemons \union {NoDaemon} /\ answer \in Answers /\ hashed \in BOOLEAN
    /\ records \in Seq(Record) /\ failing \in BOOLEAN /\ exit \in 0..5

CliInit ==
    /\ bound = NoDaemon /\ up = {} /\ events = 0
    /\ pc = "idle" /\ verb = "locate" /\ mode = "auto" /\ transport = "none"
    /\ peer = NoDaemon /\ answer = "none" /\ hashed = FALSE /\ records = <<>>
    /\ failing = FALSE /\ exit = 0

-----------------------------------------------------------------------------
(* Daemons without systemd: they own the path they bound.                  *)

Event == events < MaxEvents /\ events' = events + 1 /\ UNCHANGED <<pc, callVars>>

\* _listen: a socket found on the path is replaced, live or not.
Listen(d) ==
    /\ Event /\ d \notin up
    /\ up' = up \union {d} /\ bound' = d

\* serve's finally, or _watch_child: the path is unlinked, whoever bound it.
Stop(d) ==
    /\ Event /\ d \in up
    /\ up' = up \ {d} /\ bound' = NoDaemon

\* Killed: the path stays behind, with nobody listening.
Killed(d) ==
    /\ Event /\ d \in up
    /\ up' = up \ {d} /\ UNCHANGED bound

Connectable == bound \in up

-----------------------------------------------------------------------------
(* The engine: run_spark.                                                  *)

Invoke(v, m) ==
    /\ pc = "idle" /\ pc' = IF v = "transform" THEN "prepare" ELSE "probe"
    /\ verb' = v /\ mode' = m
    /\ UNCHANGED <<daemonVars, transport, peer, answer, hashed, records, failing, exit>>

\* transform's worktree: it may not be created, or lack an allowlisted path,
\* which is an error of usage.
Prepare ==
    /\ pc = "prepare"
    /\ \/ pc' = "probe" /\ UNCHANGED <<answer, failing, exit>>
       \/ pc' = "publish" /\ answer' = "broken" /\ failing' = TRUE /\ exit' \in {1, 2}
    /\ UNCHANGED <<daemonVars, verb, mode, transport, peer, hashed, records>>

\* The call is over: a response to validate, or an exception.
Gets(a) ==
    /\ pc' = IF a \in ResultStatus THEN "validate" ELSE "left"
    /\ answer' = a /\ failing' = (a \notin ResultStatus)
    /\ hashed' = (a \in ResultStatus)
    /\ UNCHANGED <<daemonVars, verb, mode, records, exit>>

\* choose_transport: auto asks whether the socket is connectable now.
\* A wrong mode is a record without a transport.
Probe ==
    /\ pc = "probe"
    /\ \/ /\ mode = "misspelt" /\ Gets("protocol_error") /\ UNCHANGED <<transport, peer>>
       \/ /\ mode \in {"oneshot", "auto"} /\ (mode = "auto" => ~Connectable)
          /\ transport' = "oneshot" /\ pc' = "exec"
          /\ UNCHANGED <<daemonVars, verb, mode, peer, answer, hashed, records, failing, exit>>
       \/ /\ mode \in {"daemon", "auto"} /\ (mode = "auto" => Connectable)
          /\ transport' = "daemon" /\ pc' = "connect"
          /\ UNCHANGED <<daemonVars, verb, mode, peer, answer, hashed, records, failing, exit>>

\* request_daemon: the path is opened now.  A socket nobody accepts on is a
\* refused call, never a call by another transport.
Connect ==
    /\ pc = "connect"
    /\ \/ ~Connectable /\ Gets("unavailable") /\ UNCHANGED <<transport, peer>>
       \/ /\ Connectable /\ peer' = bound /\ pc' = "call"
          /\ UNCHANGED <<daemonVars, verb, mode, transport, answer, hashed, records, failing, exit>>

\* The daemon answers, or the connection breaks under the call.
Call ==
    /\ pc = "call" /\ UNCHANGED <<transport, peer>>
    /\ \/ peer \in up /\ \E a \in ResultStatus \union Failures : Gets(a)
       \/ Gets("broken")

\* _run_via_exec; what codex writes may not even be text.
Exec ==
    /\ pc = "exec" /\ UNCHANGED <<transport, peer>>
    /\ \E a \in ResultStatus \union Failures \union {"broken"} : Gets(a)

\* The result model's own validation: a malformed response keeps its hash,
\* unless it is empty.
Validate ==
    /\ pc = "validate" /\ pc' = "left"
    /\ \/ UNCHANGED <<answer, failing, hashed>>
       \/ answer' = "protocol_error" /\ failing' = TRUE /\ hashed' \in BOOLEAN
    /\ UNCHANGED <<daemonVars, verb, mode, transport, peer, records, exit>>

\* What a record says of an exception that is not the engine's own.
RecordedStatus(a) == IF a \in {"broken", "error"} THEN "none" ELSE a

\* Slip: the transport that was asked for.
LineSlip(status) == [transport |-> mode, status |-> status, hashed |-> hashed]
Line(status) == [transport |-> transport, status |-> status, hashed |-> hashed]

\* emit_invocation may fail: alone it ends the command, on the way out of a
\* failure it is only reported.
Emit(status, next) ==
    \/ /\ records' = Append(records, Line(status))
       /\ pc' = next /\ UNCHANGED <<answer, failing>>
    \/ /\ UNCHANGED records /\ pc' = next /\ failing' = TRUE
       /\ answer' = IF failing THEN answer ELSE "error"

\* The engine's finally.  Slip: it writes for the wrapped verbs, too.
LeaveSlip ==
    /\ pc = "left"
    /\ Emit(RecordedStatus(answer), IF verb \in Wrapped THEN "audit" ELSE "publish")
    /\ UNCHANGED <<daemonVars, verb, mode, transport, peer, hashed, exit>>

Leave ==
    /\ pc = "left"
    /\ IF verb \in Wrapped THEN pc' = "audit" /\ UNCHANGED <<answer, records, failing>>
       ELSE Emit(RecordedStatus(answer), "publish")
    /\ UNCHANGED <<daemonVars, verb, mode, transport, peer, hashed, exit>>

-----------------------------------------------------------------------------
(* The wrapper: slice and transform.                                       *)

\* _owned_slice, _render_slice, _owned_transform: what the audit makes of the
\* model's word.  Whatever breaks the rules is refused; a completion without
\* its evidence is incomplete.
Audited(a) ==
    {a, "refused"} \union (IF a = "complete" THEN {"incomplete"} ELSE {})

\* The audit reads files and git again, and they may have changed: an error of
\* its own leaves the record without a status.
Audit ==
    /\ pc = "audit" /\ pc' = "publish"
    /\ \/ failing /\ UNCHANGED <<answer, failing, hashed>>
       \/ ~failing /\ \E a \in Audited(answer) : answer' = a /\ UNCHANGED <<failing, hashed>>
       \/ ~failing /\ answer' = "error" /\ failing' = TRUE /\ hashed' = FALSE
    /\ UNCHANGED <<daemonVars, verb, mode, transport, peer, records, exit>>

\* A wrapper calls a broken connection or worktree an error.
WrapperStatus(a) == IF a = "broken" THEN "error" ELSE RecordedStatus(a)

\* _publish_invocation, and the exit.
Publish ==
    /\ pc = "publish"
    /\ IF verb \in Wrapped THEN Emit(WrapperStatus(answer), "over")
       ELSE pc' = "over" /\ UNCHANGED <<answer, records, failing>>
    /\ exit' = IF ~failing' THEN ExitCode(answer) ELSE IF exit = 2 THEN 2 ELSE 1
    /\ UNCHANGED <<daemonVars, verb, mode, transport, peer, hashed>>

CliNext ==
    \/ \E d \in Daemons : Listen(d) \/ Stop(d) \/ Killed(d)
    \/ \E v \in Verbs, m \in Modes : Invoke(v, m)
    \/ Prepare \/ Probe \/ Connect \/ Call \/ Exec \/ Validate \/ Leave \/ Audit \/ Publish

CliSpec == CliInit /\ [][CliNext]_cliVars

-----------------------------------------------------------------------------
(* Properties.                                                             *)

\* "One record, describing the result the caller actually receives": at most
\* one line is written, none is missing unless writing failed, and its status
\* is the one the exit code tells.
RecordIsWhatTheCallerHears ==
    pc = "over" =>
        /\ Len(records) <= 1
        /\ records = <<>> => exit \in {1, 2}
        /\ \A i \in DOMAIN records :
              IF exit = 2 THEN records[i].status = "error"
              ELSE /\ exit = ExitCode(records[i].status)
                   /\ exit # 1 => records[i].hashed /\ records[i].transport # "none"

=============================================================================
