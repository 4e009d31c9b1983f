------------------------------- MODULE MCSpark -------------------------------
(***************************************************************************)
(* Small instances of RpcSession, SparkCli and LineReader for TLC.  The     *)
(* session a daemon keeps, one invocation of the command line and one file *)
(* that is read share no state and are checked side by side: only one of   *)
(* the three ever leaves its initial state.                                *)
(***************************************************************************)
EXTENDS RpcSession, SparkCli, LineReader

SessionIsNew == Init
NobodyCalls  == pc = "idle" /\ events = 0
NothingIsRead == task = "idle"

ApartInit == Init /\ CliInit /\ ReaderInit

ApartNext ==
    \/ NobodyCalls /\ NothingIsRead /\ Next /\ UNCHANGED <<cliVars, fileVars>>
    \/ SessionIsNew /\ NothingIsRead /\ CliNext /\ UNCHANGED <<vars, fileVars>>
    \/ SessionIsNew /\ NobodyCalls /\ ReaderNext /\ UNCHANGED <<vars, cliVars>>

\* What is fair is fair to the session; the other two state no liveness.
ApartSpec == ApartInit /\ [][ApartNext]_<<vars, cliVars, fileVars>> /\ Fairness
=============================================================================
