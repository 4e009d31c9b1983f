--------------------------- MODULE MCMergeDigest ---------------------------
(***************************************************************************)
(* Small instances of MergeDigest and MergeEntry for TLC.  What a run reads *)
(* of one pull does not touch the record of the runs, so that the two are  *)
(* checked side by side: either the runs move, or one entry is built.      *)
(***************************************************************************)
EXTENDS MergeDigest, MergeEntry, TLC

CONSTANTS p1, p2

\* One repository, so that pulls share their pages.
Repository == <<"doctrine">>
Placed     == [p \in Pulls |-> "doctrine"]

\* Pulls of one repository are interchangeable.
Alike == Permutations({p1, p2})

BothInit == Init /\ EntryInit

BothNext ==
    \/ at = "idle" /\ Next /\ UNCHANGED entryVars
    \/ Init /\ EntryNext /\ UNCHANGED vars

BothSpec == BothInit /\ [][BothNext]_<<vars, entryVars>>
=============================================================================
