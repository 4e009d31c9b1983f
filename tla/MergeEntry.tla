---------------------------- MODULE MergeEntry ----------------------------
(***************************************************************************)
(* One entry of the digest: build_entry of merge_digest.py.                *)
(*                                                                         *)
(* A merged pull is reported with the commits it put on the branch (its    *)
(* span) and with what reverting it would cost now.  GitHub names neither  *)
(* the merge strategy nor the span: merge_span derives both by comparing   *)
(* the pull's commits with the branch's first-parent chain, as far as the  *)
(* requests succeed.  The cost comes from attempting the revert and from   *)
(* the pages of deployment records.                                        *)
(***************************************************************************)
EXTENDS Integers, SequencesExt

CONSTANTS
    Identities,   \* a commit as a rebase preserves it: subject, author, date
    MaxCommits,   \* bound: the commits of a pull
    MaxBelow,     \* bound: the commits under it on the branch
    ListCap,      \* the listing of a pull's commits ends here
    MaxRecords,   \* bound: the deployment records
    RecordsPage   \* per_page of their listing

ASSUME EntryAssumption ==
    /\ 0 \notin Identities
    /\ MaxCommits \in Nat \ {0} /\ MaxBelow \in Nat /\ ListCap \in Nat \ {0}
    /\ MaxRecords \in Nat /\ RecordsPage \in Nat \ {0}

VARIABLES
    at,        \* the request that is next
    pull,      \* the pull and its surroundings: no request tells all of it
    index,     \* the pull's commit that the walk down the branch expects next
    span,      \* MergeSpan
    git,       \* what git answers to the probe of the span
    page,      \* of the deployment records
    tier,      \* what the entry claims that reverting costs
    note       \* what it says of deployments

entryVars == <<at, pull, index, span, git, page, tier, note>>

-----------------------------------------------------------------------------
Strategies == {"merge", "squash", "rebase"}

\* A deployment record: older than the merge, of another revision or not of
\* production, or covering the merge with one of three states.
Records == {"older", "elsewhere", "shipped", "failed", "unreadable"}

\* Records are listed newest first.
Histories ==
    {d \in BoundedSeq(Records, MaxRecords) :
       \A i, j \in DOMAIN d : i < j /\ d[i] = "older" => d[j] = "older"}

\* reported: the pull's detail could be read, with its count of commits.
\* probed: digest probes the revert, announce does not.
Subjects ==
    [strategy : Strategies, own : BoundedSeq(Identities, MaxCommits) \ {<<>>},
     below : BoundedSeq(Identities, MaxBelow), reported : BOOLEAN, probed : BOOLEAN,
     deployed : Histories]

NoSubject == [strategy |-> "merge", own |-> <<>>, below |-> <<>>, reported |-> FALSE,
              probed |-> FALSE, deployed |-> <<>>]

\* The branch from the pull's merge_commit_sha down; 0 is a commit that GitHub
\* authors itself.  A pull of one commit keeps its identity under a squash.
Chain(p) ==
    CASE p.strategy = "rebase" -> Reverse(p.own) \o p.below
      [] p.strategy = "squash" /\ Len(p.own) = 1 -> p.own \o p.below
      [] OTHER -> <<0>> \o p.below

\* How many commits of the chain are the pull's.
Landed(p) == IF p.strategy = "rebase" THEN Len(p.own) ELSE 1

Listed(p) == SubSeq(p.own, 1, IF Len(p.own) > ListCap THEN ListCap ELSE Len(p.own))

Span(count, merge) == [count |-> count, merge |-> merge, undetermined |-> FALSE]
Undetermined       == [count |-> 1, merge |-> FALSE, undetermined |-> TRUE]

Spans == [count : Nat, merge : BOOLEAN, undetermined : BOOLEAN]

Reverts == {"applies", "noop", "conflicts"}
Answers == [ready : BOOLEAN, revert : Reverts, dependents : {"none", "some", "unknown"}]
NoAnswer == [ready |-> FALSE, revert |-> "applies", dependents |-> "unknown"]

Tiers == {"", "deployed", "conflicting", "unmeasured", "dependents", "clean"}

\* Nothing, shipped, that it is not known, or that no records are published.
Notes == {"", "deployed", "unknown", "unpublished"}

EntryTypeOK ==
    /\ at \in {"idle", "commit", "commits", "walk", "measure", "deployments", "done", "failed"}
    /\ pull.own \in Seq(Identities) /\ pull.deployed \in Seq(Records)
    /\ index \in 0..MaxCommits /\ span \in Spans /\ git \in Answers
    /\ page \in Nat \ {0} /\ tier \in Tiers /\ note \in Notes

EntryInit ==
    /\ at = "idle" /\ pull = NoSubject /\ index = 0 /\ span = Undetermined
    /\ git = NoAnswer /\ page = 1 /\ tier = "" /\ note = ""

-----------------------------------------------------------------------------
Take ==
    /\ at = "idle" /\ at' = "commit"
    /\ pull' \in Subjects
    /\ UNCHANGED <<index, span, git, page, tier, note>>

\* The span is known, or refused by name; announce goes no further.
Spanned(s) ==
    /\ span' = s
    /\ IF pull.probed THEN at' = "measure" /\ UNCHANGED tier
       ELSE at' = "done" /\ tier' = "unmeasured"
    /\ UNCHANGED <<pull, index, git, page, note>>

\* merge_span.  Every request may fail.
ReadCommit ==
    /\ at = "commit"
    /\ \/ Spanned(Undetermined)
       \/ pull.strategy = "merge" /\ Spanned(Span(1, TRUE))
       \/ pull.strategy # "merge" /\ ~pull.reported /\ Spanned(Undetermined)
       \/ pull.strategy # "merge" /\ pull.reported /\ Len(pull.own) = 1 /\ Spanned(Span(1, FALSE))
       \/ /\ pull.strategy # "merge" /\ pull.reported /\ Len(pull.own) > 1
          /\ at' = "commits" /\ UNCHANGED <<pull, index, span, git, page, tier, note>>

\* Slip: a listing that was cut is taken for the pull.
ReadCommitsSlip ==
    LET own == Listed(pull)
    IN  /\ at = "commits"
        /\ \/ Spanned(Undetermined)
           \/ Chain(pull)[1] # Last(own) /\ Spanned(Span(1, FALSE))
           \/ /\ Chain(pull)[1] = Last(own)
              /\ at' = "walk" /\ index' = Len(own) - 1
              /\ UNCHANGED <<pull, span, git, page, tier, note>>

ReadCommits ==
    LET own == Listed(pull)
        cut == Len(own) # Len(pull.own)
    IN  /\ at = "commits"
        /\ \/ Spanned(Undetermined)
           \/ ~cut /\ Chain(pull)[1] # Last(own) /\ Spanned(Span(1, FALSE))
           \/ /\ ~cut /\ Chain(pull)[1] = Last(own)
              /\ at' = "walk" /\ index' = Len(own) - 1
              /\ UNCHANGED <<pull, span, git, page, tier, note>>

\* The chain below the merge commit must spell the pull's commits backwards.
Walk ==
    LET own   == Listed(pull)
        depth == Len(own) - index + 1
        twin  == depth <= Len(Chain(pull)) /\ Chain(pull)[depth] = own[index]
    IN  /\ at = "walk"
        /\ \/ index = 0 /\ Spanned(Span(Len(own), FALSE))
           \/ index > 0 /\ Spanned(Undetermined)
           \/ /\ index > 0 /\ twin /\ index' = index - 1
              /\ UNCHANGED <<at, pull, span, git, page, tier, note>>

\* Slip: history that could not be read is no history.
CostSlip(a) ==
    IF ~a.ready THEN "unmeasured"
    ELSE IF a.revert = "noop" THEN "clean"
    ELSE IF a.revert = "conflicts" THEN "conflicting"
    ELSE IF a.dependents = "some" THEN "dependents" ELSE "clean"

\* RevertProbe._measure, in the order of its returns.
Cost(a) ==
    IF ~a.ready \/ a.dependents = "unknown" THEN "unmeasured"
    ELSE IF a.revert = "noop" THEN "clean"
    ELSE IF a.revert = "conflicts" THEN "conflicting"
    ELSE IF a.dependents = "some" THEN "dependents" ELSE "clean"

\* RevertProbe.cost: without a span nothing is attempted.
Measure ==
    /\ at = "measure" /\ at' = "deployments"
    /\ \/ span.undetermined /\ tier' = "unmeasured" /\ UNCHANGED git
       \/ /\ ~span.undetermined
          /\ \E a \in Answers : git' = a /\ tier' = Cost(a)
    /\ UNCHANGED <<pull, index, span, page, note>>

\* GitStepFailed: the whole repository is reported as UNREAD.
GitFails ==
    /\ at = "measure" /\ ~span.undetermined /\ at' = "failed"
    /\ UNCHANGED <<pull, index, span, git, page, tier, note>>

OnPage == LET first == (page - 1) * RecordsPage + 1
              last  == first + RecordsPage - 1
          IN  SubSeq(pull.deployed, first, IF last > Len(pull.deployed) THEN Len(pull.deployed) ELSE last)

\* The first record of a page that settles the question.
Settling(records) == SelectInSeq(records, LAMBDA d : d \in {"shipped", "unreadable"})

\* Slip: only the first page is read.
LastRecordsSlip(records) == TRUE
LastRecords(records) == Len(records) < RecordsPage \/ Contains(records, "older")

\* Slip: whatever the note says is the tier.
NotedSlip(n) ==
    /\ at' = "done" /\ note' = n /\ tier' = n
    /\ UNCHANGED <<pull, index, span, git, page>>

\* deployment_note: shipped state makes reverting dearest of all.
Noted(n) ==
    /\ at' = "done" /\ note' = n
    /\ tier' = IF n = "deployed" THEN "deployed" ELSE tier
    /\ UNCHANGED <<pull, index, span, git, page>>

\* Any page may be unreadable.
ReadDeployments ==
    LET records == OnPage
        first   == Settling(records)
    IN  /\ at = "deployments"
        /\ \/ Noted("unknown")
           \/ records = <<>> /\ Noted(IF page = 1 THEN "unpublished" ELSE "")
           \/ first # 0 /\ Noted(IF records[first] = "shipped" THEN "deployed" ELSE "unknown")
           \/ records # <<>> /\ first = 0 /\ LastRecords(records) /\ Noted("")
           \/ /\ records # <<>> /\ first = 0 /\ ~LastRecords(records)
              /\ page' = page + 1 /\ UNCHANGED <<at, pull, index, span, git, tier, note>>

EntryNext ==
    \/ Take \/ ReadCommit \/ ReadCommits \/ Walk \/ Measure \/ GitFails \/ ReadDeployments

EntrySpec == EntryInit /\ [][EntryNext]_entryVars

-----------------------------------------------------------------------------
(* Properties.                                                             *)

\* MergeSpan: a span is everything the merge put on the branch, or it is
\* refused; "the silent under-count" of a rebased pull never happens.
SpanIsWhole ==
    at \notin {"idle", "commit", "commits", "walk"} /\ ~span.undetermined =>
        /\ span.merge <=> pull.strategy = "merge"
        /\ span.count = Landed(pull)

\* "The one claim this file promises never to make": an entry that says clean
\* has reverted the whole of what landed, and has counted what came after.
CheapIsEarned ==
    at = "done" /\ tier = "clean" =>
        /\ ~span.undetermined /\ span.count = Landed(pull)
        /\ git.ready /\ git.revert # "conflicts" /\ git.dependents # "unknown"

\* deployment_note: "stopping at page one would leave shipped code in a cheaper
\* tier".  An entry that was probed never hides that its merge is in production.
ShippedIsTold ==
    at = "done" /\ pull.probed /\ Contains(pull.deployed, "shipped") =>
        tier = "deployed" \/ note = "unknown"

=============================================================================
