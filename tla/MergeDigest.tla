---------------------------- MODULE MergeDigest ----------------------------
(***************************************************************************)
(* The scheduled digest: .github/scripts/merge_digest.py, `digest'.        *)
(*                                                                         *)
(* Each run reads the merges of a window from every declared repository,   *)
(* page by page, and posts one report to #hive.  The window starts at the  *)
(* creation of the last successful run that posted: GitHub's record of the *)
(* workflow's own runs is the only state there is.  Runs may overlap, be   *)
(* dry, die anywhere, find a repository unreadable, and be run again under *)
(* the time they were first created at; meanwhile pulls are merged, closed,*)
(* touched, which moves them to the front of the listing, and reopened,    *)
(* which takes them from it.                                               *)
(***************************************************************************)
EXTENDS Integers, SequencesExt

CONSTANTS
    Pulls,            \* the pulls seats author, in all repositories
    RepoList,         \* weave-repos.json: the repositories in their order, each once
    RepoOf,           \* the repository of a pull
    Runs,             \* the runs of the workflow, in the order of their creation
    PageSize,         \* per_page
    BootstrapWindow,  \* BOOTSTRAP_WINDOW_HOURS
    Overrides,        \* what --since may say; MaxTime, later than any window, is as good as none
    MaxTime,          \* bound: how late it gets
    MaxActive,        \* bound: how many runs overlap
    MaxEvents,        \* bound: how often runs are run again, closed pulls touched or reopened
    Closable          \* bound: the pulls that may be closed without a merge

Repos == {RepoList[i] : i \in DOMAIN RepoList}

ASSUME DigestAssumption ==
    /\ RepoList \in Seq(STRING) /\ RepoList # <<>>
    /\ \A i, j \in DOMAIN RepoList : RepoList[i] = RepoList[j] => i = j
    /\ RepoOf \in [Pulls -> Repos]
    /\ IsFiniteSet(Pulls)
    /\ Runs \subseteq Nat /\ IsFiniteSet(Runs)
    /\ PageSize \in Nat \ {0} /\ BootstrapWindow \in Nat \ {0}
    /\ MaxTime \in Nat \ {0} /\ Overrides \subseteq 1..MaxTime /\ MaxActive \in Nat \ {0}
    /\ MaxEvents \in Nat /\ Closable \subseteq Pulls

VARIABLES
    now,
    mergedAt,   \* per pull: when it was merged, 0 while it is open
    touchedAt,  \* per pull: when it was last updated
    listing,    \* per repository: its closed pulls, merged or not, the last updated first
    run,        \* per run: GitHub's record of it and its own variables
    events,     \* how often a run was run again, a closed pull touched or reopened
    told,       \* the pulls #hive was told of
    disclosed,  \* where a window began that no watermark bounded, as its header told #hive
    slipped     \* per run: the pulls that moved past its reader; history, read by no action

pullVars == <<mergedAt, touchedAt, listing, slipped>>
hiveVars == <<told, disclosed>>
vars == <<now, pullVars, run, events, hiveVars>>

-----------------------------------------------------------------------------
States == {"none", "queued", "reading", "success", "failure"}
Times  == 0..MaxTime

\* since and first: the window, and whether it is the bootstrap window; repo,
\* page: the request the run makes next; found: the merges of the repositories
\* it has read, page by page; unread: the repositories it could not read.
Run == [state : States, created : Times, dry : BOOLEAN,
        since : -BootstrapWindow..MaxTime, first : BOOLEAN,
        repo : 1..(Len(RepoList) + 1), page : Nat, found : SUBSET Pulls,
        unread : SUBSET Repos]

NoRun == [state |-> "none", created |-> 0, dry |-> FALSE,
          since |-> 0, first |-> FALSE, repo |-> 1, page |-> 1, found |-> {}, unread |-> {}]

\* A repository that could not be read is UNREAD, and nothing is said of it.
UnreadIsSilent == \A r \in Runs : \A p \in run[r].found : RepoOf[p] \notin run[r].unread

TypeOK ==
    /\ now \in 1..MaxTime
    /\ mergedAt \in [Pulls -> Times] /\ touchedAt \in [Pulls -> Times]
    /\ listing \in [Repos -> Seq(Pulls)]
    /\ run \in [Runs -> Run] /\ events \in 0..MaxEvents
    /\ UnreadIsSilent
    /\ told \subseteq Pulls /\ disclosed \in -BootstrapWindow..MaxTime
    /\ slipped \in [Runs -> SUBSET Pulls]

Init ==
    /\ now = 1
    /\ mergedAt = [p \in Pulls |-> 0] /\ touchedAt = mergedAt
    /\ listing = [repo \in Repos |-> <<>>]
    /\ run = [r \in Runs |-> NoRun] /\ events = 0
    /\ told = {} /\ disclosed = -BootstrapWindow /\ slipped = [r \in Runs |-> {}]

-----------------------------------------------------------------------------
(* The world.                                                              *)

Event == events < MaxEvents /\ events' = events + 1

Tick ==
    /\ now < MaxTime /\ now' = now + 1
    /\ UNCHANGED <<pullVars, run, events, hiveVars>>

Closed(p) == \E i \in DOMAIN listing[RepoOf[p]] : listing[RepoOf[p]][i] = p

\* How many places of the listing the pages hold that q has turned.
Turned(q) == (q.page - 1) * PageSize

\* Between two pages of run r, p comes from a place ahead of its reader to one behind.
Slips(r, p) ==
    LET repo == RepoOf[p]
    IN  /\ run[r].state = "reading" /\ run[r].repo <= Len(RepoList) /\ RepoList[run[r].repo] = repo
        /\ \E i \in DOMAIN listing[repo] : Turned(run[r]) < i /\ listing[repo][i] = p
        /\ \E i \in DOMAIN listing'[repo] : i <= Turned(run[r]) /\ listing'[repo][i] = p

\* Pull p is updated, and its repository's listing becomes pulls.
Relisted(p, pulls) ==
    /\ touchedAt' = [touchedAt EXCEPT ![p] = now]
    /\ listing' = [listing EXCEPT ![RepoOf[p]] = pulls]
    /\ slipped' = [r \in Runs |-> slipped[r] \union {m \in Pulls : Slips(r, m)}]

Others(p) == RemoveFirst(listing[RepoOf[p]], p)

\* An update brings a closed pull to the front of the listing.
Touched(p) == Relisted(p, <<p>> \o Others(p))

Merge(p) ==
    /\ ~Closed(p)
    /\ mergedAt' = [mergedAt EXCEPT ![p] = now]
    /\ Touched(p)
    /\ UNCHANGED <<now, run, events, hiveVars>>

\* An open pull is closed without a merge.
Close(p) ==
    /\ p \in Closable /\ ~Closed(p)
    /\ Touched(p)
    /\ UNCHANGED <<now, mergedAt, run, events, hiveVars>>

\* Somebody comments on a closed pull.
Touch(p) ==
    /\ Closed(p) /\ Event
    /\ Touched(p)
    /\ UNCHANGED <<now, mergedAt, run, hiveVars>>

\* A pull that was closed without a merge is opened again.
Reopen(p) ==
    /\ Closed(p) /\ mergedAt[p] = 0 /\ Event
    /\ Relisted(p, Others(p))
    /\ UNCHANGED <<now, mergedAt, run, hiveVars>>

Active == {r \in Runs : run[r].state \in {"queued", "reading"}}

\* The schedule fires, or somebody dispatches a run, maybe a dry one.
Dispatch(r, dry) ==
    /\ run[r].state = "none" /\ Cardinality(Active) < MaxActive
    /\ \A q \in Runs : q < r => run[q].state # "none"
    /\ run' = [run EXCEPT ![r] = [NoRun EXCEPT !.state = "queued", !.created = now, !.dry = dry]]
    /\ UNCHANGED <<now, pullVars, events, hiveVars>>

\* A finished run is run again: it keeps the time of its creation.
Rerun(r) ==
    /\ run[r].state \in {"success", "failure"} /\ Cardinality(Active) < MaxActive
    /\ Event
    /\ run' = [run EXCEPT ![r] = [NoRun EXCEPT !.state = "queued", !.created = run[r].created,
                                               !.dry = run[r].dry]]
    /\ UNCHANGED <<now, pullVars, hiveVars>>

-----------------------------------------------------------------------------
(* A run.                                                                  *)

\* _run_posted_digest.  Slip: a dry run counts as a report.
PostedSlip(r) == TRUE
Posted(r) == ~run[r].dry

\* window_start: the successful runs that posted, of which the newest counts.
Watermarks == {r \in Runs : run[r].state = "success" /\ Posted(r)}

WindowStart(r) ==
    LET marks == Watermarks \ {r}
    IN  IF marks = {} THEN now - BootstrapWindow ELSE run[Max(marks)].created

\* resolve_window.  Slip: the override is taken as it is.
ResolvedSlip(start, override) == override
Resolved(start, override) == IF override > start THEN start ELSE override

\* The run starts, with or without an explicit --since.
Start(r, override) ==
    LET start == WindowStart(r)
    IN  /\ run[r].state = "queued"
        /\ run' = [run EXCEPT ![r].state = "reading", ![r].first = Watermarks \ {r} = {},
                              ![r].since = Resolved(start, override)]
        /\ UNCHANGED <<now, pullVars, events, hiveVars>>

Page(r) ==
    LET pulls == listing[RepoList[run[r].repo]]
        first == Turned(run[r]) + 1
    IN  SubSeq(pulls, first, Min({first + PageSize - 1, Len(pulls)}))

\* merged_pulls_since: a page that is short, or ends before the window, is the last.
\* Slip: the merge dates decide.
LastPageSlip(r) == Page(r) = <<>> \/ \E i \in DOMAIN Page(r) : mergedAt[Page(r)[i]] < run[r].since
LastPage(r) ==
    \/ Len(Page(r)) < PageSize
    \/ touchedAt[Page(r)[Len(Page(r))]] < run[r].since

Wanted(r) ==
    {p \in Pulls : /\ \E i \in DOMAIN Page(r) : Page(r)[i] = p
                   /\ mergedAt[p] # 0 /\ mergedAt[p] >= run[r].since}

NextRepo(r) == [run[r] EXCEPT !.repo = @ + 1, !.page = 1]

Reading(r) == run[r].state = "reading" /\ run[r].repo <= Len(RepoList)

\* The entries of a repository count once all its pages and pulls are read.
ReadPage(r) ==
    LET rest == IF LastPage(r) THEN NextRepo(r) ELSE [run[r] EXCEPT !.page = @ + 1]
    IN  /\ Reading(r)
        /\ run' = [run EXCEPT ![r] = [rest EXCEPT !.found = @ \union Wanted(r)]]
        /\ UNCHANGED <<now, pullVars, events, hiveVars>>

\* Slip: what was read of it so far is reported.
UnreadSlip(r) ==
    /\ Reading(r)
    /\ run' = [run EXCEPT ![r] = [NextRepo(r) EXCEPT !.unread = @ \union {RepoList[run[r].repo]}]]
    /\ UNCHANGED <<now, pullVars, events, hiveVars>>

\* An HTTP error, an unexpected payload or a git step that never ended: the
\* repository is reported as UNREAD, with nothing of what was read of it.
Unread(r) ==
    LET repo == RepoList[run[r].repo]
    IN  /\ Reading(r)
        /\ run' = [run EXCEPT ![r] = [NextRepo(r) EXCEPT !.unread = @ \union {repo},
                                        !.found = {p \in @ : RepoOf[p] # repo}]]
        /\ UNCHANGED <<now, pullVars, events, hiveVars>>

\* What GitHub keeps of a run that is over.
Over(r, state) ==
    [NoRun EXCEPT !.state = state, !.created = run[r].created, !.dry = run[r].dry]

\* Slip: a report that names unreadable repositories is a success.
VerdictSlip(r) == "success"
Verdict(r) == IF run[r].unread = {} THEN "success" ELSE "failure"

\* emit, then the run's own verdict: an incomplete report is a failed run.
Post(r) ==
    /\ run[r].state = "reading" /\ ~Reading(r)
    /\ run' = [run EXCEPT ![r] = Over(r, Verdict(r))]
    /\ IF run[r].dry THEN UNCHANGED hiveVars
       ELSE /\ told' = told \union run[r].found
            /\ disclosed' = IF run[r].first THEN Max({disclosed, run[r].since}) ELSE disclosed
    /\ UNCHANGED <<now, pullVars, events>>

\* Any other error, a lost runner, or Slack failing after some of the messages.
Dies(r) ==
    /\ run[r].state = "reading"
    /\ run' = [run EXCEPT ![r] = Over(r, "failure")]
    /\ \/ UNCHANGED told
       \/ /\ ~Reading(r) /\ ~run[r].dry
          /\ \E some \in SUBSET run[r].found : told' = told \union some
    /\ UNCHANGED <<now, pullVars, events, disclosed>>

Steps(r) ==
    \/ \E override \in Overrides : Start(r, override)
    \/ ReadPage(r) \/ Unread(r) \/ Post(r) \/ Dies(r)

Next ==
    \/ Tick
    \/ \E p \in Pulls : Merge(p) \/ Close(p) \/ Touch(p) \/ Reopen(p)
    \/ \E r \in Runs : Rerun(r) \/ Steps(r) \/ \E dry \in BOOLEAN : Dispatch(r, dry)

Spec == Init /\ [][Next]_vars

-----------------------------------------------------------------------------
(* Properties.                                                             *)

\* "A merge reported never is the failure this whole ticket exists to prevent":
\* whatever was merged before a watermark was told to #hive, or a report said
\* that its time is not covered.  Only a pull that moved past a run between two
\* of its pages, itself touched or behind one that was reopened, is lost.
EveryMergeIsAccounted ==
    \A w \in Watermarks, p \in Pulls :
        mergedAt[p] \in 1..(run[w].created - 1) =>
            p \in told \/ mergedAt[p] < disclosed \/ \E r \in Runs : p \in slipped[r]

\* merged_pulls_since: "exact here".  A run that comes to its end has found, in
\* every repository it could read, the merges from its window's start up to its
\* own creation, but for pulls that moved past it, and nothing older.
ReportsAreExact ==
    [][\A r \in Runs :
         run[r].state = "reading" /\ run'[r].state = "success" =>
            /\ \A p \in Pulls : mergedAt[p] # 0 /\ mergedAt[p] >= run[r].since
                               /\ mergedAt[p] < run[r].created => p \in run[r].found \union slipped[r]
            /\ \A p \in run[r].found : mergedAt[p] >= run[r].since]_vars

=============================================================================
