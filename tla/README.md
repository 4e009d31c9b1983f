# Verification of agent-affordances

TLA+ models of the programs of this repository that keep state or run concurrently, with TLC instances that check them and
TLAPS proofs about all of them:

* **afford-sparkd** (`spark/src/afford_spark`): a daemon that keeps one `codex app-server` warm and serves short-lived callers over a Unix socket, strictly one turn at a time and within one deadline per request.
* **afford spark** (the same package): the command line in front of it, which picks a transport, audits what the model says and leaves one line of telemetry.
* **the review loop** (`.github/scripts/review_loop.py`, `.github/workflows/review-loop.yml`): GitHub Actions runs that route verdicts on a pull request to agent seats over Slack, summon reviewers and reconcile whatever was dropped.
* **the merge digest** (`.github/scripts/merge_digest.py`): scheduled runs that tell #hive of every merge and of what reverting it would cost.

## Inventory

| Part | State it keeps | Operations | Hard behaviour | What makes it correct |
|---|---|---|---|---|
| Daemon process: `daemon.py`, systemd units | child process, listening socket, serial lock | `serve`, `_handle_conn`, `_dispatch`, `_watch_child` | thread per connection; the child may die at any time; `os._exit`, restart; backlog kept by systemd | one call at a time; the lock always comes back; every request is answered or dies with the process |
| Call: `CodexAppServer.invoke` | deadline, reserve, thread id, turn id | auth hop, `thread/start`, `turn/start`, wait, interrupt, archive, unsubscribe | every hop may expire, be refused or find the session dead; notifications of abandoned turns share one queue | the answer is the call's own; what was opened is dropped; the deadline bounds everything |
| JSON-RPC session: `request`, `_send`, `_read_loop`, `_dispatch` | `_pending`, `_next_id`, `_dead`, `_write_lock`, two pipes | request, reply, server request, death sweep | two threads interleave between bytecodes; bounded pipes; late replies | a reply reaches the call it answers; every call returns; nobody waits on a dead session |
| Client: `client.request_daemon` | one socket, one timeout | connect, send, receive | its clock starts before the daemon's | whoever is still in budget hears the answer |
| Engine: `engine.py`, `protocol.py` | telemetry file | choose a transport, run once, classify | the socket is probed, then connected to; daemons come and go on its path | one record, of what the caller hears |
| CLI: `cli.py` | none | line windows, audits, owned edits | lines straddle reads; the wrapper may overrule the model after the call | the lines are those of the file; a downgrade is what is recorded |
| Review loop, routes | markers on the PR, messages in #hive | `route_review`, `route_clean_comment` | head moves, PR closes or is retargeted under a run; Slack and GitHub fail between two posts | nobody is told of what is no longer so; CLEAN names its subject |
| Review loop, scans | the same | `nudge_stalled_reviews`, `summon_on_push`, `summon_on_refusal`, `redeliver_standing_wake` | a run works from a snapshot while others publish; a pending run is cancelled by the next | nothing is said twice, dropped verdicts are said once, stops are respected |
| Review loop, substitutes and chases | the same | `route_substitute_verdict`, `chase_*` | a second stream of verdicts joins the first; a receipt dates the window of a chase; the PR may close | testimony is only chased where it was asked for and is missing |
| Merge digest: `merge_digest.py` | GitHub's record of its own runs | window, listing, span, cost, report | runs overlap, die, are dry or run again; repositories are unreadable; a squash and a rebase look alike | no merge is lost; no span is too short; nothing is called cheap unmeasured |
| linear-reads | none | read-only queries | pagination only | not modelled: sequential and stateless |

Parts interact as follows.  A client talks to a handler thread of the daemon over the socket (`Connect`, `Accept`, `Deliver`); handler threads share the lock, the session and its event queue; the session talks to the child over two pipes.  Review-loop runs interact only through what they read and write on GitHub; Slack is write-only.

## Modules

| Module | What it is |
|---|---|
| `Sparkd` | Daemon, callers, the phases of `invoke` and the app-server's turns, with time |
| `SparkdProofs` | TLAPS proofs about `Sparkd`: locks and clocks; threads, texts and teardown |
| `RpcSession` | The session under one hop: `request` against the reader thread, one access to shared memory per step |
| `RpcCalls` | What `request` promises its callers; `RpcSession` implements it |
| `RpcSessionProofs` | TLAPS proofs about `RpcSession`, and of the refinement |
| `ReviewLoop` | One pull request, the runs of its three concurrency groups, and the world around it |
| `ReviewLoopProofs`, `ReviewLoopToldProofs` | TLAPS proofs about `ReviewLoop`: what a run may publish; what is said in #hive |
| `SparkCli` | One invocation of a verb: transport, call, audit, record, and the daemons on the path |
| `SparkCliProofs` | TLAPS proofs about `SparkCli` |
| `LineReader` | The streaming line reader of `slice` and its two consumers |
| `LineReaderProofs` | TLAPS proofs about `LineReader` |
| `MergeDigest` | The digest's runs, windows and watermark |
| `MergeDigestProofs` | TLAPS proofs about `MergeDigest` |
| `MergeEntry` | One entry of the digest: span, cost of reverting, deployments |
| `MergeEntryProofs` | TLAPS proofs about `MergeEntry` |
| `MCSparkd`, `MCSpark`, `MCReviewLoop`, `MCMergeDigest` | instances for TLC |

`MCSpark` checks three modules and `MCMergeDigest` two side by side, that is in one state space where only one of them ever leaves its initial state: they share no state, and each property speaks of one of them.

### Sparkd

State: `daemon`, `boots` for the process; `dead`, `childAlive`, `authMethod`, `events` for the session; `holder` is the serial lock; per client the caller (`client`, `patience`), the program counter of its handler (`pc`: `queued`, then the hop it waits in, then `reply`), the clocks (`left` to the request's deadline, `reserve`, `dropLeft`, `hopLeft`) and what it learned (`threadId`, `turnKnown`, `tried`, `verdict`, `answer`).  `srv` is the turn as the app-server sees it.

The code keeps absolute `time.monotonic` deadlines and uses only their distance from now.  The model keeps the distances.  `Tick` lowers all of them together, only while somebody waits, and never past an expiry nobody has acted on: computing takes no time, waiting does.  `_remaining` is `Remaining`, with its floor; `min(CAP, FRACTION * remaining)` is `ReserveAt`.

One action per way a hop ends: answered (`AuthOk`, `ThreadOk`, `TurnOk`, `TakeEvent`, `Interrupted`, `Archived`, `Unsubscribed`), refused or failed (`RpcFails`, `TeardownRefused`), expired (`Expires`), session dead (`WaitFindsDead`, `RpcFails`).  An exception takes `Abandon` (interrupt when the turn's id is known, then `_drop`), the `finally` takes `BeginDrop`, and `Finish` is `_dispatch` mapping the outcome and releasing the lock.  `ReaderLost` is the one step imported from `RpcSession`: a reply that meets an expiring request kills the reader thread.

Not in the model: what prompts and replies say (a reply carries whose turn it is and which ids it has), the socket path of a daemon started without systemd (it is in `SparkCli`), `accept()` failing, blocking writes (they are in `RpcSession`).

### RpcSession and RpcCalls

`request` is split at each access to `_pending`, `_dead`, the lock and the pipe; the reader thread likewise, so that looking an id up and popping it are two steps.  Pipes hold `StdinCap` and `StdoutCap` lines.  The child reads, answers in any order or never, asks back, or exits.  Notifications are `Sparkd`'s subject.  One thread makes requests at a time: that is `SerialCalls`, proved for `Sparkd`; boot is single-threaded.

`RpcCalls` says what callers may rely on: calls are made in order, each ends once, in its own answer, in a failure or in a timeout, and none begins on a dead session.  `ImplementsRpcCalls` is the refinement, under `status <- Status(k)`, `down <- dead`.

### ReviewLoop

`log` is everything that ever happened to the PR, in order: pushes, verdicts (of Codex, or by a substitute), holds, refusals, testimony, and every marker the loop posts.  A position in the log is a time, the identity of a review or comment, and a snapshot: a run that read the PR at `n` knows `1..n`.  `sent` is the set of messages in #hive, which no run can read.  `run[g]` is the run that group `g` executes and `pending[g]` its one waiting place; `Arrive` cancels whoever waits there, as GitHub does.

A run reads (`StartScan`, `StartRoute`), re-reads the PR (`Refresh`), makes sure of the base pin (`EnsurePin`, `PostPin`), decides (`Routed`, `Calls`), looks for retargets (`CheckClosure`) or for the gate (`EnsureGate`), re-reads the verdict (`CheckHeld`), the testimony (`CheckOwed`) or only the PR (`CheckLive`, `CheckAgain`), publishes (`Post`, `Send`) and records (`Mark`).  `Crash` ends it anywhere: what it published stays.  From outside come pushes (also back to an earlier commit), closing, retargets, holds, verdicts of Codex and of substitutes on any head that was pushed, testimony, quota refusals and comments whose only effect is to take the waiting place.

The three routes (`route_review`, `route_clean_comment`, `route_substitute_verdict`) do the same things in the same order and are one chain of actions; what tells them apart is the kind of verdict and, for `Refused`, `Standing` and `Routed`, who spoke (`IsCodex`).  The chase of a retrospective is a task of every scan, decided by `Owed`; since a receipt implies a gate, such a scan does nothing else.  A closed PR is reached by the sweep alone (`Chasing`).

Abstractions: one PR; its author is a seat and no path rule exempts it; reads that follow one another directly are one step (a page of comments that is older than the page of reviews before it is not modelled); a clean verdict of Codex is its clean comment, findings and empty verdicts are reviews; the kinds of recorded dispositions are one, `hold`, beside `skip`; the usage meter may say anything; a wake of several messages may or may not need its second liveness check (one chunk is sent directly); a closed PR stays within the horizon of 48 hours.  Not modelled: gates of an older policy, forged and malformed markers, telemetry, the terminal sweep.  Comments the loop and the seats post themselves fire `issue_comment` too: they are `Comment`.

### SparkCli

`bound` is whose socket the path names and `up` who serves: `Listen` replaces whatever it finds, `Stop` unlinks whoever's it is, `Killed` leaves the path behind.  One invocation walks through `Invoke`, `Prepare` (transform's worktree), `Probe`, `Connect` and `Call` or `Exec`, `Validate`, `Leave` (the engine's `finally`), `Audit` and `Publish` (the wrapper's).  `answer` is the state of the result or the failure, `failing` an exception on its way out, `records` the lines written.  What the audits compute is abstracted to the outcomes they can have (`Audited`); writing the telemetry may fail anywhere.

### LineReader

`Open` picks a file, a span, the deepest line that any span of the same path ends in, a chunk size and one of the two consumers.  The generator `_iter_line_pieces` and its consumer are one thread, and a step is what happens between two places where they hand over: `ReadChunk` reads, `YieldHeld`, `YieldLine` and `YieldLeft` yield a piece and run the consumer's loop body on it, `ReadEnd` is the generator's return.  `held` is the line that a read cut off at its `\r`, `chunk` what is left of the read in hand.  `Counted` is the loop body of `_count_lines_upto` and `Taken` that of `_span_bytes`, for one of the spans that share the pass; `over` is their `break` or the end.

Bytes are `x`, `\r` and `\n`, which is all that the code tells apart.  `LineEnds` is where `bytes.splitlines(keepends=True)` ends a line: the code applies it to a chunk (`FirstLine`), the properties to the whole file (`LineOf`, `LineCount`).

### MergeDigest

The only state of the digest is GitHub's: which runs succeeded, which were dry, when they were created (`run`).  `listing` is, for each repository, its closed pulls, merged or not, in the order of their updates: `Merge` and `Close` put a pull at the front, `Touch` moves one there, `Reopen` takes out one that was not merged.  A run asks for pages of it by number, so that a pull may come from a place ahead of its reader to one behind (`Slips`) and is never seen; `slipped` keeps those pulls for each run, over all its attempts, for the properties, and no action reads it.  What a moved pull does to the runs under way is the same whichever action moved it (`Relisted`).  `RepoList` names each repository once (`DigestAssumption`): `load_repos` does not check that, and `Unread` drops what the run found in a repository, which is right only if it reads it once.  A run starts (`Start`: window and override), reads each repository page by page (`ReadPage`), finds one unreadable (`Unread`), posts and succeeds or fails by its own verdict (`Post`), or dies, maybe after some messages (`Dies`).  `Dispatch` and `Rerun` are GitHub; a run that is run again keeps its creation.  `told` is what #hive was told; `disclosed` is how far back a bootstrap window's header admitted to look.  Not modelled: the text of the report, redaction, the seat filter (`Pulls` are those that pass it), the announcement of single merges.

### MergeEntry

`pull` is a merged pull with all that is true of it: how it was merged, its commits, what lies under it, its deployment records.  The program learns of it by requests, each of which may fail: `ReadCommit`, `ReadCommits` and `Walk` are `merge_span`, `Measure` is `RevertProbe.cost`, `ReadDeployments` is `deployment_note` page by page.  What GitHub's merges look like (`Chain`, `Landed`) is external.  An identity is what a rebase preserves (subject, author and author's date), so that two commits may share one.

## Runs

`Sparkd` (deadlock is not checked: with everybody answered, or the process down for the last time, the system really stops).

| Run | Question and bounds |
|---|---|
| `sparkd_safety` | Two interchangeable callers, completions that carry a thread id, a turn id, both or neither, replies with or without a turn id.  Timeout 2, every budget at least one tick: enough for a call to be abandoned in any phase and its turn to complete during the next call.  `SerialCalls`, `KnownIdentityDecides`, `ThreadsAreDropped`, `DeliveredIsDropped`. |
| `sparkd_budget` | One caller, since a queue only shortens the time left, with Timeout 6 so that every hop can take time, three boots, all four shapes of completion.  `HopsEndInBudget`, `WithinBudget`, `PromptCallersAreHeard`: these are the ones proved for all values. |
| `sparkd_live` | Two callers with the smallest clocks; nothing is assumed of the app-server.  `LockComesBack`, `QueuedAreAnswered`. |
| `sparkd_drop` | finding 1 |
| `sparkd_answer` | finding 4; replies without a turn id, completions with nothing else |

`RpcSession`, `SparkCli` and `LineReader`, side by side (a session whose calls are used up stops, an invocation ends and a file is read to its end, so deadlock is not checked).

| Run | Question and bounds |
|---|---|
| `spark_calls` | The session: three calls (one expired, one whose reply is late, one more to receive it), one server request, a pipe with room for all of them.  One invocation: all verbs and modes, two daemons, four starts and stops: enough for a second daemon to take the path and either to unlink it before, between and after probe and connect.  The reader: every file of up to five bytes in chunks of one, two and three, every span up to one line past its end, alone or with a deeper one: a `\r\n` meets every boundary of reads, spans and the file, and a held line of two bytes either. |

`ReviewLoop` (a closed PR without runs stops, so deadlock is not checked).

| Run | Question and bounds |
|---|---|
| `loop_safety` | Two heads, one of them with a `Review-skip` trailer, all kinds of outside events, two of them at a time, one failed run, MaxRounds 1 so that gates, retrospectives and both attempts of their chase happen.  Two events are what the races need: one that starts a run and one that overtakes it (a substitute's verdict during a redelivery of Codex's, testimony or a push during a chase, a close before one); sweeps come for free. |
| `loop_clean` | One head, three events among verdicts, retargets and comments, no failures: findings, a later clean, a retarget there and back, or an evicted run. |
| `loop_live` | Two heads, pushes and verdicts, one failed run, MaxRounds 2, fairness. |
| `loop_bound` | finding 2 |
| `loop_empty` | finding 3; three verdicts, among them an empty review |

`MergeDigest` and `MergeEntry` (when all runs are over and time is up, nothing happens any more, so deadlock is not checked).

| Run | Question and bounds |
|---|---|
| `digest` | Two runs that may overlap, two interchangeable pulls of one repository on pages of one entry, both of which may be closed without a merge, three points in time, an override and none, and one event: a run is run again, or a closed pull is touched or reopened.  A loss needs one merge, one run that passes it by and one later run whose window excludes it; that a pull slips past a reader needs one page that was turned and one touch or one reopening.  Without the pulls that slipped TLC finds both properties of the digest violated, by a touch alone and by a reopening alone, so both cases occur.  Beside it, pulls of one to four commits of two identities over up to two commits, a listing cut at three, up to two deployment records on pages of one: the rebase walk has a middle, and identities repeat. |

Each property of a passing run has a mutant, an operator named `...Slip` beside the definition it would replace: a forgotten release, a missing id taken for a wildcard, a clock of its own, a reused id, a marker posted before its message, a comparison the other way round.  With it TLC finds the property violated.

### Fairness

`Sparkd!FairSpec`: time passes, an expired wait returns, accepted connections are served, the watcher notices a dead child, delivery happens.  All of these are ready threads or timed waits.  Nothing is assumed of the app-server, of callers or of systemd.  One caveat: that an expired hop returns presupposes that its request was written; with a full pipe it is not (see the known limits).

`RpcSession!FairSpec`: both threads run, and a timed `get` returns.  Nothing is assumed of the child.  `spark_calls` assumes it of the session alone: the other two state no liveness.

`ReviewLoop!FairSpec`: started runs proceed (or crash), the schedule fires again and again whenever it has something to publish, commits and verdicts get older.  Verdicts, pushes and meters are free.  That a chase is eventually made, or the gap stated, is not checked.  `VerdictsAreHeard` and `HeadsGetReviewers` are stated as "not for ever unheard", since new verdicts restart the clock.

`SparkCli`, `LineReader`, `MergeDigest` and `MergeEntry` state no liveness: each is one command, or runs that GitHub may cancel for good.

## Findings

1. `sparkd_drop`: a refusal answered to `thread/archive` is not a `SparkProtocolError`, so `_drop` never sends `thread/unsubscribe`, and the refusal replaces the call's outcome.  `spark/SPEC.md:190` promises both.
2. `loop_bound`: findings of the last round whose routing run died are never gated, told or put in a retrospective, although the sweep "is the belt's reconciliation leg for a verdict whose routing was dropped".
3. `loop_empty`: a review without findings is told as CLEAN because of a clean comment older than the standing findings.
4. `sparkd_answer`: `_notification_belongs` compares turn ids only when the call knows its own.  After a `turn/start` reply without one, a completion that carries a turn id and no thread id is admitted whosever turn it was: the first call is abandoned, its turn completes after the second call's `_drain_events`, and the second call returns its text.  The docstring (`appserver.py:471`) says "Admit only a notification whose recognised identity matches" and "A missing identity is not a wildcard".  `KnownIdentityDecides` says, over all four shapes of completion, that this is the only way to get another's text.

Another observation is no contradiction of a promise but explains `ReaderLost`: `_dispatch` tests membership and pops in two steps, and `DeathHasACause` therefore has to allow a timeout as the cause of a session's death.

## Known limits

What follows was met while modelling and is outside the bounds under which the runs pass, or is a disagreement that no run is kept for.  "TLC finds" says that the models show it when a bound is moved.

The daemon:

* Boot.  The deadline starts at accept, the caller's patience at connect.  With BootMax above Grace, TLC finds a request that waits in the backlog and spends its turn for a caller that has left, against `spark/SPEC.md:195`.  `PromptCallersAreHeard` says how prompt an accept must be.
* The pipe.  `_send` writes under `_write_lock` without a deadline.  With StdinCap 1 TLC finds that `CallsReturn` fails, against the docstring of `invoke` (`appserver.py:159`).  The child's stderr is a pipe too, and nobody reads it: a child that fills it stops in the same way.
* Two daemons on one path.  Stopping one unlinks the socket of the other, against the comment at `daemon.py:59`, "we only unlink a path we bound".  `SparkCli` has these steps.
* A caller that vanishes before it has sent its request ends its handler thread at once, without lock or deadline; `Accept` starts from a request that was read.

The command line:

* `auto` probes and then connects, so that it can end in `DaemonConnectError`, which the docstring in `client.py` says it must not reach.
* A broken connection is recorded with status null by `locate` and `triage`, and as `error` by `slice` and `transform`.
* `slice` counts a file's lines and reads the file again to render it.  Nothing ties the two passes together; `LineReader` reads a file that stands still.

The review loop:

* Redelivery of a substitute's findings.  `standing_substitute_findings` ignores a later clean verdict.  Substitute findings, then a clean verdict, then a review without findings: TLC finds that the sweep dispatches the burn seat with findings that were cleared, although "CLEAN clears the standing digest" (`review_loop.py:6474`).
* The other way round, when Codex's findings are later than a substitute's, the substitute's digest does not ride in the redelivered wake (6586 to 6589), against the comment above it, "the burn seat must never act on a partial evidence set".  The models do not look into digests.
* GitHub's timestamps have whole seconds; the model compares positions in one log.  Two events of one second, which the code orders by its choice of `<` or `<=`, are therefore not modelled.
* Two scans of different groups may chase the same retrospective, or ask for the same reviewer: markers are unique per group, not across groups (`MarkedOnce`).

The merge digest:

* The first digest.  A failed first run leaves no watermark, and the bootstrap window of the next one has slid past merges the first did not tell; with a repository that is never readable there is never a watermark.  The header of the report says where the window began, which is why `EveryMergeIsAccounted` allows `disclosed`; the docstring at `merge_digest.py:221` and "Windows overlap rather than gap" say more.
* Pages.  The listing is sorted by updates.  A merged pull that is touched between two requests jumps behind the reader and is itself missed; a closed pull that is reopened leaves the listing, and the one behind it slips past the reader.  Either way a merge may never be told, against "exact here" in the docstring of `merged_pulls_since` (`merge_digest.py:314`); TLC finds it when `slipped` is taken out of `EveryMergeIsAccounted` or `ReportsAreExact`.  As they stand, both say that nothing else is lost; they are checked and proved.
* An entry of a pull without `merge_commit_sha` (`deployment_note` is then never asked) is not modelled, and a `git status` that fails is folded into git's answer.
* GitHub drops merge commits when it rebases.  A pull whose last commit is an "Update branch" merge would therefore be taken for a squash.  This is a property of GitHub that the model does not have: `Chain` replays all commits.

## Proofs

Every theorem holds for all values of the constants that the module's assumption admits (`ClockAssumption`, `ShapeAssumption`, `DigestAssumption` and so on, each checked by TLC in the runs): any set of clients, daemons, heads or pulls, any capacity, budget, bound or page size.  Two theorems have a hypothesis of their own, named below with what fails without it.  The inductive invariants were checked by TLC on instances of the sizes of the runs before they were proved.

Each module is laid out the same way: the invariant as named parts, lemmas about the operators, lemmas about single actions or groups of them, `Init` and `Next`, the theorems.

### SparkdProofs

* `TypeCorrect`: one lemma per group of updates (`MoveTo`, `Finish`, `BeginDrop`, `Abandon`), then one step per action.
* `SerialCallsHold`: inductive with `TypeOK`.  The interesting steps are those that leave `invoke`: `Finish` is the only update that clears `holder`.
* `HopsEndInBudgetHolds`: for the hop numbered `n`, `left - hopLeft >= -n * Floor`.  It is inductive because a hop is armed with `Later(limit, Floor)`, where the limit is at most `left`, and because the hop before it had already paid for `n - 1` floors when `hopLeft` reached at least 0.  `_drop` carries its own deadline, hence the conjunct `dropLeft <= left`.
* `WithinBudgetHolds`: a corollary, with seven hops.
* `PromptCallersAreHeardHolds`: needs `CallersAccounted`, which ties each handler to the caller it serves: a caller that has given up has no patience left, and one whose answer is pending is either still waiting or gave up.  `BudgetInv == TypeOK /\ SerialCalls /\ HopsEndInBudget /\ CallersAccounted` is the inductive invariant.
* `ThreadsAreDroppedHolds`, `DeliveredIsDroppedHolds`: `DropInv` says of every place of the teardown what was tried before, and that a call with a thread is past `thread/start` and has no way to `reply` but through `archive`.
* `KnownIdentityDecidesHolds`: for every shape of completion.  `BelongsDecides` says what the filter lets through; `AnswersAreLate`, that a call with an answer is in teardown, is needed because a turn that became known after another's text was taken would falsify the property.
* `AnswerIsOwnHolds`: what the docstring promises, under the hypothesis `Identifiable`: no completion carries a turn id alone, or every reply to `turn/start` names its turn.  It follows from the theorem before and from `TurnsAreKnown`.  Run `sparkd_answer` is the counterexample without the hypothesis (finding 4).

### RpcSessionProofs

`SessionInv` follows the messages (every line on a pipe is about the call whose id it bears, and none is about a call that has sent nothing) and the ids (an id is registered once, by its own call, and the reader's snapshot of `_pending` only goes stale for a call that is not in it).  From it: `TypeCorrect`, `RepliesAreOwnHolds`, `OnlyTheOpenCallWaitsHolds`, `OpenCallsAreToldHolds`, `DeathHasACauseHolds`.

`SessionImplementsCalls` is the refinement of `RpcCalls`: `Init` maps to its initial states, and each action of caller, reader or child to a beginning, an end, the session going down, or to nothing.  The step that takes the invariant is the answer, which has to be the call's own.

### SparkCliProofs

`CliInv` says what is settled at each place of an invocation: nothing before the call, then an answer or a failure but never both, then at most one record, which agrees with the exit.  `CliTypeCorrect` and `RecordIsWhatTheCallerHearsHolds` follow.  They are about `CliSpec`; the run checks `BothSpec`, whose steps are those of `CliNext` or leave the invocation alone.

### LineReaderProofs

The file is not known in advance and the consumers never see it whole, so the invariant is about a prefix.  `At` is how many bytes the consumer has got.  `ReaderInv` says that what is held back and what is left of the chunk are the bytes that follow (`Window`), that a held line has no end before its `\r`, and what the consumer knows (`Read(At)`): the count is the number of line ends in the first `At` bytes (`CountedTo`), or the bytes taken are those of the first `At` that are in the span's lines (`TakenTo`); and it goes on only while the deepest line has not ended.

Two lemmas carry it.  `EndsOfPart`: a line ends in a chunk where it ends in the file, but for the chunk's last byte, which is why only a trailing `\r` is held back.  `PieceIsOfOneLine`: a piece has no end before its last byte, so that its bytes are in one line and the number of ends grows by at most one.  A step then yields a piece (`YieldHeldHolds`, `YieldLineHolds`, `YieldLeftHolds`), and a piece is consumed (`CountedOn`, `TakenOn`).

* `ReaderIsRight`: `ReaderInv` is inductive.
* `CountsRight`, `TakesTheSpan`, `ReadsNoFurther`: the three properties of the run.  The last needs that what is held back has not been counted, but its `\r` is not yet known to end the line either.

They are about `ReaderSpec`; the run checks `BothSpec`.

### ReviewLoopProofs and ReviewLoopToldProofs

`LoopInv` says of every run what its last look at the PR allows it to publish.  It is inductive because each part is about the log up to a position (`began`, `seen`, `lived`, `closed`), and what other runs and the world append later does not change that: the lemmas about `Has`, `Verdict`, `Disposed`, `Reviewed` and `HeadAt` of a prefix say so.  A group posts a marker once because its run is alone in its group and `Unmarked` holds from its look until its post.

From it: `TypeCorrect`, `MarkedOnceHolds`, `MarkersTellTheTruthHolds`, and the action properties `DeadHeadsAreQuietHolds`, `ScansAreCurrentHolds`, `StopsAreRespectedHolds` and `CleanNamesItsSubjectHolds`.

What is said in #hive cannot be read back, so these need more than what a run saw.  `ToldInv` adds the order of the routes: the verdict group serves verdicts in their order, so that what was said is about an earlier verdict than the run's own, or is the step before (`RoutesAreInOrder`); a group without a run has no verdict waiting.  For scans it adds that a message has its marker or is about to get it unless a run died.

* `RoutesTellOnce`: a route never repeats a message, also when runs die.  No run states this; it is more than `ToldOnce` says.
* `ToldOnceHolds`: no run repeats a message unless one died.
* `CleanAfterBurnIsNewHolds`, with the hypothesis that no review is empty (`"empty" \notin Results`).  Run `loop_empty` is the counterexample without it, finding 3.

### MergeDigestProofs

`DigestInv` says that a window starts where every merge is accounted for, or the run is a first one and its report will say where it starts (`WindowsAreAnchored`); that the same holds of the creation of every run that succeeded and posted (`WatermarksAreAnchored`); that each listing is ordered by updates and a merge is an update (`ListingIsOrdered`); and that a run has found what is behind it: of the repositories it has finished and could read, and of the pages it has turned (`ReadingsAreWhole`).  A page that ends before the window ends the listing, because all that is behind it was merged earlier still (`PageIsMet`).

What a run is to find (`Due`) are the merges of its window up to its creation, and it has met one (`Met`) if it found it or the pull slipped past it.  When pulls move, each of them that is then on a page already turned was there before, and met; or came from ahead of the reader, and slipped; or was not listed before, and is then merged now or not at all, which is after the run's creation (`ListingsMove`, with `FrontKeeps` for merges, closings and touches and `ReopenKeeps` for reopenings).  That `RemoveFirst` and what is put before it keep the listing ordered is `TakenOut`, `BroughtToFront`, `ListingMoves` and `ListingShrinks`.

* `TypeCorrect`, without hypotheses, with `UnreadIsSilent` in it.
* `EveryMergeIsAccountedHolds` and `ReportsAreExactHolds`, without hypotheses: for any traffic on the pulls, nothing is lost but what slipped.

### MergeEntryProofs

`EntryInv` adds what is known on the way: the walk is entered only for a rebased pull that was listed whole, and the chain agrees with the commits below `index`; nothing is priced before its span is settled; the pages of deployment records already turned held nothing that settles the question.  From it `EntryTypeCorrect`, `SpanIsWholeHolds`, `CheapIsEarnedHolds`, `ShippedIsToldHolds`, about `EntrySpec`; the run interleaves it with the digest.

### Only model-checked

* Liveness, which rests on fairness and is outside the prover's reach: `LockComesBack`, `QueuedAreAnswered`, `CallsReturn`, `VerdictsAreHeard`, `HeadsGetReviewers`.
* That the hypotheses of the two theorems that have one are needed is shown by TLC.

## Not modelled

* `linear-reads`: sequential, stateless, read-only; pagination is its only loop.
* Rendering, prompts, digests' texts, redaction and the refusal classifier: tables and formatting.
* Telemetry of the review loop and its terminal sweep, the canary and the skill audit: they announce and change no decision.
* `_strictify`, path expansion and git in the CLI: pure functions of files, whose outcomes `SparkCli` takes as given.
* Gates of an older policy, forged and malformed markers, and several PRs in one sweep.

## Plan

All components with state of their own have a module, and every safety and action property of the passing runs is a theorem.  What is left, in the order of importance:

1. Theorems that say more than the runs ask.  `RpcSession`: a call in `waiting` whose reply was delivered ends in it.  `Sparkd`: a caller never hears two answers.  `ReviewLoop`: what scans of different groups may repeat.
2. Shared lemmas (the least number of a set) are proved in each module that needs them; one module could hold them.
