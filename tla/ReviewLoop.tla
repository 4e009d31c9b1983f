----------------------------- MODULE ReviewLoop -----------------------------
(***************************************************************************)
(* The review loop of one pull request: .github/scripts/review_loop.py as  *)
(* .github/workflows/review-loop.yml runs it.                              *)
(*                                                                         *)
(* Three concurrency groups act on one PR: verdict-<pr> routes a Codex     *)
(* review or comment, push-<pr> reconciles a head that moved, sweep        *)
(* reconciles on a schedule.  A group holds one running and one pending    *)
(* run; runs of different groups interleave.  A run reads GitHub over      *)
(* HTTP, decides, re-reads, and publishes on GitHub and in Slack, which    *)
(* it cannot read back.  Every message or comment it publishes is a step   *)
(* of its own; reads that follow one another directly are one step, since  *)
(* what can change between them can also change right after the last.     *)
(*                                                                         *)
(* `log' is all that ever happened to the PR, in order.  A position in it  *)
(* is a time, the identity of a review or comment, and a snapshot: a run   *)
(* that read the PR at n knows the entries up to n.                        *)
(***************************************************************************)
EXTENDS Integers, Sequences, FiniteSets

CONSTANTS
    Heads,         \* the commits the branch may point to
    FirstHead,     \* the one it points to when the PR is opened
    NoHead,        \* none of them
    SkipHeads,     \* those whose message carries a Review-skip trailer
    Results,       \* what Codex reviews may say
    Outside,       \* the kinds of events that reach the PR from outside
    MaxOutside,    \* bound: how many of them
    MaxFailures,   \* bound: how many runs die of an HTTP or Slack error
    MaxRounds,     \* MAX_REVIEW_ROUNDS
    MaxChases      \* RETROSPECTIVE_CHASE_ATTEMPTS

ASSUME LoopAssumption ==
    /\ FirstHead \in Heads /\ NoHead \notin Heads /\ SkipHeads \subseteq Heads
    /\ Results \subseteq {"clean", "findings", "empty"}
    /\ Outside \subseteq {"push", "close", "retarget", "hold", "refusal", "verdict", "substitute",
                           "testimony", "comment"}
    /\ MaxOutside \in Nat /\ MaxFailures \in Nat
    /\ MaxRounds \in Nat \ {0} /\ MaxChases \in Nat \ {0}

VARIABLES
    head, open, base,  \* the pull request
    log,               \* everything that happened to it
    sent,              \* the messages in #hive
    stalled,           \* the head commit is older than REVIEW_STALL_SECONDS
    old,               \* what happened up to here is an hour old: WAKE_REDELIVERY_SECONDS
                       \* and RETROSPECTIVE_DELIVERY_SECONDS
    run,               \* per group: the run it executes
    pending,           \* per group: the event of its one waiting run
    happened,          \* events from outside so far
    failures           \* runs that died

prVars == <<head, open, base>>
timeVars == <<stalled, old>>
groupVars == <<run, pending>>
vars == <<prVars, log, sent, timeVars, groupVars, happened, failures>>

-----------------------------------------------------------------------------
Groups == {"verdict", "push", "sweep"}

\* What the loop posts on the PR, what it sends to #hive, and the rest.
Markers  == {"skip", "pin", "gate", "nudge", "assigned", "redelivered", "receipt",
             "chased"}
Messages == {"clean", "burn", "gatewake", "retro", "redeliver", "summon", "chase"}
Events   == {"push", "close", "retarget", "hold", "refusal", "verdict", "testimony"}
Voices   == {"outside", "substitute"}

Jobs == {"none", "scan", "route"}
PCs  == {"idle", "start", "skip", "refresh", "pin", "postpin", "closure", "gate",
         "held", "owed", "live", "relive", "post", "send", "mark"}
Tasks == {"none", "clean", "burn", "gatewake", "retro", "redeliver", "summon",
          "gate", "nudge", "chase"}

\* pc: where the run is.  task: what it is going to publish.  about: the
\* verdict it works on, or the attempt of a chase.  note: the base it read.
\* began, closed, seen, lived: the positions of its snapshot, of its closure
\* check, of its last re-read of the head's verdict or testimony and of its
\* last re-read of the PR.
Run == [pc : PCs, job : Jobs, task : Tasks, head : Heads \union {NoHead}, about : Nat,
        note : Nat, began : Nat, closed : Nat, seen : Nat, lived : Nat]

Idle == [pc |-> "idle", job |-> "none", task |-> "none", head |-> NoHead, about |-> 0,
         note |-> 0, began |-> 0, closed |-> 0, seen |-> 0, lived |-> 0]

\* The runs an event asks for.
NoRun    == Idle
Scan     == [Idle EXCEPT !.pc = "start", !.job = "scan"]
Route(v) == [Idle EXCEPT !.pc = "start", !.job = "route", !.about = v]

Entry(kind, h) == [kind |-> kind, head |-> h, result |-> "", about |-> 0, note |-> 0,
                   by |-> "outside"]

Entries == [kind : Markers \union Events, head : Heads \union {NoHead},
            result : Results \union {""}, about : Nat, note : Nat,
            by : Groups \union Voices]

Sent == [kind : Messages, head : Heads, about : Nat, by : Groups]

TypeOK ==
    /\ head \in Heads /\ open \in BOOLEAN /\ base \in {0, 1}
    /\ log \in Seq(Entries) /\ sent \subseteq Sent
    /\ stalled \in BOOLEAN /\ old \in 0..Len(log)
    /\ run \in [Groups -> Run]
    /\ pending \in [Groups -> Run]
    /\ happened \in 0..MaxOutside /\ failures \in 0..MaxFailures

Init ==
    /\ head = FirstHead /\ open = TRUE /\ base = 0
    /\ log = <<Entry("push", head)>> /\ sent = {}
    /\ stalled = FALSE /\ old = 0
    /\ run = [g \in Groups |-> Idle]
    /\ pending = [g \in Groups |-> NoRun]
    /\ happened = 0 /\ failures = 0

-----------------------------------------------------------------------------
(* Reading the log.  n is the position the reader's copy ends at.          *)

Now == Len(log)

Latest(S) == IF S = {} THEN 0 ELSE CHOOSE i \in S : \A j \in S : j <= i

At(kind, h, n) == {i \in 1..n : log[i].kind = kind /\ log[i].head = h}
Has(kind, h, n) == At(kind, h, n) # {}

Verdicts(h, n) == At("verdict", h, n)
Verdict(h, n)  == Latest(Verdicts(h, n))
LastDated      == Latest({i \in 1..Now : log[i].kind \in {"verdict", "receipt", "chased"}})
Reviewed(n)    == {log[i].head : i \in {j \in 1..n : log[j].kind = "verdict"}}

IsCodex(v) == log[v].kind = "verdict" /\ log[v].by = "outside"

\* The findings that redelivery has a digest of: Codex's, unless a later clean
\* verdict cleared them, and a substitute's at any age.
Standing(h, n) ==
    {v \in Verdicts(h, n) :
       /\ log[v].result = "findings"
       /\ ~IsCodex(v) \/ \A w \in Verdicts(h, n) : w > v => log[w].result # "clean"}

\* A seat's or the loop's word that the head stays as it is on purpose.
Disposed(h, n) == At("hold", h, n) \union At("skip", h, n)

\* Codex's latest word on the PR is a quota refusal.
Refused(n) == \E i \in 1..n : /\ log[i].kind = "refusal"
                              /\ \A j \in i..n : ~IsCodex(j)

\* Slip: compares where the base points now with where it pointed then.
RetargetedAfterSlip(v) ==
    Cardinality({i \in v..Now : log[i].kind = "retarget"}) % 2 = 1

RetargetedAfter(v) == \E i \in v..Now : log[i].kind = "retarget"

-----------------------------------------------------------------------------
(* Groups: concurrency of the workflow.                                    *)

\* An event's run starts at once in an idle group; in a busy one it takes the
\* waiting place, and whoever waited there is cancelled.
Arrive(g, r) ==
    IF run[g].pc = "idle"
      THEN run' = [run EXCEPT ![g] = r] /\ UNCHANGED pending
      ELSE pending' = [pending EXCEPT ![g] = r] /\ UNCHANGED run

\* The run is over and the waiting one starts.
End(g) ==
    /\ run' = [run EXCEPT ![g] = pending[g]]
    /\ pending' = [pending EXCEPT ![g] = NoRun]

Continue(g, r) == run' = [run EXCEPT ![g] = r] /\ UNCHANGED pending

\* The run goes on as one of Rs, or ends if there is none.
GoOn(g, Rs) == IF Rs = {} THEN End(g) ELSE \E r \in Rs : Continue(g, r)

To(r, pc) == {[r EXCEPT !.pc = pc]}

-----------------------------------------------------------------------------
(* What reaches the PR from outside.                                       *)

FromOutside(kind) ==
    /\ kind \in Outside /\ happened < MaxOutside
    /\ happened' = happened + 1
    /\ UNCHANGED <<sent, failures>>

\* The branch moves, maybe back to a commit it had left.
Push(h) ==
    /\ FromOutside("push") /\ open /\ h # head
    /\ head' = h /\ stalled' = FALSE
    /\ log' = Append(log, Entry("push", h))
    /\ Arrive("push", Scan)
    /\ UNCHANGED <<open, base, old>>

Close ==
    /\ FromOutside("close") /\ open
    /\ open' = FALSE
    /\ log' = Append(log, Entry("close", NoHead))
    /\ UNCHANGED <<head, base, timeVars, groupVars>>

\* The PR is pointed at its other base branch.
Retarget ==
    /\ FromOutside("retarget") /\ open
    /\ base' = 1 - base
    /\ log' = Append(log, Entry("retarget", NoHead))
    /\ UNCHANGED <<head, open, timeVars, groupVars>>

\* A seat holds the head for a human.
Hold ==
    /\ FromOutside("hold") /\ open
    /\ log' = Append(log, Entry("hold", head))
    /\ UNCHANGED <<prVars, timeVars, groupVars>>

\* Slip: the concurrency group is keyed by the kind of event too.
ReviewSlip(h, result) ==
    /\ FromOutside("verdict") /\ Has("push", h, Now)
    /\ log' = Append(log, [Entry("verdict", h) EXCEPT !.result = result])
    /\ Arrive(IF result = "findings" THEN "push" ELSE "verdict", Route(Now + 1))
    /\ UNCHANGED <<prVars, timeVars>>

\* Codex speaks about some commit it was shown.
Review(h, result) ==
    /\ FromOutside("verdict") /\ Has("push", h, Now)
    /\ log' = Append(log, [Entry("verdict", h) EXCEPT !.result = result])
    /\ Arrive("verdict", Route(Now + 1))
    /\ UNCHANGED <<prVars, timeVars>>

\* A trusted seat asked to review in Codex's place speaks, in a comment that
\* carries the verdict marker.
Substitute(h, result) ==
    /\ FromOutside("substitute") /\ Has("push", h, Now) /\ result # "empty"
    /\ log' = Append(log, [Entry("verdict", h) EXCEPT !.result = result, !.by = "substitute"])
    /\ Arrive("verdict", Route(Now + 1))
    /\ UNCHANGED <<prVars, timeVars>>

\* The seat asked for a retrospective posts it, with its receipt.
Testimony(h) ==
    /\ FromOutside("testimony") /\ ~Has("testimony", h, Now)
    /\ \E m \in sent : m.kind = "retro" /\ m.head = h
    /\ log' = Append(log, Entry("testimony", h))
    /\ UNCHANGED <<prVars, timeVars, groupVars>>

\* Codex answers with a usage-limits comment.
Refuse ==
    /\ FromOutside("refusal")
    /\ log' = Append(log, Entry("refusal", NoHead))
    /\ Arrive("verdict", Scan)
    /\ UNCHANGED <<prVars, timeVars>>

\* Any other comment on the PR: its run has no job, but takes the waiting place.
Comment ==
    /\ FromOutside("comment") /\ pending["verdict"] # NoRun
    /\ pending' = [pending EXCEPT !["verdict"] = NoRun]
    /\ UNCHANGED <<prVars, log, timeVars, run>>

Minutes ==
    /\ ~stalled /\ stalled' = TRUE
    /\ UNCHANGED <<prVars, log, sent, old, groupVars, happened, failures>>

Hours ==
    /\ old < LastDated /\ old' = LastDated /\ stalled' = TRUE
    /\ UNCHANGED <<prVars, log, sent, groupVars, happened, failures>>

-----------------------------------------------------------------------------
(* Steps of a run.                                                         *)

Step(g, pc) == run[g].pc = pc /\ UNCHANGED <<prVars, timeVars, happened, failures>>

\* Slip: the state of the PR is not looked at.
LiveSlip(r) == head = r.head

\* publishable_at_head; a chase's subject survives the closing of the PR.
Live(r) == head = r.head /\ (open \/ r.task = "chase")

\* A run's entry in the log.
By(g, kind) == [Entry(kind, run[g].head) EXCEPT !.about = run[g].about, !.by = g]

Publish(entry) == log' = Append(log, entry) /\ UNCHANGED sent

\* A run's message in #hive, which nobody reads back.
Message(g) == [kind |-> run[g].task, head |-> run[g].head, about |-> run[g].about, by |-> g]

\* Any request of the run fails; what it already published stays.
Crash(g) ==
    /\ run[g].pc # "idle" /\ failures < MaxFailures
    /\ failures' = failures + 1
    /\ End(g)
    /\ UNCHANGED <<prVars, log, sent, timeVars, happened>>

\* redelivery_recorded, whose marker names the verdict.
\* Slip: nobody looks for the marker.
RecordedSlip(h, v, n) == FALSE
Recorded(h, v, n) == \E m \in At("redelivered", h, n) : log[m].about = v

\* Was the head disposed of at or after its verdict v?
\* Slip: the comparison the other way round.
DisposedSinceSlip(h, v, n) == \E d \in Disposed(h, n) : d < v
DisposedSince(h, v, n) == \E d \in Disposed(h, n) : d >= v

\* redeliver_standing_wake up to its refresh: is the verdict v of head h due
\* for its one redelivery?
Redeliverable(h, v, n) ==
    /\ ~Has("gate", h, n)
    /\ ~DisposedSince(h, v, n)
    /\ v <= old
    /\ ~Recorded(h, v, n)
    /\ \/ log[v].result = "clean"
       \/ Standing(h, n) # {} /\ Cardinality(Reviewed(n)) < MaxRounds

\* A reviewer was asked for h, and Codex did not refuse since.
\* Slips: nobody looks for the nudge; any head's nudge will do.
CoveredSlip(h, n) == Has("assigned", h, n)
CoveredAnySlip(h, n) == \E g \in Heads : Has("assigned", g, n) \/ Has("nudge", g, n)
Covered(h, n) == Has("assigned", h, n) \/ (Has("nudge", h, n) /\ ~Refused(n))

\* retrospective_chase_attempts: the highest, since two groups may post one twice.
Chases(h, n) == {log[i].about : i \in At("chased", h, n)}
Spent(h, n)  == Latest(Chases(h, n))

\* chase_undelivered_retrospective up to its re-reads: testimony was asked for,
\* an hour passed since it was asked for last, and attempts are left.
Owed(h, n) ==
    /\ Has("receipt", h, n) /\ ~Has("testimony", h, n)
    /\ \A i \in At("receipt", h, n) : i <= old
    /\ \A i \in At("chased", h, n) : log[i].about = Spent(h, n) => i <= old
    /\ Spent(h, n) < MaxChases

\* What the scan's snapshot n calls for at head h; find_half_route picks the
\* reviewer by the usage meter, which may say anything.  Where testimony was
\* asked for there is a gate, and nothing else is done.
Calls(h, n) ==
    LET spent == Cardinality(Reviewed(n))
    IN  IF Owed(h, n) THEN {"chase"}
        ELSE IF h \in Reviewed(n)
          THEN IF Redeliverable(h, Verdict(h, n), n) THEN {"redeliver"} ELSE {}
        ELSE IF spent >= MaxRounds
          THEN IF Has("gate", h, n) THEN {} ELSE {"gate"}
        ELSE IF Disposed(h, n) # {} \/ Covered(h, n) THEN {}
        ELSE IF Refused(n) THEN {"summon"} ELSE {"nudge", "summon"}

\* What a scan that starts now goes on to do: it takes the head from the live
\* PR or from the list of open PRs, and reads the verdicts and the comments.
Scanning ==
    {[Scan EXCEPT !.head = head, !.began = Now, !.task = t,
                  !.about = IF t = "chase" THEN Spent(head, Now) + 1 ELSE Verdict(head, Now),
                  !.pc = CASE t = "redeliver" -> "refresh" [] t = "chase" -> "owed"
                           [] OTHER -> "held"] : t \in Calls(head, Now)}

\* chase_closed_pull_retrospectives: the sweep goes on to recently closed PRs,
\* of which only the testimony is still of interest.
Chasing == {r \in Scanning : r.task = "chase"}

\* nudge_stalled_reviews: the schedule fires.  A scan with nothing to publish
\* leaves no trace.
Sweep ==
    /\ run["sweep"] = Idle /\ (open => stalled)
    /\ \E r \in IF open THEN Scanning ELSE Chasing : run' = [run EXCEPT !["sweep"] = r]
    /\ UNCHANGED <<prVars, log, sent, timeVars, pending, happened, failures>>

\* summon_on_push, summon_on_refusal.  The pushed commit's trailer is recorded
\* instead of scanning.
StartScan(g) ==
    LET skips == g = "push" /\ open /\ head \in SkipHeads /\ ~Has("skip", head, Now)
    IN  /\ Step(g, "start") /\ run[g].job = "scan"
        /\ GoOn(g, IF skips THEN {[run[g] EXCEPT !.head = head, !.pc = "skip"]}
                   ELSE IF open THEN Scanning ELSE {})
        /\ UNCHANGED <<log, sent>>

RecordSkip(g) ==
    /\ Step(g, "skip")
    /\ Publish(By(g, "skip"))
    /\ End(g)

\* A verdict on another head than the PR's is ignored.
AtHead(r) == log[r.about].head = head

StartRoute(g) ==
    LET r == run[g]
    IN  /\ Step(g, "start") /\ r.job = "route"
        /\ GoOn(g, IF AtHead(r)
                     THEN To([r EXCEPT !.head = head, !.began = Now], "refresh") ELSE {})
        /\ UNCHANGED <<log, sent>>

\* Findings wake the burn seat, or at the bound raise the gate.
Burns(r) ==
    IF Cardinality(Reviewed(r.began) \union {r.head}) >= MaxRounds
      THEN To([r EXCEPT !.task = "gatewake"], "gate")
      ELSE To([r EXCEPT !.task = "burn"], "live")

Closes(r) == To([r EXCEPT !.task = "clean"], "closure")

\* The routes past the pin.  A review without inline findings is clean only if
\* its body or some comment of Codex said so of this head.
Routed(r) ==
    LET result == log[r.about].result
        saidClean == \E v \in Verdicts(r.head, r.began) : log[v].result = "clean" /\ IsCodex(v)
    IN  IF result = "findings" THEN Burns(r)
        ELSE IF result = "clean" \/ saidClean THEN Closes(r) ELSE {}

\* refresh_pr_at_head, the route's first: the base it read stays with the run.
Refresh(g) ==
    LET r == [run[g] EXCEPT !.note = base]
        pinned == Has("pin", r.head, r.began)
    IN  /\ Step(g, "refresh")
        /\ GoOn(g, IF ~Live(r) THEN {}
                   ELSE IF r.job = "scan"
                     THEN To(r, IF log[r.about].result = "clean" THEN "closure" ELSE "held")
                   ELSE IF pinned THEN Routed(r) ELSE To(r, "pin"))
        /\ UNCHANGED <<log, sent>>

\* ensure_comment_at_head: is there a pin by now, and is the head still live?
EnsurePin(g) ==
    LET r == run[g]
    IN  /\ Step(g, "pin")
        /\ GoOn(g, IF Has("pin", r.head, Now) THEN Routed(r)
                   ELSE IF Live(r) THEN To(r, "postpin") ELSE {})
        /\ UNCHANGED <<log, sent>>

PostPin(g) ==
    /\ Step(g, "postpin")
    /\ Publish([By(g, "pin") EXCEPT !.note = run[g].note])
    /\ GoOn(g, Routed(run[g]))

\* stale_base_ref_for_closure: a pin of the snapshot names another base.
StaleBase(r) == \E p \in At("pin", r.head, r.began) : log[p].note # r.note

\* The pins are those of the snapshot, the retargets (base_retarget_after) are
\* live: a clean verdict closes only the PR it was formed against.
CheckClosure(g) ==
    LET r == run[g]
    IN  /\ Step(g, "closure")
        /\ GoOn(g, IF StaleBase(r) \/ RetargetedAfter(r.about) THEN {}
                   ELSE To([r EXCEPT !.closed = Now], IF r.job = "scan" THEN "held" ELSE "live"))
        /\ UNCHANGED <<log, sent>>

\* ensure_exhaustion_gate_at_head: a gate that stands is not posted again, but
\* the wake is retried.
EnsureGate(g) ==
    LET r == run[g]
    IN  /\ Step(g, "gate")
        /\ GoOn(g, IF Has("gate", r.head, Now) THEN To(r, "live")
                   ELSE IF Live(r) THEN To([r EXCEPT !.lived = Now], "post") ELSE {})
        /\ UNCHANGED <<log, sent>>

\* A wake of several messages posts its inert evidence between two checks.
\* Slip: the marker first, and nothing after it.
Several(r) == \/ r.task \in {"burn", "retro"}
              \/ r.task = "redeliver" /\ log[r.about].result # "clean"
DispatchSlip(r) == To(r, IF r.task \in {"redeliver", "summon"} THEN "mark" ELSE "send")
Dispatch(r) == To(r, "send") \union (IF Several(r) THEN To(r, "relive") ELSE {})

\* verdict_state_held: the head's latest verdict is still the snapshot's.
\* Slip: nobody looks.
HeldSlip(r) == TRUE
Held(r) == Verdict(r.head, Now) = Verdict(r.head, r.began)

\* The verdict, and right after it the liveness of the PR.
CheckHeld(g) ==
    LET r == [run[g] EXCEPT !.seen = Now, !.lived = Now]
    IN  /\ Step(g, "held")
        /\ GoOn(g, IF ~(Held(r) /\ Live(r)) THEN {}
                   ELSE IF r.task \in {"gate", "nudge"} THEN To(r, "post") ELSE Dispatch(r))
        /\ UNCHANGED <<log, sent>>

\* chase_undelivered_retrospective: is testimony still missing and this attempt
\* still to be made?  Then, right after that, the head.  The same reads before
\* these decide nothing of their own.  The last attempt wakes nobody.
\* Slip: the snapshot's comments will do.
CheckOwedSlip(g) ==
    LET r == [run[g] EXCEPT !.seen = Now, !.lived = Now]
    IN  /\ Step(g, "owed")
        /\ GoOn(g, IF Live(r) THEN To(r, IF r.about < MaxChases THEN "send" ELSE "mark") ELSE {})
        /\ UNCHANGED <<log, sent>>

CheckOwed(g) ==
    LET r == [run[g] EXCEPT !.seen = Now, !.lived = Now]
        missing == ~Has("testimony", r.head, Now) /\ Spent(r.head, Now) < r.about
    IN  /\ Step(g, "owed")
        /\ GoOn(g, IF missing /\ Live(r)
                     THEN To(r, IF r.about < MaxChases THEN "send" ELSE "mark") ELSE {})
        /\ UNCHANGED <<log, sent>>

\* publishable_at_head in deliver_wake ...
CheckLive(g) ==
    LET r == [run[g] EXCEPT !.lived = Now]
    IN  /\ Step(g, "live")
        /\ GoOn(g, IF Live(r) THEN Dispatch(r) ELSE {})
        /\ UNCHANGED <<log, sent>>

\* ... and again in post_threaded_messages, before the addressed message.
CheckAgain(g) ==
    LET r == [run[g] EXCEPT !.lived = Now]
    IN  /\ Step(g, "relive")
        /\ GoOn(g, IF Live(r) THEN To(r, "send") ELSE {})
        /\ UNCHANGED <<log, sent>>

\* A gate or a nudge goes to the PR.
Post(g) ==
    LET r == run[g]
    IN  /\ Step(g, "post")
        /\ Publish(By(g, IF r.task = "nudge" THEN "nudge" ELSE "gate"))
        /\ GoOn(g, IF r.task = "gatewake" THEN To(r, "live") ELSE {})

\* The message that dispatches a seat.
Send(g) ==
    LET r == run[g]
    IN  /\ Step(g, "send")
        /\ sent' = sent \union {Message(g)}
        /\ UNCHANGED log
        /\ GoOn(g, CASE r.task \in {"redeliver", "summon", "retro", "chase"} -> To(r, "mark")
                     [] r.task = "gatewake" -> To([r EXCEPT !.task = "retro"], "live")
                     [] OTHER -> {})

\* Slip: the receipt carries the prefix of the retrospective it asks for.
MarkerOfSlip(task) ==
    CASE task = "redeliver" -> "redelivered"
      [] task = "summon" -> "assigned"
      [] task = "retro" -> "retro"
      [] task = "chase" -> "chased"

MarkerOf(task) ==
    CASE task = "redeliver" -> "redelivered"
      [] task = "summon" -> "assigned"
      [] task = "retro" -> "receipt"
      [] task = "chase" -> "chased"

\* Slack first, then the marker; a retrospective's receipt only once per head.
Mark(g) ==
    LET r == run[g]
        kept == r.task = "retro" /\ Has("receipt", r.head, Now)
    IN  /\ Step(g, "mark")
        /\ IF kept THEN UNCHANGED <<log, sent>> ELSE Publish(By(g, MarkerOf(r.task)))
        /\ End(g)

RunSteps(g) ==
    \/ StartScan(g) \/ RecordSkip(g) \/ StartRoute(g)
    \/ Refresh(g) \/ EnsurePin(g) \/ PostPin(g) \/ CheckClosure(g)
    \/ EnsureGate(g) \/ CheckHeld(g) \/ CheckOwed(g) \/ CheckLive(g) \/ CheckAgain(g)
    \/ Post(g) \/ Send(g) \/ Mark(g)

World ==
    \/ Close \/ Retarget \/ Hold \/ Refuse \/ Comment
    \/ \E h \in Heads : \/ Push(h) \/ Testimony(h)
                       \/ \E result \in Results : Review(h, result) \/ Substitute(h, result)

Next ==
    \/ World \/ Sweep \/ Minutes \/ Hours
    \/ \E g \in Groups : RunSteps(g) \/ Crash(g)

\* Started runs proceed, the schedule fires again and again, and time passes.
Fairness ==
    /\ WF_vars(Sweep) /\ WF_vars(Minutes) /\ WF_vars(Hours)
    /\ \A g \in Groups : WF_vars(RunSteps(g))

Spec == Init /\ [][Next]_vars
FairSpec == Spec /\ Fairness

-----------------------------------------------------------------------------
(* Properties.                                                             *)

HeadAt(n) == log[Latest({i \in 1..n : log[i].kind = "push"})].head
OpenAt(n) == \A i \in 1..n : log[i].kind # "close"

Posted(kinds) == {i \in 1..Now : log[i].kind \in kinds}
Same(i) == {j \in 1..Now : /\ log[j].kind = log[i].kind /\ log[j].by = log[i].by
                           /\ log[j].head = log[i].head /\ log[j].about = log[i].about}

\* In this step the run of g posts a gate, a nudge or the word that testimony is
\* missing, or sends its message.
Publishes(g) ==
    /\ run[g].pc \in {"post", "send"} \/ (run[g].pc = "mark" /\ run[g].task = "chase")
    /\ run'[g] # run[g] /\ failures' = failures

\* A group never posts a marker of a head (or of a verdict) twice: the
\* check-then-post of the markers is sound where runs are serialised.
MarkedOnce == \A i \in Posted(Markers) : Cardinality(Same(i)) = 1

\* A group repeats a message only after a run died, which it may have done
\* between the message and its marker (Slack first, then the marker).
ToldOnce ==
    [][\A g \in Groups :
         Publishes(g) /\ run[g].pc = "send" /\ Message(g) \in sent => failures > 0]_vars

\* A seat is woken, a reviewer asked and a gate raised only for a head that was
\* the open PR's when the run last looked, after any evidence it posted; a
\* chase is about a head the PR still has, open or closed.
DeadHeadsAreQuiet ==
    [][\A g \in Groups :
         Publishes(g) => /\ run[g].head = HeadAt(run[g].lived)
                         /\ OpenAt(run[g].lived) \/ run[g].task = "chase"]_vars

\* What a scan publishes restates or presumes the verdict that was the head's
\* latest when the scan looked again, however late after its snapshot.
ScansAreCurrent ==
    [][\A g \in Groups :
         Publishes(g) /\ run[g].job = "scan" /\ run[g].task # "chase" =>
            /\ run[g].seen >= run[g].began
            /\ Verdict(run[g].head, run[g].seen) = run[g].about]_vars

\* In so far as its snapshot could tell, the run publishes nothing a stop forbids.
\* Testimony is chased where it was requested and, at the last look, was missing.
Respectful(r) ==
    /\ Has("gate", r.head, r.began) <=> r.task = "chase"
    /\ r.task = "chase" => /\ \E m \in sent : m.kind = "retro" /\ m.head = r.head
                           /\ r.about <= MaxChases /\ r.seen >= r.began
                           /\ ~Has("testimony", r.head, r.seen)
    /\ r.task = "redeliver" => \A d \in Disposed(r.head, r.began) : d < r.about
    /\ r.task \in {"nudge", "summon"} =>
          Disposed(r.head, r.began) = {} /\ Cardinality(Reviewed(r.began)) < MaxRounds

\* Nothing is redelivered or asked for at a head a human was given, and nobody
\* is asked to review once MaxRounds heads were reviewed (_scan_open_pull,
\* redeliver_standing_wake).
StopsAreRespected ==
    [][\A g \in Groups : Publishes(g) /\ run[g].job = "scan" => Respectful(run[g])]_vars

\* A marker that says somebody was told is preceded by the message that told;
\* "re-asked once, no verdict has reached this PR" by the message that re-asked.
MarkersTellTheTruth ==
    /\ \A i \in Posted({"chased"}) : \A k \in 1..log[i].about :
          k < MaxChases => \E m \in sent : m.kind = "chase" /\ m.head = log[i].head /\ m.about = k
    /\ \A task \in {"redeliver", "summon", "retro"} :
          \A i \in Posted({MarkerOf(task)}) :
              [kind |-> task, head |-> log[i].head, about |-> log[i].about, by |-> log[i].by] \in sent

\* The run's message tells the seat that its head is CLEAN.
SaysClean(r) ==
    r.pc = "send" /\ (r.task = "clean" \/ (r.task = "redeliver" /\ log[r.about].result = "clean"))

\* A seat is told CLEAN only of a PR that was not pointed at another base
\* between the verdict and the run's closure check.
CleanNamesItsSubject ==
    [][\A g \in Groups :
         Publishes(g) /\ SaysClean(run[g]) =>
            /\ run[g].closed > 0
            /\ \A j \in run[g].about..run[g].closed : log[j].kind # "retarget"]_vars

\* The event route never says CLEAN of a head after it said findings of it
\* unless a clean verdict came in between.
CleanAfterBurnIsNew ==
    [][\A g \in Groups, m \in sent :
         Publishes(g) /\ run[g].task = "clean" /\ m.kind = "burn" /\ m.head = run[g].head =>
            \E v \in Verdicts(m.head, Now) : log[v].result = "clean" /\ v > m.about]_vars

\* The head's latest verdict asks for a seat's attention, nothing excuses the
\* loop from giving it, and no message about it was sent.
Unheard ==
    LET v == Verdict(head, Now)
    IN  /\ open /\ v > 0
        /\ log[v].result = "clean" \/ Standing(head, Now) # {}
        /\ ~Has("gate", head, Now)
        /\ \A d \in Disposed(head, Now) : d < v
        /\ ~(log[v].result = "clean" /\ \E i \in 1..Now : log[i].kind = "retarget")
        /\ \A m \in sent : m.about = v => m.kind \notin {"clean", "burn", "gatewake", "redeliver"}

BelowBound == Cardinality(Reviewed(Now)) < MaxRounds

\* A verdict whose routing run was cancelled or died reaches its seat by a
\* later sweep: no clean verdict, and below the bound no findings, stay unheard.
VerdictsAreHeard ==
    []<>~(Unheard /\ (BelowBound \/ log[Verdict(head, Now)].result = "clean"))

\* review-loop.yml: the scheduled enumeration "is the belt's reconciliation leg
\* for a verdict whose routing was dropped".
DroppedVerdictsAreReconciled == []<>~Unheard

\* Nobody reviewed the head, nobody was asked to, and nothing excuses it.
Unasked ==
    /\ open /\ head \notin Reviewed(Now) /\ BelowBound
    /\ Disposed(head, Now) = {} /\ ~Has("nudge", head, Now)
    /\ ~\E m \in sent : m.kind = "summon" /\ m.head = head

\* A head nobody reviews gets a reviewer: it is nudged or a substitute summoned.
HeadsGetReviewers == []<>~Unasked

=============================================================================
