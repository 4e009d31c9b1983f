------------------------ MODULE ReviewLoopToldProofs ------------------------
(***************************************************************************)
(* Theorems about what the review loop says in #hive, which it cannot read *)
(* back: that it does not say a thing twice, and that CLEAN after a burn   *)
(* is news.                                                                *)
(*                                                                         *)
(* A route's message is never repeated because the verdict group serves    *)
(* its verdicts in their order: whatever was said is about an earlier      *)
(* verdict than the one that waits.  A scan's message is not repeated      *)
(* because its marker follows, unless the run dies in between.             *)
(***************************************************************************)
EXTENDS ReviewLoopProofs

-----------------------------------------------------------------------------
(* The inductive invariant.                                                *)

\* The run of the group that routes verdicts, and the one that waits there.
Serving == run["verdict"]
Waiting == pending["verdict"]

RouteKinds == {"clean", "burn", "gatewake", "retro"}
ScanKinds  == {"redeliver", "summon", "chase"}

IsRoute(r) == r.job = "route"

\* What was said of the run's own verdict, and it will not say again.
Behind(r, m) == \/ m.kind = "gatewake" /\ r.task = "retro"
                \/ m.kind = "retro" /\ r.pc = "mark"

Before(m, r) == m.about < r.about \/ (m.about = r.about /\ Behind(r, m))

\* Verdicts are routed in their order, and so are the messages about them.  An
\* idle group has no verdict waiting.
RoutesAreInOrder ==
    /\ Serving.pc = "idle" => ~IsRoute(Waiting)
    /\ IsRoute(Serving) /\ IsRoute(Waiting) => Serving.about < Waiting.about
    /\ \A m \in sent : m.kind \in RouteKinds =>
          /\ m.by = "verdict" /\ m.about <= Now
          /\ IsRoute(Waiting) => m.about < Waiting.about
          /\ IsRoute(Serving) => Before(m, Serving)

\* The message has its marker, or its run is about to post it.
Marked(m) == \E i \in 1..Now : /\ log[i].kind = MarkerOf(m.kind) /\ log[i].by = m.by
                               /\ log[i].head = m.head /\ log[i].about = m.about
AtMark(m) == run[m.by].pc = "mark" /\ Message(m.by) = m

ScansAreMarked == failures = 0 => \A m \in sent : m.kind \in ScanKinds => Marked(m) \/ AtMark(m)

\* Verdicts say something, and CLEAN is not said of findings.
CleanIsFounded ==
    /\ \A i \in 1..Now : log[i].kind = "verdict" => log[i].result \in Results
    /\ IsRoute(Serving) /\ Serving.task = "clean" => log[Serving.about].result # "findings"

ToldInv == LoopInv /\ RoutesAreInOrder /\ ScansAreMarked /\ CleanIsFounded

-----------------------------------------------------------------------------
(* Where a step leaves the runs.                                           *)

\* q is r a step later.
Follows(r, q) ==
    /\ r.pc # "mark" /\ q.job = r.job /\ q.pc # "idle"
    /\ IsRoute(r) => /\ q.about = r.about
                     /\ r.task = "retro" => q.task = "retro"
                     /\ q.task = "clean" => r.task = "clean" \/ log[r.about].result # "findings"

LEMMA ScanningFollows ==
    ASSUME NEW r, r.job = "scan", r.pc = "start", NEW q \in Scanning PROVE Follows(r, q)
<1>1. q.job = "scan" /\ q.pc # "idle"
  BY DEF Scanning, Scan, Idle
<1> QED BY <1>1 DEF Follows, IsRoute

LEMMA ToFollows ==
    ASSUME NEW r \in Run, NEW r1 \in Run, r1.job = r.job, r1.about = r.about, r1.task = r.task,
           r.pc # "mark", NEW p \in PCs \ {"idle"}, NEW q \in To(r1, p)
    PROVE  Follows(r, q)
<1>1. q.job = r1.job /\ q.about = r1.about /\ q.task = r1.task /\ q.pc = p
  BY Moved
<1> QED BY <1>1 DEF Follows

LEMMA RoutedFollows ==
    ASSUME NEW r \in Run, NEW r1 \in Run, r1.job = r.job, r1.about = r.about, r.job = "route",
           r.task = "none", r.pc # "mark", NEW q \in Routed(r1)
    PROVE  Follows(r, q)
<1>1. PICK t \in {"clean", "burn", "gatewake"}, p \in {"closure", "live", "gate"} :
         /\ q \in To([r1 EXCEPT !.task = t], p)
         /\ t = "clean" => log[r1.about].result # "findings"
  BY DEF Routed, Burns, Closes
<1>2. /\ [r1 EXCEPT !.task = t] \in Run /\ [r1 EXCEPT !.task = t].task = t
      /\ [r1 EXCEPT !.task = t].job = r1.job /\ [r1 EXCEPT !.task = t].about = r1.about
  BY DEF Run, Tasks
<1>3. p \in PCs /\ p # "idle"
  BY DEF PCs
<1>4. q.job = r1.job /\ q.about = r1.about /\ q.task = t /\ q.pc = p
  <2> DEFINE r2 == [r1 EXCEPT !.task = t]
  <2>1. r2 \in Run /\ q \in To(r2, p) /\ r2.job = r1.job /\ r2.about = r1.about /\ r2.task = t
    BY <1>1, <1>2
  <2> HIDE DEF r2
  <2> QED BY <1>3, <2>1, Moved
<1> QED BY <1>1, <1>4 DEF Follows

\* Wherever a run goes on, it does so as itself.
LEMMA StepsFollow ==
    ASSUME LoopInv, NEW g \in Groups, RunSteps(g), ~Send(g)
    PROVE  \E Rs : GoOn(g, Rs) /\ \A q \in Rs : Follows(run[g], q)
<1> DEFINE r == run[g]
           looked == [r EXCEPT !.seen = Now, !.lived = Now]
<1>1. /\ r \in Run /\ Staged(g, r) /\ base \in {0, 1} /\ Now \in Nat /\ head \in Heads
      /\ {"refresh", "held", "live", "post", "relive", "send", "mark", "closure", "pin",
          "postpin"} \subseteq PCs \ {"idle"}
  BY RunFound DEF TypeOK, PCs
<1>2. \A r1 \in {r, [r EXCEPT !.closed = Now], [r EXCEPT !.lived = Now], looked,
                 [r EXCEPT !.note = base], [r EXCEPT !.head = head, !.began = Now]} :
         r1 \in Run /\ r1.job = r.job /\ r1.about = r.about /\ r1.task = r.task
  <2> DEFINE Still(r1) == r1 \in Run /\ r1.job = r.job /\ r1.about = r.about /\ r1.task = r.task
  <2>1. Still([r EXCEPT !.closed = Now]) /\ Still([r EXCEPT !.lived = Now])
    BY <1>1 DEF Run
  <2>2. Still(looked)
    BY <1>1 DEF Run
  <2>3. Still([r EXCEPT !.note = base])
    BY <1>1 DEF Run
  <2>4. Still([r EXCEPT !.head = head, !.began = Now])
    BY <1>1 DEF Run
  <2>5. Still(r)
    BY <1>1
  <2> HIDE DEF Still
  <2>6. \A r1 \in {r, [r EXCEPT !.closed = Now], [r EXCEPT !.lived = Now], looked,
                   [r EXCEPT !.note = base], [r EXCEPT !.head = head, !.began = Now]} : Still(r1)
    BY <2>1, <2>2, <2>3, <2>4, <2>5
  <2> QED BY <2>6 DEF Still
<1>3. /\ r.pc = "pin" \/ r.pc = "postpin" => r.job = "route" /\ r.task = "none"
      /\ r.pc = "refresh" => r.job = "scan" \/ (r.job = "route" /\ r.task = "none")
  BY <1>1 DEF Staged
<1>4. CASE StartRoute(g)
  <2> DEFINE Rs == IF AtHead(r) THEN To([r EXCEPT !.head = head, !.began = Now], "refresh") ELSE {}
  <2>1. GoOn(g, Rs) /\ r.pc # "mark"
    BY <1>4 DEF StartRoute, Step
  <2>2. \A q \in Rs : Follows(r, q)
    BY <1>1, <1>2, <1>3, <2>1, ToFollows
  <2> HIDE DEF Rs
  <2> QED BY <2>1, <2>2
<1>5. CASE CheckClosure(g)
  <2> DEFINE Rs == IF StaleBase(r) \/ RetargetedAfter(r.about) THEN {}
                     ELSE To([r EXCEPT !.closed = Now], IF r.job = "scan" THEN "held" ELSE "live")
  <2>1. GoOn(g, Rs) /\ r.pc # "mark"
    BY <1>5 DEF CheckClosure, Step
  <2>2. \A q \in Rs : Follows(r, q)
    BY <1>1, <1>2, <1>3, <2>1, ToFollows
  <2> HIDE DEF Rs
  <2> QED BY <2>1, <2>2
<1>6. CASE EnsureGate(g)
  <2> DEFINE Rs == IF Has("gate", r.head, Now) THEN To(r, "live")
                     ELSE IF Live(r) THEN To([r EXCEPT !.lived = Now], "post") ELSE {}
  <2>1. GoOn(g, Rs) /\ r.pc # "mark"
    BY <1>6 DEF EnsureGate, Step
  <2>2. \A q \in Rs : Follows(r, q)
    BY <1>1, <1>2, <1>3, <2>1, ToFollows
  <2> HIDE DEF Rs
  <2> QED BY <2>1, <2>2
<1>7. CASE CheckHeld(g)
  <2> DEFINE Rs == IF ~(Held(looked) /\ Live(looked)) THEN {}
                     ELSE IF looked.task \in {"gate", "nudge"} THEN To(looked, "post")
                     ELSE Dispatch(looked)
  <2>1. GoOn(g, Rs) /\ r.pc # "mark"
    BY <1>7 DEF CheckHeld, Step
  <2>2. \A q \in Rs : Follows(r, q)
    BY <1>1, <1>2, <1>3, <2>1, ToFollows DEF Dispatch
  <2> HIDE DEF Rs
  <2> QED BY <2>1, <2>2
<1>8. CASE CheckOwed(g)
  <2> DEFINE Rs == LET missing == ~Has("testimony", looked.head, Now) /\ Spent(looked.head, Now) < looked.about
                     IN  IF missing /\ Live(looked)
                           THEN To(looked, IF looked.about < MaxChases THEN "send" ELSE "mark") ELSE {}
  <2>1. GoOn(g, Rs) /\ r.pc # "mark"
    BY <1>8 DEF CheckOwed, Step
  <2>2. \A q \in Rs : Follows(r, q)
    BY <1>1, <1>2, <1>3, <2>1, ToFollows
  <2> HIDE DEF Rs
  <2> QED BY <2>1, <2>2
<1>9. CASE CheckLive(g)
  <2> DEFINE Rs == IF Live([r EXCEPT !.lived = Now]) THEN Dispatch([r EXCEPT !.lived = Now]) ELSE {}
  <2>1. GoOn(g, Rs) /\ r.pc # "mark"
    BY <1>9 DEF CheckLive, Step
  <2>2. \A q \in Rs : Follows(r, q)
    BY <1>1, <1>2, <1>3, <2>1, ToFollows DEF Dispatch
  <2> HIDE DEF Rs
  <2> QED BY <2>1, <2>2
<1>10. CASE CheckAgain(g)
  <2> DEFINE Rs == IF Live([r EXCEPT !.lived = Now]) THEN To([r EXCEPT !.lived = Now], "send") ELSE {}
  <2>1. GoOn(g, Rs) /\ r.pc # "mark"
    BY <1>10 DEF CheckAgain, Step
  <2>2. \A q \in Rs : Follows(r, q)
    BY <1>1, <1>2, <1>3, <2>1, ToFollows
  <2> HIDE DEF Rs
  <2> QED BY <2>1, <2>2
<1>11. CASE Post(g)
  <2> DEFINE Rs == IF r.task = "gatewake" THEN To(r, "live") ELSE {}
  <2>1. GoOn(g, Rs) /\ r.pc # "mark"
    BY <1>11 DEF Post, Step
  <2>2. \A q \in Rs : Follows(r, q)
    BY <1>1, <1>2, <1>3, <2>1, ToFollows
  <2> HIDE DEF Rs
  <2> QED BY <2>1, <2>2
<1>12. CASE StartScan(g)
  <2> DEFINE skips == g = "push" /\ open /\ head \in SkipHeads /\ ~Has("skip", head, Now)
             skip  == [r EXCEPT !.head = head, !.pc = "skip"]
             Rs    == IF skips THEN {skip} ELSE IF open THEN Scanning ELSE {}
  <2>1. GoOn(g, Rs) /\ r.pc = "start" /\ r.job = "scan"
    BY <1>12 DEF StartScan, Step
  <2>2. Follows(r, skip)
    BY <1>1, <2>1 DEF Follows, IsRoute, Run
  <2>3. \A q \in Rs : Follows(r, q)
    BY <2>1, <2>2, ScanningFollows
  <2> HIDE DEF Rs
  <2> QED BY <2>1, <2>3
<1>13. CASE Refresh(g)
  <2> DEFINE r1 == [r EXCEPT !.note = base]
             Rs == IF ~Live(r1) THEN {}
                   ELSE IF r1.job = "scan"
                     THEN To(r1, IF log[r1.about].result = "clean" THEN "closure" ELSE "held")
                   ELSE IF Has("pin", r1.head, r1.began) THEN Routed(r1) ELSE To(r1, "pin")
  <2>1. GoOn(g, Rs) /\ r.pc = "refresh"
    BY <1>13 DEF Refresh, Step
  <2>2. r1 \in Run /\ r1.job = r.job /\ r1.about = r.about /\ r1.task = r.task
    BY <1>2
  <2> HIDE DEF r1, r
  <2>3. ASSUME NEW q \in Rs PROVE Follows(r, q)
    <3>1. CASE r.job = "scan"
      BY <1>1, <2>1, <2>2, <2>3, <3>1, ToFollows
    <3>2. CASE r.job # "scan" /\ q \in Routed(r1)
      BY <1>1, <1>3, <2>1, <2>2, <3>2, RoutedFollows
    <3>3. CASE r.job # "scan" /\ q \in To(r1, "pin")
      BY <1>1, <2>1, <2>2, <3>3, ToFollows
    <3> QED BY <2>2, <2>3, <3>1, <3>2, <3>3
  <2> HIDE DEF Rs
  <2> QED BY <2>1, <2>3 DEF r
<1>14. CASE EnsurePin(g)
  <2> DEFINE Rs == IF Has("pin", r.head, Now) THEN Routed(r)
                   ELSE IF Live(r) THEN To(r, "postpin") ELSE {}
  <2>1. GoOn(g, Rs) /\ r.pc = "pin"
    BY <1>14 DEF EnsurePin, Step
  <2>2. ASSUME NEW q \in Rs PROVE Follows(r, q)
    BY <1>1, <1>3, <2>1, <2>2, ToFollows, RoutedFollows
  <2> HIDE DEF Rs
  <2> QED BY <2>1, <2>2
<1>15. CASE PostPin(g)
  <2>1. GoOn(g, Routed(r)) /\ r.pc = "postpin"
    BY <1>15 DEF PostPin, Step
  <2>2. ASSUME NEW q \in Routed(r) PROVE Follows(r, q)
    BY <1>1, <1>3, <2>1, <2>2, RoutedFollows
  <2> QED BY <2>1, <2>2
<1>16. CASE RecordSkip(g) \/ Mark(g)
  <2>1. GoOn(g, {})
    BY <1>16 DEF RecordSkip, Mark, GoOn
  <2> QED BY <2>1
<1> QED BY <1>4, <1>5, <1>6, <1>7, <1>8, <1>9, <1>10, <1>11, <1>12, <1>13, <1>14, <1>15, <1>16
    DEF RunSteps

\* The run of a group after a step of it: what it goes on as, or the waiting one.
LEMMA GoneOn ==
    ASSUME TypeOK, NEW g \in Groups, NEW Rs, GoOn(g, Rs)
    PROVE  \E q : /\ run' = [run EXCEPT ![g] = q]
                  /\ \/ q \in Rs /\ pending' = pending
                     \/ Rs = {} /\ q = pending[g] /\ pending' = [pending EXCEPT ![g] = Idle]
<1>1. CASE Rs = {}
  BY <1>1 DEF GoOn, End, NoRun
<1>2. CASE Rs # {}
  BY <1>2 DEF GoOn, Continue
<1> QED BY <1>1, <1>2

\* What a step of a run writes is a marker of it.
LEMMA StepsMark ==
    ASSUME LoopInv, NEW g \in Groups, RunSteps(g)
    PROVE  /\ failures' = failures /\ (~Send(g) => sent' = sent)
           /\ \E e : Grows(e) /\ (log' = log \/ e.kind \in Markers)
<1> DEFINE r == run[g]
<1>1. r \in Run /\ Staged(g, r) /\ r.note \in Nat
  BY RunFound DEF Run
<1>2. \A kind \in Markers : By(g, kind) \in Entries /\ By(g, kind).kind = kind
  <2>1. 0 \in Nat
    OBVIOUS
  <2> QED BY <2>1, ByTyped
<1>3. failures' = failures /\ (~Send(g) => sent' = sent)
  BY DEF RunSteps, StartScan, RecordSkip, StartRoute, Refresh, EnsurePin, PostPin, CheckClosure,
         EnsureGate, CheckHeld, CheckOwed, CheckLive, CheckAgain, Post, Send, Mark, Step, Publish
<1>4. CASE log' = log
  BY <1>3, <1>4 DEF Grows
<1>5. CASE RecordSkip(g)
  <2>1. "skip" \in Markers /\ log' = Append(log, By(g, "skip"))
    BY <1>5 DEF RecordSkip, Publish, Markers
  <2>2. By(g, "skip") \in Entries /\ By(g, "skip").kind = "skip"
    BY <1>2, <2>1
  <2> QED BY <1>3, <2>1, <2>2 DEF Grows
<1>6. CASE PostPin(g)
  <2> DEFINE e == [By(g, "pin") EXCEPT !.note = r.note]
  <2>1. "pin" \in Markers /\ log' = Append(log, e)
    BY <1>6 DEF PostPin, Publish, Markers
  <2>2. e \in Entries /\ e.kind = "pin"
    BY <1>1, <2>1, ByTyped
  <2> HIDE DEF e
  <2> QED BY <1>3, <2>1, <2>2 DEF Grows
<1>7. CASE Post(g)
  <2> DEFINE kind == IF r.task = "nudge" THEN "nudge" ELSE "gate"
             e    == By(g, kind)
  <2>1. kind \in Markers /\ log' = Append(log, e)
    BY <1>7 DEF Post, Publish, Markers
  <2>2. e \in Entries /\ e.kind = kind
    BY <1>2, <2>1
  <2> HIDE DEF e
  <2> QED BY <1>3, <2>1, <2>2 DEF Grows
<1>8. CASE Mark(g) /\ log' # log
  <2> DEFINE kind == MarkerOf(r.task)
             e    == By(g, kind)
  <2>1. r.task \in {"retro", "redeliver", "summon", "chase"} /\ log' = Append(log, e)
    BY <1>1, <1>8 DEF Mark, Step, Publish, Staged
  <2>2. kind \in Markers
    BY <2>1 DEF MarkerOf, Markers
  <2>3. e \in Entries /\ e.kind = kind
    BY <1>2, <2>2
  <2> HIDE DEF e
  <2> QED BY <1>3, <2>1, <2>2, <2>3 DEF Grows
<1>9. log' = log \/ RecordSkip(g) \/ PostPin(g) \/ Post(g) \/ Mark(g)
  BY DEF RunSteps, StartScan, StartRoute, Refresh, EnsurePin, CheckClosure, EnsureGate, CheckHeld,
         CheckOwed, CheckLive, CheckAgain, Send
<1> QED BY <1>4, <1>5, <1>6, <1>7, <1>8, <1>9

\* A run that comes from outside: of a verdict that is written now, or of none.
Comes(g, r) == IsRoute(r) => /\ g = "verdict" /\ r.task = "none"
                             /\ r.about = Now + 1 /\ Now' = Now + 1

\* It starts, or takes the waiting place, which verdicts do in a busy group.
Joins(g, r) ==
    \/ run' = run /\ pending' = pending
    \/ run[g].pc = "idle" /\ run' = [run EXCEPT ![g] = r] /\ pending' = pending
    \/ /\ run[g].pc # "idle" \/ ~IsRoute(r)
       /\ run' = run /\ pending' = [pending EXCEPT ![g] = r]

\* What the outside world and the schedule do to the log and to the runs.
WorldSteps == World \/ Sweep \/ Minutes \/ Hours \/ UNCHANGED vars

LEMMA WorldMeans ==
    ASSUME LoopInv, WorldSteps
    PROVE  /\ sent' = sent /\ failures' = failures
           /\ \E e : /\ Grows(e)
                     /\ log' = log \/ (e.kind \in Events /\ (e.kind = "verdict" => e.result \in Results))
           /\ \E g \in Groups : \E r :
                 Comes(g, r) /\ Joins(g, r)
<1> DEFINE Ran(g, r) == Comes(g, r) /\ Joins(g, r)
           Logged(e) == /\ Grows(e)
                        /\ log' = log \/ (e.kind \in Events /\ (e.kind = "verdict" => e.result \in Results))
           Told == sent' = sent /\ failures' = failures
<1>1. /\ {"verdict", "push", "sweep"} \subseteq Groups /\ ~IsRoute(Idle) /\ ~IsRoute(Scan)
      /\ Idle.pc = "idle" /\ log \in Seq(Entries) /\ Now \in Nat /\ head \in Heads
  BY DEF Groups, IsRoute, Idle, Scan, LoopInv, TypeOK, Now
<1>2. \A g : Comes(g, Idle) /\ Comes(g, Scan)
  BY <1>1 DEF Comes
<1>3. ASSUME NEW g \in Groups, NEW r, Comes(g, r), Arrive(g, r) PROVE Ran(g, r)
  BY <1>3 DEF Arrive, Joins
<1>4. ASSUME NEW kind \in Events, kind # "verdict", NEW h \in Heads \union {NoHead},
             log' = Append(log, Entry(kind, h))
      PROVE  Logged(Entry(kind, h))
  BY <1>4, EntryTyped DEF Grows
<1>5. CASE log' = log /\ run' = run /\ pending' = pending /\ Told
  BY <1>1, <1>2, <1>5 DEF Grows, Joins
<1>6. CASE Close \/ Retarget \/ Hold \/ Refuse
  <2>1. {"close", "retarget", "hold", "refusal"} \subseteq Events
    BY DEF Events
  <2>2. Told
    BY <1>6 DEF Close, Retarget, Hold, Refuse, FromOutside
  <2>3. \E e : Logged(e)
    BY <1>1, <1>4, <1>6, <2>1 DEF Close, Retarget, Hold, Refuse
  <2>4. \E g \in Groups : \E r : Ran(g, r)
    BY <1>1, <1>2, <1>3, <1>6 DEF Close, Retarget, Hold, Refuse, groupVars, Joins
  <2> QED BY <2>2, <2>3, <2>4
<1>7. CASE Comment
  <2>1. Told /\ log' = log /\ Ran("verdict", Idle)
    BY <1>1, <1>2, <1>7 DEF Comment, FromOutside, NoRun, Joins
  <2> QED BY <1>1, <2>1 DEF Grows
<1>8. ASSUME NEW h \in Heads, Push(h) \/ Testimony(h)
      PROVE  Told /\ (\E e : Logged(e)) /\ \E g \in Groups : \E r : Ran(g, r)
  <2>1. {"push", "testimony"} \subseteq Events
    BY DEF Events
  <2>2. Told
    BY <1>8 DEF Push, Testimony, FromOutside
  <2>3. \E e : Logged(e)
    BY <1>1, <1>4, <1>8, <2>1 DEF Push, Testimony
  <2>4. \E g \in Groups : \E r : Ran(g, r)
    BY <1>1, <1>2, <1>3, <1>8 DEF Push, Testimony, groupVars, Joins
  <2> QED BY <2>2, <2>3, <2>4
<1>9. ASSUME NEW h \in Heads, NEW result \in Results, Review(h, result) \/ Substitute(h, result)
      PROVE  Told /\ (\E e : Logged(e)) /\ \E g \in Groups : \E r : Ran(g, r)
  <2>1. Told /\ Arrive("verdict", Route(Now + 1))
    BY <1>9 DEF Review, Substitute, FromOutside
  <2>2. PICK e : /\ e \in Entries /\ e.kind = "verdict" /\ e.result = result /\ log' = Append(log, e)
    BY <1>9, VerdictTyped
  <2>3. Logged(e)
    BY <2>2 DEF Grows, Events
  <2>4. Now' = Now + 1
    BY <1>1, <2>2 DEF Now
  <2>5. Route(Now + 1).task = "none" /\ Route(Now + 1).about = Now + 1
    BY DEF Route, Idle
  <2>6. Ran("verdict", Route(Now + 1))
    BY <1>1, <1>3, <2>1, <2>4, <2>5 DEF Comes
  <2> QED BY <1>1, <2>1, <2>3, <2>6
<1>10. CASE Sweep
  <2>1. PICK r \in Scanning : run' = [run EXCEPT !["sweep"] = r]
    BY <1>10 DEF Sweep, Chasing
  <2>2. ~IsRoute(r)
    BY <2>1 DEF Scanning, Scan, Idle, IsRoute
  <2>3. Ran("sweep", r)
    BY <1>1, <1>10, <2>1, <2>2 DEF Sweep, Comes, Joins
  <2>4. Told /\ log' = log
    BY <1>10 DEF Sweep
  <2> QED BY <1>1, <2>3, <2>4 DEF Grows
<1>11. CASE Minutes \/ Hours \/ UNCHANGED vars
  BY <1>5, <1>11 DEF Minutes, Hours, vars, groupVars
<1> QED BY <1>6, <1>7, <1>8, <1>9, <1>10, <1>11 DEF WorldSteps, World

-----------------------------------------------------------------------------
(* The invariant is kept.                                                  *)

\* The verdict that is routed, or waits to be, is in the log.
LEMMA RoutedIsLogged ==
    ASSUME LoopInv
    PROVE  /\ log \in Seq(Entries) /\ Now \in Nat /\ "verdict" \in Groups
           /\ run \in [Groups -> Run] /\ pending \in [Groups -> Run]
           /\ IsRoute(Serving) => Serving.about \in 1..Now
           /\ IsRoute(Waiting) => Waiting.about \in 1..Now /\ Waiting.task = "none"
           /\ Serving \in Run /\ Waiting \in Run
           /\ \A m \in sent : m.about \in Nat /\ m.by \in Groups
<1>1. /\ "verdict" \in Groups /\ log \in Seq(Entries) /\ Now \in Nat
      /\ run \in [Groups -> Run] /\ pending \in [Groups -> Run] /\ sent \subseteq Sent
  BY DEF LoopInv, TypeOK, Groups, Now
<1>2. Idle.job = "none" /\ Scan.job = "scan" /\ \A v : Route(v).task = "none"
  BY DEF Idle, Scan, Route
<1>3. ASSUME NEW r, Fresh("verdict", r), IsRoute(r) PROVE r.about \in 1..Now /\ r.task = "none"
  BY <1>2, <1>3 DEF Fresh, IsRoute
<1>4. Staged("verdict", Serving) /\ RouteIsCalledFor(Serving) /\ Fresh("verdict", Waiting)
  BY <1>1 DEF LoopInv, Sound, Serving, Waiting
<1>5. ASSUME IsRoute(Serving) PROVE Serving.about \in 1..Now
  <2>1. Serving.pc # "skip"
    BY <1>4, <1>5 DEF Staged, IsRoute
  <2>2. CASE Serving.pc \in {"idle", "start"}
    BY <1>3, <1>4, <1>5, <2>2 DEF Staged
  <2>3. CASE Working(Serving)
    <3>1. Serving.about \in 1..Serving.began /\ Serving.began \in 1..Now
      BY <1>4, <1>5, <2>3 DEF Staged, RouteIsCalledFor, IsRoute
    <3> QED BY <1>1, <3>1
  <2> QED BY <2>1, <2>2, <2>3 DEF Working
<1>6. \A m \in sent : m.about \in Nat /\ m.by \in Groups
  BY <1>1 DEF Sent
<1> QED BY <1>1, <1>3, <1>4, <1>5, <1>6 DEF Serving, Waiting

\* A message keeps its marker.
LEMMA MarkedStays ==
    ASSUME log \in Seq(Entries), NEW e, Grows(e), NEW m, Marked(m) PROVE Marked(m)'
<1>1. Now \in Nat /\ Now' \in Nat /\ Now' >= Now /\ \A i \in 1..Now : log'[i] = log[i]
  BY EntriesOfLog DEF Now
<1> QED BY <1>1 DEF Marked

\* A run of the verdict group at its next place, before the message it sends.
LEMMA OrderStays ==
    ASSUME LoopInv, RoutesAreInOrder, NEW e, Grows(e), NEW q, NEW p,
           Serving' = q, Waiting' = p,
           \/ q = Serving /\ p = Waiting
           \/ Follows(Serving, q) /\ p = Waiting
           \/ q = Waiting /\ p = Idle,
           \A m \in sent' : m.kind \in RouteKinds => m \in sent
    PROVE  RoutesAreInOrder'
<1>1. /\ Now \in Nat /\ Now' \in Nat /\ Now' >= Now
      /\ IsRoute(Serving) => Serving.about \in 1..Now
      /\ IsRoute(Waiting) => Waiting.about \in 1..Now
      /\ \A m \in sent : m.about \in Nat
  BY RoutedIsLogged, EntriesOfLog DEF Now
<1>2. ~IsRoute(Idle)
  BY DEF IsRoute, Idle
<1>3. /\ IsRoute(q) /\ IsRoute(p) => q.about < p.about
      /\ q.pc = "idle" => ~IsRoute(p)
  BY <1>2 DEF RoutesAreInOrder, Follows, IsRoute
<1>4. ASSUME NEW m \in sent, m.kind \in RouteKinds
      PROVE  /\ m.by = "verdict" /\ m.about <= Now'
             /\ IsRoute(p) => m.about < p.about
             /\ IsRoute(q) => Before(m, q)
  <2>1. /\ m.by = "verdict" /\ m.about <= Now
        /\ IsRoute(Waiting) => m.about < Waiting.about
        /\ IsRoute(Serving) => Before(m, Serving)
    BY <1>4 DEF RoutesAreInOrder
  <2>2. ASSUME Follows(Serving, q), IsRoute(q) PROVE Before(m, q)
    BY <2>1, <2>2 DEF Follows, IsRoute, Before, Behind
  <2>3. IsRoute(q) => Before(m, q)
    BY <2>1, <2>2 DEF Before
  <2> QED BY <1>1, <1>2, <2>1, <2>3
<1>5. /\ IsRoute(Serving') /\ IsRoute(Waiting') => Serving'.about < Waiting'.about
      /\ Serving'.pc = "idle" => ~IsRoute(Waiting')
      /\ \A m \in sent' : m.kind \in RouteKinds =>
            /\ m.by = "verdict" /\ m.about <= Now'
            /\ IsRoute(Waiting') => m.about < Waiting'.about
            /\ IsRoute(Serving') => Before(m, Serving')
  BY <1>3, <1>4
<1> QED BY <1>5 DEF RoutesAreInOrder, Before, Behind, IsRoute

\* What is said of the verdict that is routed stays so.
LEMMA CleanStaysFounded ==
    ASSUME LoopInv, CleanIsFounded, NEW e, Grows(e),
           log' = log \/ (e.kind = "verdict" => e.result \in Results),
           IsRoute(Serving') =>
              \/ IsRoute(Serving) /\ Serving'.about = Serving.about
                 /\ (Serving'.task = "clean" =>
                       Serving.task = "clean" \/ log[Serving.about].result # "findings")
              \/ Serving'.task = "none"
    PROVE  CleanIsFounded'
<1>1. /\ log \in Seq(Entries) /\ Now \in Nat /\ Now' \in Nat
      /\ IsRoute(Serving) => Serving.about \in 1..Now
      /\ \A i \in 1..Now : log'[i] = log[i]
      /\ \A i \in 1..Now' : i \notin 1..Now => log' # log /\ log'[i] = e
  <2>1. log \in Seq(Entries) /\ Now \in Nat /\ (IsRoute(Serving) => Serving.about \in 1..Now)
    BY RoutedIsLogged
  <2> QED BY <2>1, EntriesOfLog DEF Now
<1>2. \A i \in 1..Now' : log'[i].kind = "verdict" => log'[i].result \in Results
  BY <1>1 DEF CleanIsFounded
<1>3. IsRoute(Serving') /\ Serving'.task = "clean" => log'[Serving'.about].result # "findings"
  BY <1>1 DEF CleanIsFounded
<1> QED BY <1>2, <1>3 DEF CleanIsFounded, IsRoute

\* A step of a run that sends nothing.
LEMMA StepTells ==
    ASSUME ToldInv, NEW g \in Groups, RunSteps(g), ~Send(g)
    PROVE  RoutesAreInOrder' /\ ScansAreMarked' /\ CleanIsFounded'
<1>1. PICK Rs : GoOn(g, Rs) /\ \A q \in Rs : Follows(run[g], q)
  BY StepsFollow DEF ToldInv
<1>2. TypeOK /\ LoopInv
  BY DEF ToldInv, LoopInv
<1>3. PICK n : /\ run' = [run EXCEPT ![g] = n]
               /\ \/ n \in Rs /\ pending' = pending
                  \/ n = pending[g] /\ pending' = [pending EXCEPT ![g] = Idle]
  BY <1>1, <1>2, GoneOn
<1>4. PICK e : Grows(e) /\ (log' = log \/ e.kind \in Markers)
  BY <1>2, StepsMark
<1>5. failures' = failures /\ sent' = sent
  BY <1>2, StepsMark
<1>6. /\ log \in Seq(Entries) /\ "verdict" \in Groups /\ run \in [Groups -> Run]
      /\ pending \in [Groups -> Run] /\ \A m \in sent : m.by \in Groups
      /\ IsRoute(Waiting) => Waiting.task = "none"
  BY <1>2, RoutedIsLogged
<1>7. \/ Serving' = Serving /\ Waiting' = Waiting
      \/ Follows(Serving, Serving') /\ Waiting' = Waiting
      \/ Serving' = Waiting /\ Waiting' = Idle
  <2>1. CASE g # "verdict"
    BY <1>3, <1>6, <2>1 DEF Serving, Waiting
  <2>2. CASE g = "verdict"
    <3>1. Serving' = n /\ Serving = run[g]
      BY <1>3, <1>6, <2>2 DEF Serving
    <3> QED BY <1>1, <1>3, <1>6, <2>2, <3>1 DEF Serving, Waiting
  <2> QED BY <2>1, <2>2
<1>8. RoutesAreInOrder'
  <2>1. PICK q, p : q = Serving' /\ p = Waiting'
    OBVIOUS
  <2>2. \/ q = Serving /\ p = Waiting
        \/ Follows(Serving, q) /\ p = Waiting
        \/ q = Waiting /\ p = Idle
    BY <1>7, <2>1
  <2>3. RoutesAreInOrder
    BY DEF ToldInv
  <2> QED BY <1>2, <1>4, <1>5, <2>1, <2>2, <2>3, OrderStays
<1>9. CleanIsFounded'
  <2>1. IsRoute(Serving') =>
           \/ IsRoute(Serving) /\ Serving'.about = Serving.about
              /\ (Serving'.task = "clean" =>
                    Serving.task = "clean" \/ log[Serving.about].result # "findings")
           \/ Serving'.task = "none"
    BY <1>6, <1>7 DEF Follows, IsRoute
  <2>2. log' = log \/ (e.kind = "verdict" => e.result \in Results)
    BY <1>4 DEF Markers
  <2>3. CleanIsFounded
    BY DEF ToldInv
  <2> QED BY <1>2, <1>4, <2>1, <2>2, <2>3, CleanStaysFounded
<1>10. ScansAreMarked'
  <2> SUFFICES ASSUME failures = 0, NEW m \in sent, m.kind \in ScanKinds
               PROVE  Marked(m)' \/ AtMark(m)'
    BY <1>5 DEF ScansAreMarked, AtMark, Marked
  <2>1. CASE Marked(m)
    BY <1>4, <1>6, <2>1, MarkedStays
  <2>2. CASE AtMark(m) /\ m.by # g
    <3>1. run'[m.by] = run[m.by]
      BY <1>3, <1>6, <2>2
    <3> QED BY <2>2, <3>1 DEF AtMark, Message
  <2>3. CASE AtMark(m) /\ m.by = g
    <3>1. run[g].pc = "mark" /\ Mark(g)
      BY <2>3 DEF AtMark, RunSteps, StartScan, RecordSkip, StartRoute, Refresh, EnsurePin, PostPin,
                  CheckClosure, EnsureGate, CheckHeld, CheckOwed, CheckLive, CheckAgain, Post, Send, Step
    <3>2. /\ m.kind = run[g].task /\ m.head = run[g].head /\ m.about = run[g].about
      BY <2>3 DEF AtMark, Message
    <3> DEFINE kind == MarkerOf(m.kind)
               b    == By(g, kind)
    <3>3. log' = Append(log, b)
      BY <3>1, <3>2 DEF Mark, Publish, ScanKinds
    <3>4. kind \in Markers /\ 0 \in Nat
      BY DEF MarkerOf, Markers, ScanKinds
    <3>5. b.kind = kind /\ b.by = g /\ b.head = m.head /\ b.about = m.about /\ b \in Entries
      BY <1>2, <3>2, <3>4, ByTyped
    <3> HIDE DEF b, kind
    <3>6. Len(log) + 1 \in 1..Len(log') /\ log'[Len(log) + 1] = b
      BY <1>6, <3>3, <3>5
    <3>7. Marked(m)'
      BY <2>3, <3>5, <3>6 DEF Marked, Now, kind
    <3> QED BY <3>7
  <2>4. ScansAreMarked
    BY DEF ToldInv
  <2>5. Marked(m) \/ AtMark(m)
    BY <2>4 DEF ScansAreMarked
  <2> QED BY <2>1, <2>2, <2>3, <2>5
<1> QED BY <1>8, <1>9, <1>10

\* A run that sends its message, which is later than what was said.
LEMMA SendTells ==
    ASSUME ToldInv, NEW g \in Groups, Send(g)
    PROVE  RoutesAreInOrder' /\ ScansAreMarked' /\ CleanIsFounded'
<1> DEFINE r  == run[g]
           r1 == [r EXCEPT !.task = "retro"]
           Rs == CASE r.task \in {"redeliver", "summon", "retro", "chase"} -> To(r, "mark")
                   [] r.task = "gatewake" -> To(r1, "live")
                   [] OTHER -> {}
           msg == Message(g)
<1>1. /\ r.pc = "send" /\ log' = log /\ sent' = sent \union {msg} /\ GoOn(g, Rs)
      /\ failures' = failures
  BY DEF Send, Step
<1>2. /\ TypeOK /\ LoopInv /\ RoutesAreInOrder /\ ScansAreMarked /\ CleanIsFounded
      /\ r \in Run /\ Staged(g, r) /\ r1 \in Run
      /\ r1.job = r.job /\ r1.about = r.about /\ r1.task = "retro" /\ r1.head = r.head
  BY RunFound DEF ToldInv, Run, Tasks
<1>3. \/ r.job = "route" /\ r.task \in RouteKinds /\ g = "verdict"
      \/ r.job = "scan" /\ r.task \in ScanKinds
  BY <1>1, <1>2 DEF Staged, Working, RouteKinds, ScanKinds
<1>4. /\ msg.kind = r.task /\ msg.head = r.head /\ msg.about = r.about /\ msg.by = g
      /\ msg = [kind |-> r.task, head |-> r.head, about |-> r.about, by |-> g]
  BY DEF Message
<1>5. /\ log \in Seq(Entries) /\ "verdict" \in Groups /\ run \in [Groups -> Run]
      /\ pending \in [Groups -> Run] /\ \A m \in sent : m.by \in Groups /\ m.about \in Nat
      /\ IsRoute(Waiting) => Waiting.task = "none"
      /\ IsRoute(Serving) => Serving.about \in 1..Now
      /\ Now \in Nat /\ Now' = Now
  BY <1>1, <1>2, RoutedIsLogged DEF Now
<1>6. PICK n : /\ run' = [run EXCEPT ![g] = n]
               /\ \/ n \in Rs /\ pending' = pending
                  \/ Rs = {} /\ n = pending[g] /\ pending' = [pending EXCEPT ![g] = Idle]
  BY <1>1, <1>2, GoneOn
<1>7. \/ Serving' = Serving /\ Waiting' = Waiting /\ g # "verdict"
      \/ Serving' = n /\ Waiting' = Waiting /\ n \in Rs /\ g = "verdict"
      \/ Serving' = Waiting /\ Waiting' = Idle /\ g = "verdict"
  BY <1>5, <1>6 DEF Serving, Waiting
<1>8. "mark" \in PCs /\ "live" \in PCs
  BY DEF PCs
<1> HIDE DEF r1, msg
<1>9. ASSUME n \in Rs
      PROVE  /\ n.job = r.job /\ n.about = r.about /\ n.pc # "idle"
             /\ r.task # "gatewake" => n.task = r.task /\ n.head = r.head /\ n.pc = "mark"
             /\ r.task = "gatewake" => n.task = "retro"
             /\ r.task \in {"redeliver", "summon", "retro", "chase", "gatewake"}
  <2>1. CASE r.task \in {"redeliver", "summon", "retro", "chase"}
    BY <1>2, <1>8, <1>9, <2>1, Moved
  <2>2. CASE r.task = "gatewake"
    BY <1>2, <1>8, <1>9, <2>2, Moved
  <2> QED BY <1>3, <1>9, <2>1, <2>2
<1> HIDE DEF Rs
<1>10. RoutesAreInOrder'
  <2>1. ~IsRoute(Idle)
    BY DEF IsRoute, Idle
  <2>2. g = "verdict" => Serving = r
    BY DEF Serving
  <2>3. /\ IsRoute(Serving') /\ IsRoute(Waiting') => Serving'.about < Waiting'.about
        /\ Serving'.pc = "idle" => ~IsRoute(Waiting')
    BY <1>2, <1>7, <1>9, <2>1, <2>2 DEF RoutesAreInOrder, IsRoute
  <2>4. ASSUME NEW m \in sent', m.kind \in RouteKinds
        PROVE  /\ m.by = "verdict" /\ m.about <= Now
               /\ IsRoute(Waiting') => m.about < Waiting'.about
               /\ IsRoute(Serving') => Before(m, Serving')
    <3>1. CASE m \in sent
      <4>1. /\ m.by = "verdict" /\ m.about <= Now
            /\ IsRoute(Waiting) => m.about < Waiting.about
            /\ IsRoute(Serving) => Before(m, Serving)
        BY <1>2, <2>4, <3>1 DEF RoutesAreInOrder
      <4>2. CASE Serving' = Serving /\ Waiting' = Waiting
        BY <4>1, <4>2
      <4>3. CASE Serving' = n /\ Waiting' = Waiting /\ n \in Rs /\ g = "verdict"
        <5>1. IsRoute(n) => Before(m, n)
          BY <1>1, <1>9, <2>2, <4>1, <4>3 DEF Before, Behind, IsRoute
        <5> QED BY <4>1, <4>3, <5>1
      <4>4. CASE Serving' = Waiting /\ Waiting' = Idle /\ g = "verdict"
        <5>1. IsRoute(Waiting) => Before(m, Waiting)
          BY <4>1 DEF Before
        <5> QED BY <2>1, <4>1, <4>4, <5>1
      <4> QED BY <1>7, <4>2, <4>3, <4>4
    <3>2. CASE m = msg /\ m \notin sent
      <4>1. r.job = "route" /\ g = "verdict" /\ IsRoute(Serving) /\ m.about = Serving.about
            /\ m.by = "verdict"
        BY <1>3, <1>4, <2>2, <2>4, <3>2 DEF RouteKinds, ScanKinds, IsRoute
      <4>2. m.about <= Now
        BY <1>5, <4>1
      <4>3. IsRoute(Waiting) => m.about < Waiting.about
        BY <1>2, <4>1 DEF RoutesAreInOrder
      <4>4. CASE Serving' = n /\ Waiting' = Waiting /\ n \in Rs
        <5>1. Before(m, n)
          BY <1>3, <1>4, <1>9, <3>2, <4>1, <4>4 DEF Before, Behind, RouteKinds, ScanKinds
        <5> QED BY <4>1, <4>2, <4>3, <4>4, <5>1
      <4>5. CASE Serving' = Waiting /\ Waiting' = Idle
        <5>1. IsRoute(Waiting) => Before(m, Waiting)
          BY <4>3 DEF Before
        <5> QED BY <2>1, <4>1, <4>2, <4>5, <5>1
      <4> QED BY <1>7, <4>1, <4>4, <4>5
    <3> QED BY <1>1, <3>1, <3>2
  <2> QED BY <1>5, <2>3, <2>4 DEF RoutesAreInOrder, Before, Behind, IsRoute
<1>11. CleanIsFounded'
  <2>1. IsRoute(Serving') =>
           \/ IsRoute(Serving) /\ Serving'.about = Serving.about
              /\ (Serving'.task = "clean" =>
                    Serving.task = "clean" \/ log[Serving.about].result # "findings")
           \/ Serving'.task = "none"
    BY <1>5, <1>7, <1>9 DEF IsRoute, Serving
  <2>2. Grows(0)
    BY <1>1 DEF Grows
  <2> QED BY <1>1, <1>2, <2>1, <2>2, CleanStaysFounded
<1>12. ScansAreMarked'
  <2> SUFFICES ASSUME failures = 0, NEW m \in sent', m.kind \in ScanKinds
               PROVE  Marked(m)' \/ AtMark(m)'
    BY <1>1 DEF ScansAreMarked, AtMark, Marked
  <2>1. CASE m \in sent /\ Marked(m)
    BY <1>1, <2>1 DEF Marked, Now
  <2>2. CASE m \in sent /\ ~Marked(m)
    <3>1. AtMark(m)
      BY <1>2, <2>2 DEF ScansAreMarked
    <3>2. m.by # g /\ m.by \in Groups
      BY <1>1, <1>5, <2>2, <3>1 DEF AtMark
    <3>3. run'[m.by] = run[m.by]
      BY <1>5, <1>6, <3>2
    <3> QED BY <3>1, <3>3 DEF AtMark, Message
  <2>3. CASE m = msg
    <3>1. r.task \in ScanKinds
      BY <1>4, <2>3
    <3>2. n \in Rs
      BY <1>3, <1>6, <3>1 DEF Rs, To, ScanKinds
    <3>3. n.pc = "mark" /\ n.task = r.task /\ n.head = r.head /\ n.about = r.about
      BY <1>9, <3>1, <3>2 DEF ScanKinds
    <3>4. run'[g] = n
      BY <1>5, <1>6
    <3> QED BY <1>4, <2>3, <3>3, <3>4 DEF AtMark, Message
  <2> QED BY <1>1, <2>1, <2>2, <2>3
<1> QED BY <1>10, <1>11, <1>12

\* A run that dies lets the waiting one start.
LEMMA CrashTells ==
    ASSUME ToldInv, NEW g \in Groups, Crash(g)
    PROVE  RoutesAreInOrder' /\ ScansAreMarked' /\ CleanIsFounded'
<1>1. /\ log' = log /\ sent' = sent /\ failures' = failures + 1
      /\ run' = [run EXCEPT ![g] = pending[g]] /\ pending' = [pending EXCEPT ![g] = Idle]
  BY DEF Crash, End, NoRun
<1>2. TypeOK /\ LoopInv /\ RoutesAreInOrder /\ CleanIsFounded /\ failures \in Nat /\ Grows(0)
  BY <1>1, LoopAssumption DEF ToldInv, LoopInv, TypeOK, Grows
<1>3. /\ "verdict" \in Groups /\ run \in [Groups -> Run] /\ pending \in [Groups -> Run]
      /\ IsRoute(Waiting) => Waiting.task = "none"
  BY <1>2, RoutedIsLogged
<1>4. \/ Serving' = Serving /\ Waiting' = Waiting
      \/ Serving' = Waiting /\ Waiting' = Idle
  BY <1>1, <1>3 DEF Serving, Waiting
<1>5. RoutesAreInOrder'
  <2>1. PICK q, p : q = Serving' /\ p = Waiting'
    OBVIOUS
  <2>2. (q = Serving /\ p = Waiting) \/ (q = Waiting /\ p = Idle)
    BY <1>4, <2>1
  <2> QED BY <1>1, <1>2, <2>1, <2>2, OrderStays
<1>6. CleanIsFounded'
  <2>1. IsRoute(Serving') =>
           \/ IsRoute(Serving) /\ Serving'.about = Serving.about
              /\ (Serving'.task = "clean" =>
                    Serving.task = "clean" \/ log[Serving.about].result # "findings")
           \/ Serving'.task = "none"
    BY <1>3, <1>4 DEF IsRoute
  <2> QED BY <1>1, <1>2, <2>1, CleanStaysFounded
<1>7. ScansAreMarked'
  BY <1>1, <1>2 DEF ScansAreMarked
<1> QED BY <1>5, <1>6, <1>7

\* What comes from outside is about a later verdict than all that was said.
LEMMA WorldTells ==
    ASSUME ToldInv, WorldSteps
    PROVE  RoutesAreInOrder' /\ ScansAreMarked' /\ CleanIsFounded'
<1>1. TypeOK /\ LoopInv /\ RoutesAreInOrder /\ ScansAreMarked /\ CleanIsFounded
  BY DEF ToldInv, LoopInv
<1>2. sent' = sent /\ failures' = failures
  BY <1>1, WorldMeans
<1>3. PICK e : Grows(e) /\ (log' = log \/ (e.kind = "verdict" => e.result \in Results))
  BY <1>1, WorldMeans
<1>4. PICK g \in Groups : \E r : Comes(g, r) /\ Joins(g, r)
  BY <1>1, WorldMeans
<1>5. PICK r : Comes(g, r) /\ Joins(g, r)
  BY <1>4
<1>6. /\ log \in Seq(Entries) /\ Now \in Nat /\ "verdict" \in Groups
      /\ run \in [Groups -> Run] /\ pending \in [Groups -> Run]
      /\ IsRoute(Serving) => Serving.about \in 1..Now
      /\ IsRoute(Waiting) => Waiting.about \in 1..Now
      /\ \A m \in sent : m.about \in Nat /\ m.by \in Groups
  BY <1>1, RoutedIsLogged
<1>7. Now' >= Now /\ Now' \in Nat
  BY <1>3, <1>6, EntriesOfLog DEF Now
<1>8. /\ \/ Serving' = Serving /\ Waiting' = Waiting
         \/ Serving.pc = "idle" /\ Serving' = r /\ Waiting' = Waiting /\ g = "verdict"
         \/ /\ Serving.pc # "idle" \/ ~IsRoute(r)
            /\ Serving' = Serving /\ Waiting' = r /\ g = "verdict"
      /\ \A q \in Groups : run'[q] = run[q] \/ run[q].pc = "idle"
  BY <1>5, <1>6 DEF Serving, Waiting, Joins
<1>9. IsRoute(r) => r.about = Now + 1 /\ Now' = Now + 1 /\ r.task = "none"
  BY <1>5 DEF Comes
<1>10. RoutesAreInOrder'
  <2>1. /\ IsRoute(Serving') /\ IsRoute(Waiting') => Serving'.about < Waiting'.about
        /\ Serving'.pc = "idle" => ~IsRoute(Waiting')
    BY <1>1, <1>6, <1>8, <1>9 DEF RoutesAreInOrder
  <2>2. ASSUME NEW m \in sent, m.kind \in RouteKinds
        PROVE  /\ m.by = "verdict" /\ m.about <= Now'
               /\ IsRoute(Waiting') => m.about < Waiting'.about
               /\ IsRoute(Serving') => Before(m, Serving')
    <3>1. /\ m.by = "verdict" /\ m.about <= Now /\ m.about \in Nat
          /\ IsRoute(Waiting) => m.about < Waiting.about
          /\ IsRoute(Serving) => Before(m, Serving)
      BY <1>1, <1>6, <2>2 DEF RoutesAreInOrder
    <3>2. IsRoute(r) => m.about < r.about /\ Before(m, r)
      BY <1>6, <1>9, <3>1 DEF Before
    <3> QED BY <1>6, <1>7, <1>8, <3>1, <3>2
  <2> QED BY <1>2, <2>1, <2>2 DEF RoutesAreInOrder, Before, Behind, IsRoute
<1>11. CleanIsFounded'
  <2>1. IsRoute(Serving') =>
           \/ IsRoute(Serving) /\ Serving'.about = Serving.about
              /\ (Serving'.task = "clean" =>
                    Serving.task = "clean" \/ log[Serving.about].result # "findings")
           \/ Serving'.task = "none"
    BY <1>8, <1>9 DEF IsRoute
  <2> QED BY <1>1, <1>3, <2>1, CleanStaysFounded
<1>12. ScansAreMarked'
  <2> SUFFICES ASSUME failures = 0, NEW m \in sent, m.kind \in ScanKinds
               PROVE  Marked(m)' \/ AtMark(m)'
    BY <1>2 DEF ScansAreMarked, AtMark, Marked
  <2>1. CASE Marked(m)
    BY <1>3, <1>6, <2>1, MarkedStays
  <2>2. CASE AtMark(m)
    <3>1. run'[m.by] = run[m.by]
      BY <1>6, <1>8, <2>2 DEF AtMark
    <3> QED BY <2>2, <3>1 DEF AtMark, Message
  <2> QED BY <1>1, <2>1, <2>2 DEF ScansAreMarked
<1> QED BY <1>10, <1>11, <1>12

LEMMA ToldInit == Init => ToldInv
<1> SUFFICES ASSUME Init PROVE ToldInv
  OBVIOUS
<1>1. LoopInv
  BY InitIsSound
<1>2. sent = {} /\ run["verdict"] = Idle /\ Now = 1 /\ log[1].kind = "push"
  BY <1>1 DEF Init, Groups, LoopInv, BranchIsLogged, Now
<1>3. ~IsRoute(Serving) /\ ~IsRoute(Waiting)
  BY <1>2 DEF IsRoute, Serving, Waiting, Idle, Init, NoRun, Groups
<1>4. RoutesAreInOrder /\ ScansAreMarked /\ CleanIsFounded
  BY <1>2, <1>3 DEF RoutesAreInOrder, ScansAreMarked, CleanIsFounded
<1> QED BY <1>1, <1>4 DEF ToldInv

LEMMA ToldNext == ToldInv /\ [Next]_vars => ToldInv'
<1> SUFFICES ASSUME ToldInv, [Next]_vars PROVE ToldInv'
  OBVIOUS
<1>1. LoopInv'
  BY NextIsSound DEF ToldInv
<1>2. \/ WorldSteps
      \/ \E g \in Groups : RunSteps(g) \/ Crash(g)
  BY DEF Next, WorldSteps
<1>3. RoutesAreInOrder' /\ ScansAreMarked' /\ CleanIsFounded'
  BY <1>2, WorldTells, StepTells, SendTells, CrashTells
<1> QED BY <1>1, <1>3 DEF ToldInv

-----------------------------------------------------------------------------
(* The theorems.                                                           *)

\* Every reachable state of the loop satisfies the invariant of its messages.
THEOREM ToldInvHolds == Spec => []ToldInv
  BY ToldInit, ToldNext, PTL DEF Spec

\* The verdict route never sends a message it sent before, even if runs die:
\* the runs of its group are serialised and each has a later verdict.
THEOREM RoutesTellOnce ==
    Spec => [][\A g \in Groups :
                 Publishes(g) /\ run[g].pc = "send" /\ run[g].job = "route" => Message(g) \notin sent]_vars
<1>1. ASSUME ToldInv, NEW g \in Groups, Publishes(g), run[g].pc = "send", run[g].job = "route"
      PROVE  Message(g) \notin sent
  <2>1. Staged(g, run[g]) /\ Now \in Nat /\ RoutesAreInOrder
        /\ \A m \in sent : m.about \in Nat
    BY <1>1, RunFound, RoutedIsLogged DEF ToldInv
  <2>2. g = "verdict" /\ run[g].task \in RouteKinds
    BY <1>1, <2>1 DEF Staged, Working, RouteKinds
  <2> SUFFICES ASSUME Message(g) \in sent PROVE FALSE
    OBVIOUS
  <2>3. /\ Message(g).kind = Serving.task /\ Message(g).about = Serving.about
        /\ Serving.pc = "send" /\ IsRoute(Serving)
    BY <1>1, <2>2 DEF Message, Serving, IsRoute
  <2>4. Before(Message(g), Serving) /\ Message(g).about \in Nat
    BY <2>1, <2>2, <2>3 DEF RoutesAreInOrder, Serving
  <2> QED BY <2>3, <2>4 DEF Before, Behind
<1>2. ToldInv => [\A g \in Groups : Publishes(g) /\ run[g].pc = "send" /\ run[g].job = "route" =>
                      Message(g) \notin sent]_vars
  BY <1>1
<1> QED BY <1>2, ToldInvHolds, PTL

\* A group repeats a message only after a run died, which it may have done
\* between the message and its marker (Slack first, then the marker).
THEOREM ToldOnceHolds == Spec => ToldOnce
<1>1. ASSUME ToldInv, NEW g \in Groups, Publishes(g), run[g].pc = "send", Message(g) \in sent
      PROVE  failures > 0
  <2> DEFINE r == run[g]
             msg == Message(g)
  <2>1. /\ Staged(g, r) /\ Working(r) /\ Unmarked(g, r) /\ RoutesAreInOrder /\ ScansAreMarked
        /\ failures \in 0..MaxFailures /\ MaxFailures \in Nat /\ \A m \in sent : m.about \in Nat
    BY <1>1, RunFound, RoutedIsLogged, LoopAssumption DEF ToldInv, Working, Sound
  <2>2. msg.kind = r.task /\ msg.head = r.head /\ msg.about = r.about /\ msg.by = g
    BY DEF Message
  <2> HIDE DEF msg
  <2>3. CASE r.job = "route"
    <3>1. g = "verdict" /\ r.task \in RouteKinds /\ IsRoute(Serving) /\ Serving = r
      BY <1>1, <2>1, <2>3 DEF Staged, RouteKinds, IsRoute, Serving
    <3>2. Before(msg, r) /\ msg.about \in Nat
      BY <1>1, <2>1, <2>2, <3>1 DEF RoutesAreInOrder, msg
    <3> QED BY <1>1, <2>2, <3>2 DEF Before, Behind
  <2>4. CASE r.job = "scan"
    <3>1. r.task \in ScanKinds
      BY <1>1, <2>1, <2>4 DEF Staged, ScanKinds
    <3>2. ~AtMark(msg)
      BY <1>1, <2>2 DEF AtMark
    <3>3. ~Marked(msg)
      BY <1>1, <2>1, <2>2, <2>4, <3>1 DEF Marked, Unmarked, Upcoming, ScanKinds
    <3>4. failures # 0
      BY <1>1, <2>1, <2>2, <3>1, <3>2, <3>3 DEF ScansAreMarked, msg
    <3> QED BY <2>1, <3>4
  <2> QED BY <1>1, <2>1, <2>3, <2>4 DEF Staged
<1>2. ToldInv => [\A g \in Groups :
                    Publishes(g) /\ run[g].pc = "send" /\ Message(g) \in sent => failures > 0]_vars
  BY <1>1
<1> QED BY <1>2, ToldInvHolds, PTL DEF ToldOnce

\* Where every review of Codex says something, the event route never says CLEAN
\* of a head after it said findings of it unless a clean verdict came in between.
THEOREM CleanAfterBurnIsNewHolds ==
    ASSUME "empty" \notin Results PROVE Spec => CleanAfterBurnIsNew
<1>1. ASSUME ToldInv, NEW g \in Groups, NEW m \in sent,
             Publishes(g), run[g].task = "clean", m.kind = "burn", m.head = run[g].head
      PROVE  \E v \in Verdicts(m.head, Now) : log[v].result = "clean" /\ v > m.about
  <2> DEFINE r == run[g]
  <2>1. /\ Staged(g, r) /\ Working(r) /\ RouteIsCalledFor(r) /\ RoutesAreInOrder /\ CleanIsFounded
        /\ Now \in Nat /\ m.about \in Nat
        /\ r.pc \in {"post", "send"} \/ (r.pc = "mark" /\ r.task = "chase")
    BY <1>1, PublisherFound, RunFound, RoutedIsLogged DEF ToldInv
  <2>2. g = "verdict" /\ r.job = "route" /\ IsRoute(Serving) /\ Serving = r
    BY <1>1, <2>1 DEF Staged, IsRoute, Serving
  <2>3. r.about \in 1..Now /\ log[r.about].kind = "verdict" /\ log[r.about].head = r.head
    <3>1. r.about \in 1..Now
      BY <1>1, <2>2, RoutedIsLogged DEF ToldInv
    <3> QED BY <2>1, <2>2, <3>1 DEF RouteIsCalledFor
  <2>4. log[r.about].result = "clean"
    <3>1. log[r.about].result \in Results /\ log[r.about].result # "findings"
      BY <1>1, <2>1, <2>2, <2>3 DEF CleanIsFounded
    <3> QED BY <3>1, LoopAssumption
  <2>5. m.about < r.about
    BY <1>1, <2>1, <2>2 DEF RoutesAreInOrder, RouteKinds, Before, Behind
  <2>6. r.about \in Verdicts(m.head, Now)
    BY <1>1, <2>3 DEF Verdicts, At
  <2> QED BY <2>1, <2>3, <2>4, <2>5, <2>6
<1>2. ToldInv =>
        [\A g \in Groups, m \in sent :
           Publishes(g) /\ run[g].task = "clean" /\ m.kind = "burn" /\ m.head = run[g].head =>
              \E v \in Verdicts(m.head, Now) : log[v].result = "clean" /\ v > m.about]_vars
  BY <1>1
<1> QED BY <1>2, ToldInvHolds, PTL DEF CleanAfterBurnIsNew

=============================================================================
