-------------------------- MODULE ReviewLoopProofs --------------------------
(***************************************************************************)
(* Theorems about the review loop, for any heads, any number of events and *)
(* of runs that die, any bound on the rounds and on the chases.            *)
(*                                                                         *)
(* The invariant says of every run what its last look at the PR allows it  *)
(* to publish.  It is inductive because each of its parts is about what    *)
(* the log held up to some position: what other runs and the outside world *)
(* append later does not change it.                                        *)
(***************************************************************************)
EXTENDS ReviewLoop, FiniteSetTheorems, WellFoundedInduction, TLAPS

-----------------------------------------------------------------------------
(* The inductive invariant.                                                *)

\* The PR is what its log makes of it.
BranchIsLogged ==
    /\ Now >= 1 /\ log[1].kind = "push"
    /\ head = HeadAt(Now) /\ (open <=> OpenAt(Now))

\* What the entries of the log presuppose: a verdict is about a commit, a gate
\* stands behind the bound, testimony is asked for behind a gate.
EntriesAreFounded ==
    \A i \in 1..Now :
        /\ log[i].kind \in Markers => log[i].head \in Heads /\ log[i].by \in Groups
        /\ log[i].kind = "verdict" => log[i].head \in Heads
        /\ log[i].kind = "gate" => Cardinality(Reviewed(i - 1)) >= MaxRounds
        /\ log[i].kind = "receipt" => Has("gate", log[i].head, i - 1)
        /\ log[i].kind = "chased" => log[i].about \in 1..MaxChases

\* No two markers of a group are alike.
MarkersDiffer ==
    \A i, j \in 1..Now :
        /\ log[i].kind \in Markers
        /\ log[j].kind = log[i].kind /\ log[j].by = log[i].by
        /\ log[j].head = log[i].head /\ log[j].about = log[i].about
        => i = j

\* The run has taken its snapshot.
Working(r) == r.pc \notin {"idle", "start", "skip"}

\* A run that has not taken its snapshot yet, or none.
Fresh(g, r) ==
    \/ r = Idle
    \/ r = Scan /\ g # "sweep"
    \/ /\ g = "verdict" /\ r = Route(r.about)
       /\ r.about \in 1..Now /\ log[r.about].kind = "verdict"

\* Where a run with a job and a task can be.
Staged(g, r) ==
    /\ r.pc \in {"idle", "start"} => Fresh(g, r)
    /\ r.pc = "skip" => r.job = "scan" /\ r.head \in Heads
    /\ Working(r) => /\ r.head \in Heads /\ r.began \in 1..Now
                     /\ r.job = "scan" \/ (r.job = "route" /\ g = "verdict")
    /\ r.pc = "refresh" => \/ r.job = "route" /\ r.task = "none"
                           \/ r.job = "scan" /\ r.task = "redeliver"
    /\ r.pc \in {"pin", "postpin"} => r.job = "route" /\ r.task = "none"
    /\ r.pc = "closure" => \/ r.job = "route" /\ r.task = "clean"
                           \/ r.job = "scan" /\ r.task = "redeliver"
    /\ r.pc = "gate" => r.job = "route" /\ r.task = "gatewake"
    /\ r.pc = "held" => r.job = "scan" /\ r.task \in {"redeliver", "gate", "nudge", "summon"}
    /\ r.pc = "owed" => r.job = "scan" /\ r.task = "chase"
    /\ r.pc = "live" => r.job = "route" /\ r.task \in {"clean", "burn", "gatewake", "retro"}
    /\ r.pc = "relive" => \/ r.job = "route" /\ r.task \in {"burn", "retro"}
                          \/ r.job = "scan" /\ r.task = "redeliver"
    /\ r.pc = "post" => \/ r.job = "route" /\ r.task = "gatewake"
                        \/ r.job = "scan" /\ r.task \in {"gate", "nudge"}
    /\ r.pc = "send" => \/ r.job = "route" /\ r.task \in {"clean", "burn", "gatewake", "retro"}
                        \/ r.job = "scan" /\ r.task \in {"redeliver", "summon", "chase"}
    /\ r.pc = "mark" => \/ r.job = "route" /\ r.task = "retro"
                        \/ r.job = "scan" /\ r.task \in {"redeliver", "summon", "chase"}

\* What the snapshot of a scan allowed it to set out for.
ScanIsCalledFor(r) ==
    Working(r) /\ r.job = "scan" =>
        /\ r.task = "chase" \/ (~Has("gate", r.head, r.began) /\ r.about = Verdict(r.head, r.began))
        /\ r.task = "redeliver" =>
              /\ r.about \in 1..r.began
              /\ \A d \in Disposed(r.head, r.began) : d < r.about
        /\ r.task = "gate" => Cardinality(Reviewed(r.began)) >= MaxRounds
        /\ r.task \in {"nudge", "summon"} =>
              Disposed(r.head, r.began) = {} /\ Cardinality(Reviewed(r.began)) < MaxRounds
        /\ r.task = "chase" =>
              /\ Has("gate", r.head, r.began) /\ r.about \in 1..MaxChases
              /\ \E m \in sent : m.kind = "retro" /\ m.head = r.head
              /\ \A k \in 1..(r.about - 1) :
                    \E m \in sent : m.kind = "chase" /\ m.head = r.head /\ m.about = k

\* What the verdict that is routed allows; the gate stands before its wakes.
RouteIsCalledFor(r) ==
    Working(r) /\ r.job = "route" =>
        /\ r.about \in 1..r.began /\ log[r.about].kind = "verdict" /\ log[r.about].head = r.head
        /\ r.task \in {"gatewake", "retro"} => Cardinality(Reviewed(r.began)) >= MaxRounds
        /\ r.task \in {"gatewake", "retro"} /\ r.pc \notin {"gate", "post"} => Has("gate", r.head, Now)

\* What the run saw when it looked last.
Looked(r) ==
    /\ r.pc \in {"post", "send"} \/ (r.pc = "mark" /\ r.task = "chase") =>
          /\ r.lived \in 1..Now /\ r.head = HeadAt(r.lived)
          /\ OpenAt(r.lived) \/ r.task = "chase"
    /\ r.pc \in {"post", "relive", "send"} /\ r.job = "scan" =>
          /\ r.seen \in r.began..Now
          /\ r.task # "chase" => Verdict(r.head, r.seen) = r.about
    /\ r.pc \in {"send", "mark"} /\ r.task = "chase" =>
          r.seen \in r.began..Now /\ ~Has("testimony", r.head, r.seen)
    /\ \/ r.task = "clean" /\ r.pc \in {"live", "send"}
       \/ /\ r.task = "redeliver" /\ r.pc \in {"held", "relive", "send"}
          /\ log[r.about].result = "clean"
       => r.closed \in 1..Now /\ \A j \in r.about..r.closed : log[j].kind # "retarget"

\* Slack first, then the marker.
SentFirst(g, r) ==
    r.pc = "mark" /\ (r.task = "chase" => r.about < MaxChases) =>
        [kind |-> r.task, head |-> r.head, about |-> r.about, by |-> g] \in sent

\* The marker a run is going to post, if no other check comes before.
Upcoming(r, kind) ==
    \/ kind = "skip" /\ r.pc = "skip"
    \/ kind = "pin" /\ r.pc = "postpin"
    \/ kind = "gate" /\ r.pc = "post" /\ r.task # "nudge"
    \/ Working(r) /\ r.job = "scan" /\ kind = r.task /\ r.task \in {"gate", "nudge"}
    \/ /\ Working(r) /\ r.job = "scan" /\ r.task \in {"redeliver", "summon", "chase"}
       /\ kind = MarkerOf(r.task)

\* The group has not posted it yet.
Unmarked(g, r) ==
    \A i \in 1..Now :
        Upcoming(r, log[i].kind) /\ log[i].head = r.head /\ log[i].about = r.about => log[i].by # g

Sound(g, r) ==
    /\ Staged(g, r) /\ ScanIsCalledFor(r) /\ RouteIsCalledFor(r)
    /\ Looked(r) /\ SentFirst(g, r) /\ Unmarked(g, r)

LoopInv ==
    /\ TypeOK /\ BranchIsLogged /\ EntriesAreFounded /\ MarkersDiffer /\ MarkersTellTheTruth
    /\ \A g \in Groups : Sound(g, run[g]) /\ Fresh(g, pending[g])

-----------------------------------------------------------------------------
(* Numbers and sets.                                                       *)

\* A set of numbers that is not empty and bounded has a greatest one.
LEMMA GreatestExists ==
    ASSUME NEW n \in Nat, NEW S \in SUBSET (0..n), S # {}
    PROVE  \E x \in S : \A y \in S : y <= x
<1> DEFINE R == {ss \in Nat \X Nat : ss[1] < ss[2]}
           T == {n - x : x \in S}
<1>1. IsWellFoundedOn(R, Nat)
  BY NatLessThanWellFounded DEF OpToRel
<1>2. T \subseteq Nat /\ T # {}
  <2>1. \A x \in S : n - x \in Nat
    OBVIOUS
  <2> QED BY <2>1
<1> HIDE DEF R
<1>3. PICK t \in T : \A u \in T : <<u, t>> \notin R
  BY <1>1, <1>2, WFMin
<1>4. PICK x \in S : t = n - x
  BY <1>3
<1>5. ASSUME NEW y \in S PROVE y <= x
  <2>1. n - y \in T /\ n - y \in Nat /\ t \in Nat
    BY <1>2, <1>3
  <2>2. <<n - y, t>> \notin R
    BY <1>3, <2>1
  <2>3. ~(n - y < t)
    BY <2>1, <2>2, SMT DEF R
  <2> QED BY <1>4, <2>3
<1> QED BY <1>5

\* Latest of a bounded set of numbers is its greatest, or 0.
LEMMA LatestIsGreatest ==
    ASSUME NEW n \in Nat, NEW S \in SUBSET (0..n)
    PROVE  /\ Latest(S) \in 0..n
           /\ S = {} => Latest(S) = 0
           /\ S # {} => Latest(S) \in S
           /\ \A i \in S : i <= Latest(S)
<1>1. CASE S = {}
  BY <1>1 DEF Latest
<1>2. CASE S # {}
  <2>1. \E x \in S : \A y \in S : y <= x
    BY <1>2, GreatestExists
  <2>2. Latest(S) \in S /\ \A y \in S : y <= Latest(S)
    BY <1>2, <2>1 DEF Latest
  <2> QED BY <1>2, <2>2
<1> QED BY <1>1, <1>2

-----------------------------------------------------------------------------
(* What is read of the log up to a position stays.                         *)

Grows(e) == log' = log \/ (e \in Entries /\ log' = Append(log, e))

LEMMA PrefixStays ==
    ASSUME log \in Seq(Entries), NEW e, Grows(e), NEW n \in 0..Now
    PROVE  /\ n \in 0..Now' /\ Now' >= Now
           /\ \A i \in 1..n : log'[i] = log[i]
           /\ \A kind, h : At(kind, h, n)' = At(kind, h, n)
           /\ \A kind, h : Has(kind, h, n)' <=> Has(kind, h, n)
           /\ \A h : Verdict(h, n)' = Verdict(h, n)
           /\ \A h : Disposed(h, n)' = Disposed(h, n)
           /\ Reviewed(n)' = Reviewed(n)
           /\ OpenAt(n)' <=> OpenAt(n)
<1>1. Len(log) \in Nat /\ n \in 0..Len(log)
  BY DEF Now
<1>2. Len(log') \in {Len(log), Len(log) + 1} /\ \A i \in 1..Len(log) : log'[i] = log[i]
  BY DEF Grows
<1>3. n \in 0..Now' /\ Now' >= Now
  BY <1>1, <1>2 DEF Now
<1>4. \A i \in 1..n : log'[i] = log[i]
  BY <1>1, <1>2
<1>5. \A kind, h : At(kind, h, n)' = At(kind, h, n)
  BY <1>4 DEF At
<1>6. \A kind, h : Has(kind, h, n)' <=> Has(kind, h, n)
  BY <1>5 DEF Has
<1>7. \A h : Verdict(h, n)' = Verdict(h, n)
  BY <1>5 DEF Verdict, Verdicts
<1>8. \A h : Disposed(h, n)' = Disposed(h, n)
  BY <1>5 DEF Disposed
<1>9. Reviewed(n)' = Reviewed(n)
  BY <1>4 DEF Reviewed
<1>10. OpenAt(n)' <=> OpenAt(n)
  BY <1>4 DEF OpenAt
<1> QED BY <1>3, <1>4, <1>5, <1>6, <1>7, <1>8, <1>9, <1>10

\* The first entry is a push, so that there always is a latest one.
LEMMA HeadStays ==
    ASSUME log \in Seq(Entries), BranchIsLogged, NEW e, Grows(e), NEW n \in 1..Now
    PROVE  HeadAt(n)' = HeadAt(n)
<1> DEFINE P == {i \in 1..n : log[i].kind = "push"}
<1>1. n \in 0..Now /\ n \in Nat /\ Now \in Nat
  BY DEF Now
<1>2. \A i \in 1..n : log'[i] = log[i]
  BY <1>1, PrefixStays
<1>3. {i \in 1..n : log'[i].kind = "push"} = P
  BY <1>2
<1>4. 1 \in P /\ P \in SUBSET (0..n)
  BY <1>1 DEF BranchIsLogged
<1>5. Latest(P) \in 1..n
  BY <1>1, <1>4, LatestIsGreatest
<1>6. HeadAt(n) = log[Latest(P)].head /\ HeadAt(n)' = log'[Latest(P)].head
  BY <1>3 DEF HeadAt
<1> QED BY <1>2, <1>5, <1>6

\* Positions of an entry that is appended and of those there were.
LEMMA EntriesOfLog ==
    ASSUME log \in Seq(Entries), NEW e, Grows(e)
    PROVE  /\ log' \in Seq(Entries) /\ Now \in Nat
           /\ log' = log => Now' = Now
           /\ log' # log => /\ Now' = Now + 1 /\ log'[Now + 1] = e /\ e \in Entries
                            /\ log' = Append(log, e)
           /\ \A i \in 1..Now : log'[i] = log[i]
<1>1. CASE log' = log
  BY <1>1 DEF Now
<1>2. CASE e \in Entries /\ log' = Append(log, e)
  BY <1>2 DEF Now
<1> QED BY <1>1, <1>2 DEF Grows

LEMMA FreshStays ==
    ASSUME log \in Seq(Entries), NEW e, Grows(e), NEW g \in Groups, NEW r, Fresh(g, r)
    PROVE  Fresh(g, r)'
<1>1. Now \in Nat /\ Now' \in Nat /\ Now' >= Now /\ \A i \in 1..Now : log'[i] = log[i]
  BY EntriesOfLog DEF Now
<1> QED BY <1>1 DEF Fresh

\* What a run may do it still may while others write.
LEMMA PartsStay ==
    ASSUME TypeOK, BranchIsLogged, NEW e, Grows(e), sent \subseteq sent',
           NEW g \in Groups, NEW r \in Run,
           Staged(g, r), ScanIsCalledFor(r), RouteIsCalledFor(r), Looked(r), Unmarked(g, r),
           log' = log \/ e.by # g \/ ~Upcoming(r, e.kind)
    PROVE  (/\ Staged(g, r) /\ ScanIsCalledFor(r) /\ RouteIsCalledFor(r)
            /\ Looked(r) /\ Unmarked(g, r))'
<1>1. /\ log \in Seq(Entries) /\ Now \in Nat /\ Now' \in Nat /\ Now' >= Now
      /\ \A i \in 1..Now : log'[i] = log[i]
  BY EntriesOfLog DEF TypeOK, Now
<1>2. /\ r.began \in Nat /\ r.about \in Nat /\ r.seen \in Nat /\ r.lived \in Nat /\ r.closed \in Nat
  BY DEF Run
<1>3. Staged(g, r) /\ Working(r) => r.began \in 0..Now
  BY <1>2 DEF Staged
<1>4. Staged(g, r)'
  <2>1. Fresh(g, r) => Fresh(g, r)'
    BY <1>1, FreshStays
  <2>2. Working(r)' <=> Working(r)
    BY DEF Working
  <2>3. r.began \in 1..Now => r.began \in 1..Now'
    BY <1>1
  <2> QED BY <2>1, <2>2, <2>3 DEF Staged
<1>5. ScanIsCalledFor(r)'
  <2> SUFFICES ASSUME Working(r), r.job = "scan" PROVE ScanIsCalledFor(r)'
    BY DEF ScanIsCalledFor, Working
  <2>1. r.began \in 0..Now
    BY <1>3
  <2>2. /\ \A kind, h : Has(kind, h, r.began)' <=> Has(kind, h, r.began)
        /\ \A h : Verdict(h, r.began)' = Verdict(h, r.began)
        /\ \A h : Disposed(h, r.began)' = Disposed(h, r.began)
        /\ Reviewed(r.began)' = Reviewed(r.began)
    BY <1>1, <2>1, PrefixStays
  <2>3. Cardinality(Reviewed(r.began))' = Cardinality(Reviewed(r.began))
    BY <2>2
  <2>4. ScanIsCalledFor(r)
    OBVIOUS
  <2> QED BY <2>2, <2>3, <2>4 DEF ScanIsCalledFor
<1>6. RouteIsCalledFor(r)'
  <2> SUFFICES ASSUME Working(r), r.job = "route" PROVE RouteIsCalledFor(r)'
    BY DEF RouteIsCalledFor, Working
  <2>1. r.began \in 0..Now
    BY <1>3
  <2>2. Reviewed(r.began)' = Reviewed(r.began)
    BY <1>1, <2>1, PrefixStays
  <2>3. RouteIsCalledFor(r)
    OBVIOUS
  <2>4. log'[r.about] = log[r.about]
    BY <1>1, <2>1, <2>3 DEF RouteIsCalledFor
  <2>5. ASSUME NEW kind, NEW h, Has(kind, h, Now) PROVE Has(kind, h, Now)'
    BY <1>1, <2>5 DEF Has, At
  <2> QED BY <2>2, <2>3, <2>4, <2>5 DEF RouteIsCalledFor, Working
<1>7. Looked(r)'
  <2>1. Looked(r) /\ Staged(g, r) /\ ScanIsCalledFor(r) /\ RouteIsCalledFor(r)
    OBVIOUS
  <2>2. ASSUME r.pc \in {"post", "send"} \/ (r.pc = "mark" /\ r.task = "chase")
        PROVE  (/\ r.lived \in 1..Now /\ r.head = HeadAt(r.lived)
                /\ OpenAt(r.lived) \/ r.task = "chase")'
    <3>1. /\ r.lived \in 1..Now /\ r.head = HeadAt(r.lived)
          /\ OpenAt(r.lived) \/ r.task = "chase"
      BY <2>1, <2>2 DEF Looked
    <3>2. HeadAt(r.lived)' = HeadAt(r.lived)
      BY <1>1, <3>1, HeadStays
    <3>3. OpenAt(r.lived)' <=> OpenAt(r.lived)
      BY <1>1, <3>1, PrefixStays
    <3> QED BY <1>1, <3>1, <3>2, <3>3
  <2>3. ASSUME r.pc \in {"post", "relive", "send"}, r.job = "scan"
        PROVE  (/\ r.seen \in r.began..Now
                /\ r.task # "chase" => Verdict(r.head, r.seen) = r.about)'
    <3>1. /\ r.seen \in r.began..Now
          /\ r.task # "chase" => Verdict(r.head, r.seen) = r.about
      BY <2>1, <2>3 DEF Looked
    <3>2. Verdict(r.head, r.seen)' = Verdict(r.head, r.seen)
      BY <1>1, <1>2, <3>1, PrefixStays
    <3> QED BY <1>1, <1>2, <3>1, <3>2
  <2>4. ASSUME r.pc \in {"send", "mark"}, r.task = "chase"
        PROVE  (r.seen \in r.began..Now /\ ~Has("testimony", r.head, r.seen))'
    <3>1. r.seen \in r.began..Now /\ ~Has("testimony", r.head, r.seen)
      BY <2>1, <2>4 DEF Looked
    <3>2. Has("testimony", r.head, r.seen)' <=> Has("testimony", r.head, r.seen)
      BY <1>1, <1>2, <3>1, PrefixStays
    <3> QED BY <1>1, <1>2, <3>1, <3>2
  <2>5. ASSUME \/ r.task = "clean" /\ r.pc \in {"live", "send"}
               \/ /\ r.task = "redeliver" /\ r.pc \in {"held", "relive", "send"}
                  /\ log'[r.about].result = "clean"
        PROVE  (r.closed \in 1..Now /\ \A j \in r.about..r.closed : log[j].kind # "retarget")'
    <3>1. r.about \in 1..Now
      <4>1. r.job = "scan" \/ r.job = "route"
        BY <2>1, <2>5 DEF Staged, Working
      <4>2. Working(r)
        BY <2>5 DEF Working
      <4>3. r.began \in 1..Now
        BY <2>1, <4>2 DEF Staged
      <4>4. r.job = "scan" => r.task = "redeliver"
        BY <2>1, <2>5 DEF Staged
      <4>5. r.about \in 1..r.began
        BY <2>1, <4>1, <4>2, <4>4 DEF ScanIsCalledFor, RouteIsCalledFor
      <4> QED BY <1>1, <4>3, <4>5
    <3>2. log'[r.about] = log[r.about]
      BY <1>1, <3>1
    <3>3. r.closed \in 1..Now /\ \A j \in r.about..r.closed : log[j].kind # "retarget"
      BY <2>1, <2>5, <3>2 DEF Looked
    <3>4. \A j \in r.about..r.closed : log'[j] = log[j]
      BY <1>1, <3>1, <3>3
    <3> QED BY <1>1, <3>3, <3>4
  <2> QED BY <2>2, <2>3, <2>4, <2>5 DEF Looked
<1>8. Unmarked(g, r)'
  <2> SUFFICES ASSUME NEW i \in 1..Now', Upcoming(r, log'[i].kind), log'[i].head = r.head,
                      log'[i].about = r.about
               PROVE  log'[i].by # g
    BY DEF Unmarked, Upcoming, Working
  <2>1. CASE i \in 1..Now
    BY <1>1, <2>1 DEF Unmarked
  <2>2. CASE i \notin 1..Now
    <3>1. log' # log /\ i = Now + 1 /\ log'[i] = e
      BY <1>1, <2>2, EntriesOfLog
    <3> QED BY <3>1
  <2> QED BY <2>1, <2>2
<1> QED BY <1>4, <1>5, <1>6, <1>7, <1>8

\* What is sound stays sound.
LEMMA SoundStays ==
    ASSUME TypeOK, BranchIsLogged, NEW e, Grows(e), sent \subseteq sent',
           NEW g \in Groups, NEW r \in Run, Sound(g, r),
           log' = log \/ e.by # g \/ ~Upcoming(r, e.kind)
    PROVE  Sound(g, r)'
<1>1. /\ Staged(g, r) /\ ScanIsCalledFor(r) /\ RouteIsCalledFor(r) /\ Looked(r)
      /\ SentFirst(g, r) /\ Unmarked(g, r)
  BY DEF Sound
<1>2. (/\ Staged(g, r) /\ ScanIsCalledFor(r) /\ RouteIsCalledFor(r)
       /\ Looked(r) /\ Unmarked(g, r))'
  BY <1>1, PartsStay
<1>3. SentFirst(g, r)'
  BY <1>1 DEF SentFirst
<1> QED BY <1>2, <1>3 DEF Sound

-----------------------------------------------------------------------------
(* What a run reads.                                                       *)

LEMMA PositionsBounded ==
    ASSUME NEW kind, NEW h, NEW n \in Nat
    PROVE  At(kind, h, n) \in SUBSET (0..n)
  BY DEF At

\* The head's latest verdict is one of it, unless there is none.
LEMMA VerdictRead ==
    ASSUME NEW h, NEW n \in Nat
    PROVE  /\ Verdict(h, n) \in 0..n
           /\ h \in Reviewed(n) =>
                 /\ Verdict(h, n) \in 1..n /\ log[Verdict(h, n)].kind = "verdict"
                 /\ log[Verdict(h, n)].head = h
<1>1. Verdicts(h, n) \in SUBSET (0..n)
  BY PositionsBounded DEF Verdicts
<1>2. /\ Verdict(h, n) \in 0..n
      /\ Verdicts(h, n) # {} => Verdict(h, n) \in Verdicts(h, n)
  BY <1>1, LatestIsGreatest DEF Verdict
<1>3. h \in Reviewed(n) => Verdicts(h, n) # {}
  BY DEF Reviewed, Verdicts, At
<1> QED BY <1>2, <1>3 DEF Verdicts, At

\* The attempts that were made are counted by the markers.
LEMMA SpentRead ==
    ASSUME EntriesAreFounded, NEW h, NEW n \in 0..Now
    PROVE  /\ Spent(h, n) \in 0..MaxChases
           /\ Spent(h, n) # 0 => \E i \in At("chased", h, n) : log[i].about = Spent(h, n)
           /\ \A i \in At("chased", h, n) : log[i].about <= Spent(h, n)
<1>1. \A i \in At("chased", h, n) : log[i].about \in 1..MaxChases
  BY DEF EntriesAreFounded, At, Now
<1>2. Chases(h, n) \in SUBSET (0..MaxChases)
  BY <1>1, LoopAssumption DEF Chases
<1>3. /\ Spent(h, n) \in 0..MaxChases
      /\ Chases(h, n) = {} => Spent(h, n) = 0
      /\ Chases(h, n) # {} => Spent(h, n) \in Chases(h, n)
      /\ \A k \in Chases(h, n) : k <= Spent(h, n)
  BY <1>2, LatestIsGreatest, LoopAssumption DEF Spent
<1> QED BY <1>3 DEF Chases

\* The set of reviewed heads is finite and only grows.
LEMMA ReviewedGrows ==
    ASSUME NEW n \in Nat, NEW m \in Nat, n <= m
    PROVE  /\ Cardinality(Reviewed(n)) \in Nat /\ Cardinality(Reviewed(m)) \in Nat
           /\ Cardinality(Reviewed(n)) <= Cardinality(Reviewed(m))
<1>1. ASSUME NEW k \in Nat PROVE IsFiniteSet(Reviewed(k))
  <2> DEFINE V == {i \in 1..k : log[i].kind = "verdict"}
             f == [i \in V |-> log[i].head]
  <2>1. IsFiniteSet(1..k)
    BY <1>1, FS_Interval
  <2>2. IsFiniteSet(V)
    BY <2>1, FS_Subset
  <2>3. f \in Surjection(V, Reviewed(k))
    BY DEF Reviewed, Surjection
  <2> QED BY <2>2, <2>3, FS_Surjection
<1>2. Reviewed(n) \subseteq Reviewed(m)
  BY DEF Reviewed
<1>3. IsFiniteSet(Reviewed(n)) /\ IsFiniteSet(Reviewed(m))
  BY <1>1
<1> QED BY <1>2, <1>3, FS_Subset, FS_CardinalityType

\* What was there stays there.
LEMMA HasGrows ==
    ASSUME NEW kind, NEW h, NEW n \in Nat, NEW m \in Nat, n <= m, Has(kind, h, n)
    PROVE  Has(kind, h, m)
  BY DEF Has, At

\* A gate stands behind the bound on the rounds.
LEMMA GateIsBehindTheBound ==
    ASSUME TypeOK, EntriesAreFounded, NEW h, NEW n \in 0..Now, Has("gate", h, n)
    PROVE  Cardinality(Reviewed(n)) >= MaxRounds
<1>1. PICK i \in 1..n : log[i].kind = "gate"
  BY DEF Has, At
<1>2. n \in Nat /\ i - 1 \in Nat /\ i - 1 <= n /\ i \in 1..Now /\ MaxRounds \in Nat
  BY LoopAssumption DEF TypeOK, Now
<1>3. Cardinality(Reviewed(i - 1)) >= MaxRounds
  BY <1>1, <1>2 DEF EntriesAreFounded
<1>4. /\ Cardinality(Reviewed(i - 1)) \in Nat /\ Cardinality(Reviewed(n)) \in Nat
      /\ Cardinality(Reviewed(i - 1)) <= Cardinality(Reviewed(n))
  BY <1>2, ReviewedGrows
<1> QED BY <1>2, <1>3, <1>4

\* Where testimony is missing it was requested, behind a gate.
LEMMA ReceiptIsFounded ==
    ASSUME TypeOK, EntriesAreFounded, MarkersTellTheTruth, NEW h, NEW n \in 0..Now,
           Has("receipt", h, n)
    PROVE  /\ Has("gate", h, n)
           /\ \E m \in sent : m.kind = "retro" /\ m.head = h
<1>1. PICK i \in 1..n : log[i].kind = "receipt" /\ log[i].head = h
  BY DEF Has, At
<1>2. n \in Nat /\ i - 1 \in Nat /\ i - 1 <= n /\ i \in 1..Now
  BY DEF TypeOK, Now
<1>3. Has("gate", h, i - 1)
  BY <1>1, <1>2 DEF EntriesAreFounded
<1>4. Has("gate", h, n)
  BY <1>2, <1>3, HasGrows
<1>5. i \in Posted({MarkerOf("retro")})
  BY <1>1, <1>2 DEF Posted, MarkerOf
<1>6. [kind |-> "retro", head |-> log[i].head, about |-> log[i].about, by |-> log[i].by] \in sent
  BY <1>5 DEF MarkersTellTheTruth
<1> QED BY <1>1, <1>4, <1>6

-----------------------------------------------------------------------------
(* Runs that begin.                                                        *)

LEMMA FreshIsTyped ==
    ASSUME NEW r, r \in {Idle, Scan} \/ \E v \in Nat : r = Route(v)
    PROVE  r \in Run /\ r.pc \in {"idle", "start"} /\ r.task = "none"
<1>1. /\ Idle \in Run /\ Idle.pc = "idle" /\ Idle.task = "none"
      /\ Scan \in Run /\ Scan.pc = "start" /\ Scan.task = "none"
      /\ \A v \in Nat : Route(v) \in Run /\ Route(v).pc = "start" /\ Route(v).task = "none"
  BY DEF Run, Idle, Scan, Route, Jobs, PCs, Tasks
<1> QED BY <1>1

\* A run that took no snapshot yet owes nothing.
LEMMA FreshIsSound ==
    ASSUME log \in Seq(Entries), NEW g \in Groups, NEW r, Fresh(g, r)
    PROVE  r \in Run /\ Sound(g, r) /\ r.pc \in {"idle", "start"}
<1>1. r \in {Idle, Scan} \/ \E v \in Nat : r = Route(v)
  BY DEF Fresh, Now
<1>2. r \in Run /\ r.pc \in {"idle", "start"} /\ r.task = "none"
  BY <1>1, FreshIsTyped
<1>3. Staged(g, r)
  BY <1>2 DEF Staged, Working
<1>4. ScanIsCalledFor(r) /\ RouteIsCalledFor(r) /\ Looked(r) /\ SentFirst(g, r) /\ Unmarked(g, r)
  BY <1>2 DEF ScanIsCalledFor, RouteIsCalledFor, Looked, SentFirst, Unmarked, Upcoming, Working
<1> QED BY <1>2, <1>3, <1>4 DEF Sound

\* What a snapshot of the present calls for, taken apart.
LEMMA CallsMean ==
    ASSUME LoopInv, NEW t \in Calls(head, Now)
    PROVE  /\ t \in {"redeliver", "gate", "nudge", "summon", "chase"}
           /\ t # "chase" => ~Has("gate", head, Now)
           /\ t = "chase" =>
                 Has("gate", head, Now) /\ Spent(head, Now) < MaxChases
                 /\ \E m \in sent : m.kind = "retro" /\ m.head = head
           /\ t = "redeliver" =>
                 /\ head \in Reviewed(Now)
                 /\ \A d \in Disposed(head, Now) : ~(d >= Verdict(head, Now))
                 /\ ~Recorded(head, Verdict(head, Now), Now)
           /\ t = "gate" => Cardinality(Reviewed(Now)) >= MaxRounds
           /\ t \in {"nudge", "summon"} =>
                 /\ Disposed(head, Now) = {} /\ Cardinality(Reviewed(Now)) < MaxRounds
                 /\ ~Has("assigned", head, Now)
           /\ t = "nudge" => ~Has("nudge", head, Now)
<1> DEFINE spent == Cardinality(Reviewed(Now))
<1>1. /\ TypeOK /\ EntriesAreFounded /\ MarkersTellTheTruth
      /\ Now \in Nat /\ Now \in 0..Now /\ MaxRounds \in Nat /\ spent \in Nat
  BY ReviewedGrows, LoopAssumption DEF LoopInv, TypeOK, Now
<1>2. Has("gate", head, Now) => spent >= MaxRounds
  BY <1>1, GateIsBehindTheBound
<1> HIDE DEF spent
<1>3. CASE Owed(head, Now)
  <2>1. Has("receipt", head, Now) /\ Spent(head, Now) < MaxChases
    BY <1>3 DEF Owed
  <2>2. Has("gate", head, Now) /\ \E m \in sent : m.kind = "retro" /\ m.head = head
    BY <1>1, <2>1, ReceiptIsFounded
  <2>3. t = "chase"
    BY <1>3 DEF Calls
  <2> QED BY <2>1, <2>2, <2>3
<1>4. CASE ~Owed(head, Now) /\ head \in Reviewed(Now)
  <2>1. t = "redeliver" /\ Redeliverable(head, Verdict(head, Now), Now)
    BY <1>4 DEF Calls
  <2>2. /\ ~Has("gate", head, Now) /\ ~Recorded(head, Verdict(head, Now), Now)
        /\ \A d \in Disposed(head, Now) : ~(d >= Verdict(head, Now))
    BY <2>1 DEF Redeliverable, DisposedSince
  <2> QED BY <1>4, <2>1, <2>2
<1>5. CASE ~Owed(head, Now) /\ head \notin Reviewed(Now) /\ spent >= MaxRounds
  <2>1. t = "gate" /\ ~Has("gate", head, Now)
    BY <1>5 DEF Calls, spent
  <2> QED BY <1>5, <2>1 DEF spent
<1>6. CASE ~Owed(head, Now) /\ head \notin Reviewed(Now) /\ ~(spent >= MaxRounds)
  <2>1. /\ t \in {"nudge", "summon"} /\ Disposed(head, Now) = {} /\ ~Covered(head, Now)
        /\ t = "nudge" => ~Refused(Now)
    BY <1>6 DEF Calls, spent
  <2>2. ~Has("assigned", head, Now) /\ (t = "nudge" => ~Has("nudge", head, Now))
    BY <2>1 DEF Covered
  <2>3. spent < MaxRounds
    BY <1>1, <1>6
  <2> QED BY <1>2, <1>6, <2>1, <2>2, <2>3 DEF spent
<1> QED BY <1>3, <1>4, <1>5, <1>6

\* What a scan sets out for, its snapshot allows.
LEMMA ScanningIsSound ==
    ASSUME LoopInv, NEW g \in Groups, NEW r \in Scanning
    PROVE  r \in Run /\ Sound(g, r)
<1>1. PICK t \in Calls(head, Now) :
         r = [Scan EXCEPT !.head = head, !.began = Now, !.task = t,
                  !.about = IF t = "chase" THEN Spent(head, Now) + 1 ELSE Verdict(head, Now),
                  !.pc = CASE t = "redeliver" -> "refresh" [] t = "chase" -> "owed"
                           [] OTHER -> "held"]
  BY DEF Scanning
<1>2. /\ r.job = "scan" /\ r.task = t /\ r.head = head /\ r.began = Now /\ r.note = 0
      /\ r.closed = 0 /\ r.seen = 0 /\ r.lived = 0
      /\ r.about = IF t = "chase" THEN Spent(head, Now) + 1 ELSE Verdict(head, Now)
      /\ r.pc = CASE t = "redeliver" -> "refresh" [] t = "chase" -> "owed" [] OTHER -> "held"
      /\ DOMAIN r = {"pc", "job", "task", "head", "about", "note", "began", "closed", "seen", "lived"}
      /\ r = [pc |-> r.pc, job |-> r.job, task |-> r.task, head |-> r.head, about |-> r.about,
              note |-> r.note, began |-> r.began, closed |-> r.closed, seen |-> r.seen,
              lived |-> r.lived]
  BY <1>1 DEF Scan, Idle
<1>3. /\ TypeOK /\ EntriesAreFounded /\ MarkersTellTheTruth /\ BranchIsLogged
      /\ Now \in Nat /\ Now \in 1..Now /\ head \in Heads
  BY DEF LoopInv, TypeOK, BranchIsLogged, Now
<1>4. /\ t \in {"redeliver", "gate", "nudge", "summon", "chase"}
      /\ r.pc = IF t = "redeliver" THEN "refresh" ELSE IF t = "chase" THEN "owed" ELSE "held"
  BY <1>2, CallsMean
<1>5. /\ Spent(head, Now) \in 0..MaxChases /\ Verdict(head, Now) \in 0..Now
      /\ \A i \in At("chased", head, Now) : log[i].about <= Spent(head, Now)
  BY <1>3, SpentRead, VerdictRead
<1>6. r.about \in Nat /\ MaxChases \in Nat
  BY <1>2, <1>3, <1>5, LoopAssumption
<1>7. r \in Run
  <2>1. r.pc \in PCs /\ r.job \in Jobs /\ r.task \in Tasks
    BY <1>2, <1>4 DEF PCs, Jobs, Tasks
  <2> QED BY <1>2, <1>3, <1>6, <2>1 DEF Run
<1>8. Working(r)
  BY <1>4 DEF Working
<1>9. Staged(g, r)
  BY <1>2, <1>3, <1>4 DEF Staged, Working
<1>10. ScanIsCalledFor(r)
  <2>1. t # "chase" => ~Has("gate", head, Now) /\ r.about = Verdict(head, Now)
    BY <1>2, CallsMean
  <2>2. t = "redeliver" => /\ r.about \in 1..Now
                           /\ \A d \in Disposed(head, Now) : d < r.about
    <3> SUFFICES ASSUME t = "redeliver"
                 PROVE  r.about \in 1..Now /\ \A d \in Disposed(head, Now) : d < r.about
      OBVIOUS
    <3>1. /\ head \in Reviewed(Now) /\ r.about = Verdict(head, Now)
          /\ \A d \in Disposed(head, Now) : ~(d >= r.about)
      BY <1>2, CallsMean
    <3>2. r.about \in 1..Now
      BY <1>3, <3>1, VerdictRead
    <3>3. \A d \in Disposed(head, Now) : d \in Nat
      BY DEF Disposed, At
    <3> QED BY <1>3, <3>1, <3>2, <3>3
  <2>3. t = "gate" => Cardinality(Reviewed(Now)) >= MaxRounds
    BY CallsMean
  <2>4. t \in {"nudge", "summon"} =>
           Disposed(head, Now) = {} /\ Cardinality(Reviewed(Now)) < MaxRounds
    BY CallsMean
  <2>5. t = "chase" => /\ Has("gate", head, Now) /\ r.about \in 1..MaxChases
                       /\ \E m \in sent : m.kind = "retro" /\ m.head = head
    BY <1>2, <1>5, <1>6, CallsMean
  <2>6. ASSUME t = "chase", NEW k \in 1..(r.about - 1)
        PROVE  \E m \in sent : m.kind = "chase" /\ m.head = head /\ m.about = k
    <3>1. k \in 1..Spent(head, Now) /\ Spent(head, Now) < MaxChases
      BY <1>2, <1>5, <1>6, <2>6, CallsMean
    <3>2. PICK i \in At("chased", head, Now) : log[i].about = Spent(head, Now)
      BY <1>3, <1>5, <3>1, SpentRead
    <3>3. i \in Posted({"chased"}) /\ log[i].head = head
      BY <3>2 DEF At, Posted
    <3> QED BY <1>3, <1>5, <1>6, <3>1, <3>2, <3>3 DEF MarkersTellTheTruth
  <2> QED BY <1>2, <2>1, <2>2, <2>3, <2>4, <2>5, <2>6 DEF ScanIsCalledFor
<1>11. RouteIsCalledFor(r) /\ Looked(r) /\ SentFirst(g, r)
  BY <1>2, <1>4 DEF RouteIsCalledFor, Looked, SentFirst
<1>12. Unmarked(g, r)
  <2> SUFFICES ASSUME NEW i \in 1..Now, Upcoming(r, log[i].kind), log[i].head = head,
                      log[i].about = r.about
               PROVE  FALSE
    BY <1>2 DEF Unmarked
  <2>1. i \in At(log[i].kind, head, Now)
    BY DEF At
  <2>2. /\ t \in {"gate", "nudge"} => log[i].kind = t
        /\ t = "redeliver" => log[i].kind = "redelivered"
        /\ t = "summon" => log[i].kind = "assigned"
        /\ t = "chase" => log[i].kind = "chased"
    BY <1>2, <1>4 DEF Upcoming, MarkerOf
  <2>3. CASE t \in {"gate", "nudge", "summon"}
    BY <2>1, <2>2, <2>3, CallsMean DEF Has
  <2>4. CASE t = "redeliver"
    BY <1>2, <2>1, <2>2, <2>4, CallsMean DEF Recorded
  <2>5. CASE t = "chase"
    BY <1>2, <1>5, <2>1, <2>2, <2>5
  <2> QED BY <1>4, <2>3, <2>4, <2>5
<1> QED BY <1>7, <1>9, <1>10, <1>11, <1>12 DEF Sound

-----------------------------------------------------------------------------
(* The log after a step.                                                   *)

\* What has to be true of an entry when it is written.
Founded(e) ==
    /\ e.kind \in Markers => e.head \in Heads /\ e.by \in Groups
    /\ e.kind = "verdict" => e.head \in Heads
    /\ e.kind = "gate" => Cardinality(Reviewed(Now)) >= MaxRounds
    /\ e.kind = "receipt" => Has("gate", e.head, Now)
    /\ e.kind = "chased" =>
          /\ e.about \in 1..MaxChases
          /\ \A k \in 1..e.about :
                k < MaxChases => \E m \in sent : m.kind = "chase" /\ m.head = e.head /\ m.about = k
    /\ \A task \in {"redeliver", "summon", "retro"} :
          e.kind = MarkerOf(task) =>
             [kind |-> task, head |-> e.head, about |-> e.about, by |-> e.by] \in sent
    /\ e.kind \in Markers =>
          \A i \in 1..Now : ~(/\ log[i].kind = e.kind /\ log[i].by = e.by
                              /\ log[i].head = e.head /\ log[i].about = e.about)

LEMMA LogStaysFounded ==
    ASSUME LoopInv, NEW e, Grows(e), log' = log \/ Founded(e), sent \subseteq sent'
    PROVE  EntriesAreFounded' /\ MarkersDiffer' /\ MarkersTellTheTruth'
<1>1. /\ log \in Seq(Entries) /\ Now \in Nat /\ Now' \in Nat
      /\ EntriesAreFounded /\ MarkersDiffer /\ MarkersTellTheTruth
  BY DEF LoopInv, TypeOK, Now, Grows
<1>2. /\ \A i \in 1..Now : log'[i] = log[i]
      /\ Now' >= Now
      /\ \A i \in 1..Now' : i \notin 1..Now => /\ log'[i] = e /\ i = Now + 1 /\ e \in Entries
                                               /\ Founded(e)
  BY <1>1, EntriesOfLog
<1>3. ASSUME NEW n \in 0..Now
      PROVE  /\ \A kind, h : Has(kind, h, n)' <=> Has(kind, h, n)
             /\ Cardinality(Reviewed(n))' = Cardinality(Reviewed(n))
  <2>1. /\ \A kind, h : Has(kind, h, n)' <=> Has(kind, h, n)
        /\ Reviewed(n)' = Reviewed(n)
    BY <1>1, PrefixStays
  <2> QED BY <2>1
<1>4. EntriesAreFounded'
  <2> SUFFICES ASSUME NEW i \in 1..Now'
               PROVE  (/\ log[i].kind \in Markers => log[i].head \in Heads /\ log[i].by \in Groups
                       /\ log[i].kind = "verdict" => log[i].head \in Heads
                       /\ log[i].kind = "gate" => Cardinality(Reviewed(i - 1)) >= MaxRounds
                       /\ log[i].kind = "receipt" => Has("gate", log[i].head, i - 1)
                       /\ log[i].kind = "chased" => log[i].about \in 1..MaxChases)'
    BY DEF EntriesAreFounded
  <2>1. CASE i \in 1..Now
    <3>1. i - 1 \in 0..Now /\ log'[i] = log[i]
      BY <1>1, <1>2, <2>1
    <3>2. /\ \A kind, h : Has(kind, h, i - 1)' <=> Has(kind, h, i - 1)
          /\ Cardinality(Reviewed(i - 1))' = Cardinality(Reviewed(i - 1))
      BY <1>3, <3>1
    <3> QED BY <1>1, <2>1, <3>1, <3>2 DEF EntriesAreFounded
  <2>2. CASE i \notin 1..Now
    <3>1. i - 1 = Now /\ Now \in 0..Now /\ log'[i] = e /\ Founded(e)
      BY <1>1, <1>2, <2>2
    <3>2. /\ \A h : Has("gate", h, i - 1)' <=> Has("gate", h, Now)
          /\ Cardinality(Reviewed(i - 1))' = Cardinality(Reviewed(Now))
      BY <1>3, <3>1
    <3> QED BY <3>1, <3>2 DEF Founded
  <2> QED BY <2>1, <2>2
<1>5. MarkersDiffer'
  <2> SUFFICES ASSUME NEW i \in 1..Now', NEW j \in 1..Now',
                      log'[i].kind \in Markers,
                      log'[j].kind = log'[i].kind, log'[j].by = log'[i].by,
                      log'[j].head = log'[i].head, log'[j].about = log'[i].about
               PROVE  i = j
    BY DEF MarkersDiffer
  <2>1. CASE i \in 1..Now /\ j \in 1..Now
    BY <1>1, <1>2, <2>1 DEF MarkersDiffer
  <2>2. CASE i \in 1..Now /\ j \notin 1..Now
    BY <1>2, <2>2 DEF Founded
  <2>3. CASE i \notin 1..Now /\ j \in 1..Now
    BY <1>2, <2>3 DEF Founded
  <2>4. CASE i \notin 1..Now /\ j \notin 1..Now
    BY <1>2, <2>4
  <2> QED BY <2>1, <2>2, <2>3, <2>4
<1>6. MarkersTellTheTruth'
  <2>1. ASSUME NEW i \in 1..Now', log'[i].kind = "chased", NEW k \in 1..log'[i].about, k < MaxChases
        PROVE  \E m \in sent : m.kind = "chase" /\ m.head = log'[i].head /\ m.about = k
    <3>1. CASE i \in 1..Now
      BY <1>1, <1>2, <2>1, <3>1 DEF MarkersTellTheTruth, Posted
    <3>2. CASE i \notin 1..Now
      BY <1>2, <2>1, <3>2 DEF Founded
    <3> QED BY <3>1, <3>2
  <2>2. ASSUME NEW i \in 1..Now', NEW task \in {"redeliver", "summon", "retro"},
               log'[i].kind = MarkerOf(task)
        PROVE  [kind |-> task, head |-> log'[i].head, about |-> log'[i].about, by |-> log'[i].by]
                  \in sent
    <3>1. CASE i \in 1..Now
      BY <1>1, <1>2, <2>2, <3>1 DEF MarkersTellTheTruth, Posted
    <3>2. CASE i \notin 1..Now
      BY <1>2, <2>2, <3>2 DEF Founded
    <3> QED BY <3>1, <3>2
  <2> QED BY <2>1, <2>2 DEF MarkersTellTheTruth, Posted, MarkerOf
<1> QED BY <1>4, <1>5, <1>6

\* The latest push is the same one unless there is a new one.
LEMMA HeadStaysLogged ==
    ASSUME LoopInv, NEW e, Grows(e), log' = log \/ e.kind # "push"
    PROVE  Now' >= 1 /\ log'[1].kind = "push" /\ HeadAt(Now)' = head
<1>1. /\ log \in Seq(Entries) /\ Now \in Nat /\ Now' \in Nat /\ BranchIsLogged
      /\ Now \in 0..Now
  BY DEF LoopInv, TypeOK, Now, Grows
<1>2. /\ \A i \in 1..Now : log'[i] = log[i]
      /\ Now' >= Now
      /\ \A i \in 1..Now' : i \notin 1..Now => log'[i] = e /\ log' # log
  BY <1>1, EntriesOfLog
<1>3. {i \in 1..Now' : log'[i].kind = "push"} = {i \in 1..Now : log[i].kind = "push"}
  BY <1>1, <1>2
<1>4. Now \in 1..Now
  BY <1>1 DEF BranchIsLogged
<1>5. HeadAt(Now)' = head
  <2> DEFINE P == {i \in 1..Now : log[i].kind = "push"}
  <2>1. 1 \in P /\ P \in SUBSET (0..Now)
    BY <1>1, <1>4 DEF BranchIsLogged
  <2>2. Latest(P) \in 1..Now
    BY <1>1, <2>1, LatestIsGreatest
  <2>3. HeadAt(Now) = log[Latest(P)].head /\ HeadAt(Now)' = log'[Latest(P)].head
    BY <1>3 DEF HeadAt
  <2> QED BY <1>1, <1>2, <2>2, <2>3 DEF BranchIsLogged
<1> QED BY <1>1, <1>2, <1>4, <1>5 DEF BranchIsLogged

\* An entry that is no closing leaves the PR open, or closed.
LEMMA OpenStaysLogged ==
    ASSUME LoopInv, NEW e, Grows(e), log' = log \/ e.kind # "close"
    PROVE  OpenAt(Now)' <=> open
<1>1. log \in Seq(Entries) /\ Now \in Nat /\ Now' \in Nat /\ BranchIsLogged
  BY DEF LoopInv, TypeOK, Now, Grows
<1>2. /\ \A i \in 1..Now : log'[i] = log[i]
      /\ Now' >= Now
      /\ \A i \in 1..Now' : i \notin 1..Now => log'[i] = e /\ log' # log
  BY <1>1, EntriesOfLog
<1>3. OpenAt(Now)' <=> OpenAt(Now)
  BY <1>1, <1>2 DEF OpenAt
<1> QED BY <1>1, <1>3 DEF BranchIsLogged

\* An entry that is neither a push nor a closing leaves the branch as it is.
LEMMA BranchStaysLogged ==
    ASSUME LoopInv, NEW e, Grows(e), log' = log \/ e.kind \notin {"push", "close"},
           UNCHANGED <<head, open>>
    PROVE  BranchIsLogged'
  BY HeadStaysLogged, OpenStaysLogged DEF BranchIsLogged

-----------------------------------------------------------------------------
(* The runs after a step of one of them.                                   *)

\* A group's run goes on as one that is sound, or the waiting one starts.
LEMMA GroupsStaySound ==
    ASSUME LoopInv, NEW g \in Groups, NEW e, Grows(e), log' = log \/ e.by = g,
           sent \subseteq sent', NEW Rs, GoOn(g, Rs),
           \A r \in Rs : r \in Run /\ Sound(g, r)'
    PROVE  /\ run' \in [Groups -> Run] /\ pending' \in [Groups -> Run]
           /\ \A q \in Groups : Sound(q, run[q])' /\ Fresh(q, pending[q])'
<1>1. /\ TypeOK /\ BranchIsLogged /\ log \in Seq(Entries)
      /\ run \in [Groups -> Run] /\ pending \in [Groups -> Run]
      /\ \A q \in Groups : Sound(q, run[q]) /\ Fresh(q, pending[q])
  BY DEF LoopInv, TypeOK
<1>2. \A q \in Groups : Fresh(q, NoRun)'
  BY DEF Fresh, NoRun
<1>3. ASSUME NEW q \in Groups, NEW r, Fresh(q, r)
      PROVE  Fresh(q, r)' /\ r \in Run /\ Sound(q, r)'
  <2>1. Fresh(q, r)'
    BY <1>1, <1>3, FreshStays
  <2>2. r \in Run /\ Sound(q, r) /\ r.pc \in {"idle", "start"}
    BY <1>1, <1>3, FreshIsSound
  <2>3. \A kind : ~Upcoming(r, kind)
    BY <2>2 DEF Upcoming, Working
  <2>4. Sound(q, r)'
    BY <1>1, <2>2, <2>3, SoundStays
  <2> QED BY <2>1, <2>2, <2>4
<1>4. ASSUME NEW q \in Groups, q # g PROVE Sound(q, run[q]) => \A r : r = run[q] => Sound(q, r)'
  <2>1. SUFFICES ASSUME NEW r, r = run[q] PROVE Sound(q, r)'
    OBVIOUS
  <2>2. r \in Run /\ Sound(q, r)
    BY <1>1, <2>1
  <2>3. log' = log \/ e.by # q
    BY <1>4
  <2> QED BY <1>1, <2>2, <2>3, SoundStays
<1>5. PICK next : /\ next \in Run /\ Sound(g, next)'
                  /\ run' = [run EXCEPT ![g] = next]
                  /\ pending' = pending \/ pending' = [pending EXCEPT ![g] = NoRun]
  <2>1. CASE Rs = {}
    <3>1. run' = [run EXCEPT ![g] = pending[g]] /\ pending' = [pending EXCEPT ![g] = NoRun]
      BY <2>1 DEF GoOn, End
    <3>2. \A r : r = pending[g] => r \in Run /\ Sound(g, r)'
      BY <1>1, <1>3
    <3> QED BY <3>1, <3>2
  <2>2. CASE Rs # {}
    <3>1. PICK r \in Rs : run' = [run EXCEPT ![g] = r] /\ pending' = pending
      BY <2>2 DEF GoOn, Continue
    <3> QED BY <3>1
  <2> QED BY <2>1, <2>2
<1>6. run' \in [Groups -> Run]
  BY <1>1, <1>5
<1>7. NoRun \in Run
  BY <1>1, FreshIsSound DEF Fresh, NoRun
<1>8. pending' \in [Groups -> Run]
  BY <1>1, <1>5, <1>7
<1>9. ASSUME NEW q \in Groups PROVE Sound(q, run[q])'
  <2>1. \A r : r = run'[q] => Sound(q, r)'
    <3>1. CASE q = g
      BY <1>1, <1>5, <3>1
    <3>2. CASE q # g
      BY <1>1, <1>4, <1>5, <3>2
    <3> QED BY <3>1, <3>2
  <2> QED BY <2>1
<1>10. ASSUME NEW q \in Groups PROVE Fresh(q, pending[q])'
  <2>1. \A r : r = pending'[q] => Fresh(q, r)'
    <3>1. CASE pending'[q] = pending[q]
      BY <1>1, <1>3, <3>1
    <3>2. CASE pending'[q] = NoRun
      BY <1>2, <3>2
    <3> QED BY <1>1, <1>5, <3>1, <3>2
  <2> QED BY <2>1
<1> QED BY <1>6, <1>8, <1>9, <1>10

\* A step of a run: what it writes is founded, and what it does next is sound.
LEMMA RunStepKeeps ==
    ASSUME LoopInv, NEW g \in Groups, NEW e, Grows(e),
           log' = log \/ (Founded(e) /\ e.kind \in Markers /\ e.by = g),
           sent \subseteq sent', sent' \subseteq Sent,
           UNCHANGED <<prVars, timeVars, happened>>, failures' \in 0..MaxFailures,
           NEW Rs, GoOn(g, Rs), \A r \in Rs : r \in Run /\ Sound(g, r)'
    PROVE  LoopInv'
<1>1. /\ run' \in [Groups -> Run] /\ pending' \in [Groups -> Run]
      /\ \A q \in Groups : Sound(q, run[q])' /\ Fresh(q, pending[q])'
  BY GroupsStaySound
<1>2. EntriesAreFounded' /\ MarkersDiffer' /\ MarkersTellTheTruth'
  BY LogStaysFounded
<1>3. BranchIsLogged'
  <2>1. log' = log \/ e.kind \notin {"push", "close"}
    BY DEF Markers
  <2> QED BY <2>1, BranchStaysLogged DEF prVars
<1>4. TypeOK'
  <2>1. /\ log \in Seq(Entries) /\ Now \in Nat /\ old \in 0..Now
        /\ head \in Heads /\ open \in BOOLEAN /\ base \in {0, 1} /\ stalled \in BOOLEAN
        /\ happened \in 0..MaxOutside
    BY DEF LoopInv, TypeOK, Now
  <2>2. log' \in Seq(Entries) /\ Now' \in Nat /\ Now' >= Now
    BY <2>1, EntriesOfLog DEF Now
  <2>3. old' \in 0..Now'
    BY <2>1, <2>2 DEF timeVars
  <2>4. UNCHANGED <<head, open, base, stalled, happened>>
    BY DEF prVars, timeVars
  <2> QED BY <1>1, <2>1, <2>2, <2>3, <2>4 DEF TypeOK, Now
<1> QED BY <1>1, <1>2, <1>3, <1>4 DEF LoopInv

\* A step that writes nothing.
LEMMA QuietStepKeeps ==
    ASSUME LoopInv, NEW g \in Groups, UNCHANGED <<log, sent>>,
           UNCHANGED <<prVars, timeVars, happened>>, failures' \in 0..MaxFailures,
           NEW Rs, GoOn(g, Rs), \A r \in Rs : r \in Run /\ Sound(g, r)
    PROVE  LoopInv'
<1>1. TypeOK /\ BranchIsLogged /\ sent \subseteq Sent
  BY DEF LoopInv, TypeOK
<1>2. ASSUME NEW r \in Rs PROVE r \in Run /\ Sound(g, r)'
  <2>1. Grows(g) /\ sent \subseteq sent' /\ r \in Run /\ Sound(g, r) /\ log' = log
    BY DEF Grows
  <2> QED BY <1>1, <2>1, SoundStays
<1>3. Grows(g) /\ sent \subseteq sent' /\ sent' \subseteq Sent
  BY <1>1 DEF Grows
<1> QED BY <1>2, <1>3, RunStepKeeps

-----------------------------------------------------------------------------
(* The steps of a run.                                                     *)

\* The run at another place, everything else as it was.
LEMMA Moved ==
    ASSUME NEW r \in Run, NEW p \in PCs, NEW q \in To(r, p)
    PROVE  /\ q \in Run /\ q.pc = p /\ q.job = r.job /\ q.task = r.task /\ q.head = r.head
           /\ q.about = r.about /\ q.note = r.note /\ q.began = r.began /\ q.closed = r.closed
           /\ q.seen = r.seen /\ q.lived = r.lived
<1>1. q = [r EXCEPT !.pc = p]
  BY DEF To
<1> QED BY <1>1 DEF Run

\* A run that goes on with its job and its snapshot keeps what they allow.
LEMMA Carried ==
    ASSUME NEW g, NEW r \in Run, NEW q \in Run, Sound(g, r), Working(r), Working(q),
           q.job = r.job, q.task = r.task, q.head = r.head, q.about = r.about, q.began = r.began,
           \A kind : Upcoming(q, kind) => Upcoming(r, kind),
           r.job = "route" /\ r.task \in {"gatewake", "retro"} /\ q.pc \notin {"gate", "post"} =>
              r.pc \notin {"gate", "post"} \/ Has("gate", r.head, Now)
    PROVE  ScanIsCalledFor(q) /\ RouteIsCalledFor(q) /\ Unmarked(g, q)
<1>1. ScanIsCalledFor(q)
  BY DEF Sound, ScanIsCalledFor
<1>2. RouteIsCalledFor(q)
  BY DEF Sound, RouteIsCalledFor
<1>3. Unmarked(g, q)
  BY DEF Sound, Unmarked
<1> QED BY <1>1, <1>2, <1>3

\* What a step finds of its run.
LEMMA RunFound ==
    ASSUME LoopInv, NEW g \in Groups
    PROVE  /\ run[g] \in Run /\ Sound(g, run[g]) /\ Staged(g, run[g]) /\ Looked(run[g])
           /\ ScanIsCalledFor(run[g]) /\ RouteIsCalledFor(run[g])
           /\ TypeOK /\ BranchIsLogged /\ Now \in Nat /\ Now \in 1..Now /\ failures \in 0..MaxFailures
           /\ sent \subseteq Sent
  BY DEF LoopInv, TypeOK, Sound, BranchIsLogged, Now

\* A live run looks at the head that is the open PR's.
LEMMA LiveIsLogged ==
    ASSUME LoopInv, NEW r, Live(r)
    PROVE  r.head = HeadAt(Now) /\ (OpenAt(Now) \/ r.task = "chase")
  BY DEF LoopInv, BranchIsLogged, Live

LEMMA StartScanKeeps == ASSUME LoopInv, NEW g \in Groups, StartScan(g) PROVE LoopInv'
<1> DEFINE r     == run[g]
           skips == g = "push" /\ open /\ head \in SkipHeads /\ ~Has("skip", head, Now)
           skip  == [run[g] EXCEPT !.head = head, !.pc = "skip"]
           Rs    == IF skips THEN {skip} ELSE IF open THEN Scanning ELSE {}
<1>1. /\ r.pc = "start" /\ r.job = "scan" /\ GoOn(g, Rs) /\ UNCHANGED <<log, sent>>
      /\ UNCHANGED <<prVars, timeVars, happened>> /\ failures' = failures
  BY DEF StartScan, Step
<1>2. r \in Run /\ Staged(g, r) /\ Now \in Nat /\ head \in Heads /\ failures \in 0..MaxFailures
  BY RunFound DEF TypeOK
<1>3. ASSUME skips PROVE skip \in Run /\ Sound(g, skip)
  <2>1. /\ skip \in Run /\ skip.pc = "skip" /\ skip.job = "scan" /\ skip.head = head
        /\ skip.task = r.task
    BY <1>1, <1>2 DEF Run, PCs
  <2> HIDE DEF skip, r
  <2>2. Staged(g, skip)
    BY <1>2, <2>1 DEF Staged, Working
  <2>3. ScanIsCalledFor(skip) /\ RouteIsCalledFor(skip) /\ Looked(skip) /\ SentFirst(g, skip)
    BY <2>1 DEF ScanIsCalledFor, RouteIsCalledFor, Looked, SentFirst, Working
  <2>4. Unmarked(g, skip)
    BY <1>3, <2>1 DEF Unmarked, Upcoming, Working, Has, At
  <2> QED BY <2>1, <2>2, <2>3, <2>4 DEF Sound
<1>4. ASSUME NEW q \in Rs PROVE q \in Run /\ Sound(g, q)
  BY <1>3, <1>4, ScanningIsSound
<1> HIDE DEF Rs
<1> QED BY <1>1, <1>2, <1>4, QuietStepKeeps

LEMMA StartRouteKeeps == ASSUME LoopInv, NEW g \in Groups, StartRoute(g) PROVE LoopInv'
<1> DEFINE r  == run[g]
           r1 == [r EXCEPT !.head = head, !.began = Now]
           Rs == IF AtHead(r) THEN To(r1, "refresh") ELSE {}
<1>1. /\ r.pc = "start" /\ r.job = "route" /\ GoOn(g, Rs) /\ UNCHANGED <<log, sent>>
      /\ UNCHANGED <<prVars, timeVars, happened>> /\ failures' = failures
  BY DEF StartRoute, Step
<1>2. /\ r \in Run /\ Staged(g, r) /\ Now \in Nat /\ Now \in 1..Now /\ head \in Heads
      /\ failures \in 0..MaxFailures
  BY RunFound DEF TypeOK
<1>3. /\ g = "verdict" /\ r = Route(r.about) /\ r.about \in 1..Now /\ log[r.about].kind = "verdict"
  <2>1. Idle.pc = "idle" /\ Scan.job = "scan"
    BY DEF Idle, Scan
  <2>2. Fresh(g, r)
    BY <1>1, <1>2 DEF Staged
  <2>3. r # Idle /\ r # Scan
    BY <1>1, <2>1
  <2> QED BY <2>2, <2>3 DEF Fresh
<1>4. r1 \in Run /\ r1.head = head /\ r1.began = Now /\ r1.about = r.about /\ r1.job = "route"
      /\ r1.task = r.task
  BY <1>1, <1>2 DEF Run
<1>5. r.task = "none"
  BY <1>3 DEF Route, Idle
<1>6. "refresh" \in PCs
  BY DEF PCs
<1> HIDE DEF r, r1
<1>7. ASSUME NEW q \in Rs PROVE q \in Run /\ Sound(g, q)
  <2>1. /\ q \in Run /\ q.pc = "refresh" /\ q.job = "route" /\ q.task = "none" /\ q.head = head
        /\ q.about = r.about /\ q.began = Now
    BY <1>4, <1>5, <1>6, <1>7, Moved
  <2>2. log[r.about].head = head
    BY <1>7 DEF AtHead
  <2>3. Staged(g, q)
    BY <1>2, <1>3, <2>1 DEF Staged, Working
  <2>4. ScanIsCalledFor(q) /\ Looked(q) /\ SentFirst(g, q) /\ Unmarked(g, q)
    BY <2>1 DEF ScanIsCalledFor, Looked, SentFirst, Unmarked, Upcoming
  <2>5. RouteIsCalledFor(q)
    BY <1>3, <2>1, <2>2 DEF RouteIsCalledFor
  <2> QED BY <2>1, <2>3, <2>4, <2>5 DEF Sound
<1> HIDE DEF Rs
<1> QED BY <1>1, <1>2, <1>7, QuietStepKeeps

\* Past the pin the route goes on as its verdict tells.
LEMMA RoutedIsSound ==
    ASSUME LoopInv, NEW g \in Groups, NEW r \in Run, RouteIsCalledFor(r), Working(r),
           r.job = "route", g = "verdict", r.head \in Heads, r.began \in 1..Now,
           NEW q \in Routed(r)
    PROVE  q \in Run /\ Sound(g, q) /\ \A kind : ~Upcoming(q, kind)
<1>1. /\ r.about \in 1..r.began /\ log[r.about].kind = "verdict" /\ log[r.about].head = r.head
  BY DEF RouteIsCalledFor
<1>2. Reviewed(r.began) \union {r.head} = Reviewed(r.began)
  BY <1>1 DEF Reviewed
<1>3. PICK t \in {"clean", "burn", "gatewake"} :
         /\ q \in To([r EXCEPT !.task = t],
                     IF t = "gatewake" THEN "gate" ELSE IF t = "burn" THEN "live" ELSE "closure")
         /\ t = "gatewake" => Cardinality(Reviewed(r.began)) >= MaxRounds
  BY <1>2 DEF Routed, Burns, Closes
<1> DEFINE p  == IF t = "gatewake" THEN "gate" ELSE IF t = "burn" THEN "live" ELSE "closure"
           r1 == [r EXCEPT !.task = t]
<1>4. /\ r1 \in Run /\ r1.task = t /\ r1.job = "route" /\ r1.head = r.head /\ r1.about = r.about
      /\ r1.began = r.began
  BY <1>3 DEF Run, Tasks
<1>5. p \in PCs
  BY DEF PCs
<1>6. q \in To(r1, p)
  BY <1>3
<1> HIDE DEF r1, p
<1>7. /\ q \in Run /\ q.pc = p /\ q.task = t /\ q.job = "route" /\ q.head = r.head
      /\ q.about = r.about /\ q.began = r.began
  BY <1>4, <1>5, <1>6, Moved
<1>8. Working(q) /\ \A kind : ~Upcoming(q, kind)
  BY <1>7 DEF Working, Upcoming, p
<1>9. Staged(g, q)
  BY <1>3, <1>7 DEF Staged, Working, p
<1>10. ScanIsCalledFor(q) /\ Looked(q) /\ SentFirst(g, q) /\ Unmarked(g, q)
  BY <1>3, <1>7, <1>8 DEF ScanIsCalledFor, Looked, SentFirst, Unmarked, p
<1>11. RouteIsCalledFor(q)
  BY <1>1, <1>3, <1>7 DEF RouteIsCalledFor, p
<1> QED BY <1>7, <1>8, <1>9, <1>10, <1>11 DEF Sound

LEMMA RefreshKeeps == ASSUME LoopInv, NEW g \in Groups, Refresh(g) PROVE LoopInv'
<1> DEFINE r  == run[g]
           r1 == [run[g] EXCEPT !.note = base]
           Rs == IF ~Live(r1) THEN {}
                 ELSE IF r1.job = "scan"
                   THEN To(r1, IF log[r1.about].result = "clean" THEN "closure" ELSE "held")
                 ELSE IF Has("pin", r1.head, r1.began) THEN Routed(r1) ELSE To(r1, "pin")
<1>1. /\ r.pc = "refresh" /\ GoOn(g, Rs) /\ UNCHANGED <<log, sent>>
      /\ UNCHANGED <<prVars, timeVars, happened>> /\ failures' = failures
  BY DEF Refresh, Step
<1>2. /\ r \in Run /\ Sound(g, r) /\ Staged(g, r) /\ RouteIsCalledFor(r) /\ base \in {0, 1}
      /\ failures \in 0..MaxFailures
  BY RunFound DEF TypeOK
<1>3. Working(r)
  BY <1>1 DEF Working
<1>4. /\ r1 \in Run /\ r1.pc = r.pc /\ r1.job = r.job /\ r1.task = r.task /\ r1.head = r.head
      /\ r1.about = r.about /\ r1.began = r.began
  BY <1>2 DEF Run
<1>5. \/ r.job = "route" /\ r.task = "none" /\ g = "verdict"
      \/ r.job = "scan" /\ r.task = "redeliver"
  BY <1>1, <1>2, <1>3 DEF Staged
<1> HIDE DEF r, r1
<1>6. RouteIsCalledFor(r1)
  BY <1>1, <1>2, <1>3, <1>4 DEF RouteIsCalledFor
<1>7. r.head \in Heads /\ r.began \in 1..Now
  BY <1>2, <1>3 DEF Staged
<1>8. ASSUME NEW p \in {"closure", "held", "pin"}, NEW q \in To(r1, p),
             r.job = "scan" => p # "pin", r.job = "route" => p = "pin",
             p = "held" => log[r.about].result # "clean"
      PROVE  q \in Run /\ Sound(g, q)
  <2>1. /\ q \in Run /\ q.pc = p /\ q.job = r.job /\ q.task = r.task /\ q.head = r.head
        /\ q.about = r.about /\ q.began = r.began
    BY <1>4, <1>8, Moved DEF PCs
  <2>2. Working(q) /\ \A kind : Upcoming(q, kind) => Upcoming(r, kind)
    BY <1>1, <2>1 DEF Working, Upcoming
  <2>3. ScanIsCalledFor(q) /\ RouteIsCalledFor(q) /\ Unmarked(g, q)
    BY <1>2, <1>3, <1>5, <2>1, <2>2, Carried
  <2>4. Staged(g, q)
    BY <1>5, <1>7, <1>8, <2>1 DEF Staged, Working
  <2>5. Looked(q) /\ SentFirst(g, q)
    BY <1>5, <1>8, <2>1 DEF Looked, SentFirst
  <2> QED BY <2>1, <2>3, <2>4, <2>5 DEF Sound
<1>9. ASSUME NEW q \in Rs PROVE q \in Run /\ Sound(g, q)
  <2>1. CASE r.job = "scan"
    BY <1>4, <1>8, <1>9, <2>1
  <2>2. CASE r.job = "route" /\ q \in Routed(r1)
    <3>1. Working(r1)
      BY <1>3, <1>4 DEF Working
    <3> QED BY <1>4, <1>5, <1>6, <1>7, <2>2, <3>1, RoutedIsSound
  <2>3. CASE r.job = "route" /\ q \in To(r1, "pin")
    BY <1>4, <1>8, <1>9, <2>3
  <2> QED BY <1>4, <1>5, <1>9, <2>1, <2>2, <2>3
<1> HIDE DEF Rs
<1> QED BY <1>1, <1>2, <1>9, QuietStepKeeps

LEMMA EnsurePinKeeps == ASSUME LoopInv, NEW g \in Groups, EnsurePin(g) PROVE LoopInv'
<1> DEFINE r  == run[g]
           Rs == IF Has("pin", r.head, Now) THEN Routed(r)
                 ELSE IF Live(r) THEN To(r, "postpin") ELSE {}
<1>1. /\ r.pc = "pin" /\ GoOn(g, Rs) /\ UNCHANGED <<log, sent>>
      /\ UNCHANGED <<prVars, timeVars, happened>> /\ failures' = failures
  BY DEF EnsurePin, Step
<1>2. /\ r \in Run /\ Sound(g, r) /\ Staged(g, r) /\ RouteIsCalledFor(r)
      /\ failures \in 0..MaxFailures /\ "postpin" \in PCs
  BY RunFound DEF TypeOK, PCs
<1>3. /\ Working(r) /\ r.job = "route" /\ r.task = "none" /\ g = "verdict"
      /\ r.head \in Heads /\ r.began \in 1..Now
  BY <1>1, <1>2 DEF Staged, Working
<1> HIDE DEF r
<1>4. ASSUME NEW q \in To(r, "postpin"), ~Has("pin", r.head, Now)
      PROVE  q \in Run /\ Sound(g, q)
  <2>1. /\ q \in Run /\ q.pc = "postpin" /\ q.job = r.job /\ q.task = r.task /\ q.head = r.head
        /\ q.about = r.about /\ q.began = r.began
    BY <1>2, <1>4, Moved
  <2>2. Staged(g, q)
    BY <1>3, <2>1 DEF Staged, Working
  <2>3. Looked(q) /\ SentFirst(g, q) /\ ScanIsCalledFor(q)
    BY <1>3, <2>1 DEF Looked, SentFirst, ScanIsCalledFor
  <2>4. RouteIsCalledFor(q)
    BY <1>2, <1>3, <2>1 DEF RouteIsCalledFor
  <2>5. Unmarked(g, q)
    <3>1. \A kind : Upcoming(q, kind) => kind = "pin"
      BY <1>3, <2>1 DEF Upcoming
    <3> QED BY <1>4, <2>1, <3>1 DEF Unmarked, Has, At
  <2> QED BY <2>1, <2>2, <2>3, <2>4, <2>5 DEF Sound
<1>5. ASSUME NEW q \in Rs PROVE q \in Run /\ Sound(g, q)
  BY <1>2, <1>3, <1>4, <1>5, RoutedIsSound
<1> HIDE DEF Rs
<1> QED BY <1>1, <1>2, <1>5, QuietStepKeeps

LEMMA CheckClosureKeeps == ASSUME LoopInv, NEW g \in Groups, CheckClosure(g) PROVE LoopInv'
<1> DEFINE r  == run[g]
           r1 == [r EXCEPT !.closed = Now]
           p  == IF r.job = "scan" THEN "held" ELSE "live"
           Rs == IF StaleBase(r) \/ RetargetedAfter(r.about) THEN {} ELSE To(r1, p)
<1>1. /\ r.pc = "closure" /\ GoOn(g, Rs) /\ UNCHANGED <<log, sent>>
      /\ UNCHANGED <<prVars, timeVars, happened>> /\ failures' = failures
  BY DEF CheckClosure, Step
<1>2. /\ r \in Run /\ Sound(g, r) /\ Staged(g, r) /\ Now \in Nat /\ Now \in 1..Now
      /\ failures \in 0..MaxFailures /\ p \in PCs
  BY RunFound DEF TypeOK, PCs
<1>3. /\ Working(r) /\ r.head \in Heads /\ r.began \in 1..Now
      /\ \/ r.job = "route" /\ r.task = "clean" /\ g = "verdict"
         \/ r.job = "scan" /\ r.task = "redeliver"
  BY <1>1, <1>2 DEF Staged, Working
<1>4. /\ r1 \in Run /\ r1.job = r.job /\ r1.task = r.task /\ r1.head = r.head
      /\ r1.about = r.about /\ r1.began = r.began /\ r1.closed = Now
  BY <1>2 DEF Run
<1> HIDE DEF r, r1
<1>5. ASSUME NEW q \in Rs PROVE q \in Run /\ Sound(g, q)
  <2>1. /\ q \in To(r1, p) /\ \A j \in r.about..Now : log[j].kind # "retarget"
    BY <1>5 DEF RetargetedAfter
  <2>2. /\ q \in Run /\ q.pc = p /\ q.job = r.job /\ q.task = r.task /\ q.head = r.head
        /\ q.about = r.about /\ q.began = r.began /\ q.closed = Now
    BY <1>2, <1>4, <2>1, Moved
  <2>3. Working(q) /\ \A kind : Upcoming(q, kind) => Upcoming(r, kind)
    BY <1>1, <1>3, <2>2 DEF Working, Upcoming
  <2>4. ScanIsCalledFor(q) /\ RouteIsCalledFor(q) /\ Unmarked(g, q)
    BY <1>2, <1>3, <2>2, <2>3, Carried
  <2>5. Staged(g, q)
    BY <1>3, <2>2 DEF Staged, Working
  <2>6. Looked(q) /\ SentFirst(g, q)
    BY <1>2, <1>3, <2>1, <2>2 DEF Looked, SentFirst
  <2> QED BY <2>2, <2>4, <2>5, <2>6 DEF Sound
<1> HIDE DEF Rs
<1> QED BY <1>1, <1>2, <1>5, QuietStepKeeps

LEMMA EnsureGateKeeps == ASSUME LoopInv, NEW g \in Groups, EnsureGate(g) PROVE LoopInv'
<1> DEFINE r  == run[g]
           r1 == [r EXCEPT !.lived = Now]
           Rs == IF Has("gate", r.head, Now) THEN To(r, "live")
                 ELSE IF Live(r) THEN To(r1, "post") ELSE {}
<1>1. /\ r.pc = "gate" /\ GoOn(g, Rs) /\ UNCHANGED <<log, sent>>
      /\ UNCHANGED <<prVars, timeVars, happened>> /\ failures' = failures
  BY DEF EnsureGate, Step
<1>2. /\ r \in Run /\ Sound(g, r) /\ Staged(g, r) /\ RouteIsCalledFor(r) /\ Now \in Nat
      /\ Now \in 1..Now /\ failures \in 0..MaxFailures /\ "live" \in PCs /\ "post" \in PCs
  BY RunFound DEF TypeOK, PCs
<1>3. /\ Working(r) /\ r.head \in Heads /\ r.began \in 1..Now
      /\ r.job = "route" /\ r.task = "gatewake" /\ g = "verdict"
  BY <1>1, <1>2 DEF Staged, Working
<1>4. /\ r1 \in Run /\ r1.job = r.job /\ r1.task = r.task /\ r1.head = r.head
      /\ r1.about = r.about /\ r1.began = r.began /\ r1.lived = Now
  BY <1>2 DEF Run
<1> HIDE DEF r, r1
<1>5. ASSUME NEW q \in To(r, "live"), Has("gate", r.head, Now) PROVE q \in Run /\ Sound(g, q)
  <2>1. /\ q \in Run /\ q.pc = "live" /\ q.job = r.job /\ q.task = r.task /\ q.head = r.head
        /\ q.about = r.about /\ q.began = r.began
    BY <1>2, <1>5, Moved
  <2>2. Working(q) /\ \A kind : Upcoming(q, kind) => Upcoming(r, kind)
    BY <1>3, <2>1 DEF Working, Upcoming
  <2>3. ScanIsCalledFor(q) /\ RouteIsCalledFor(q) /\ Unmarked(g, q)
    BY <1>2, <1>3, <1>5, <2>1, <2>2, Carried
  <2>4. Staged(g, q)
    BY <1>3, <2>1 DEF Staged, Working
  <2>5. Looked(q) /\ SentFirst(g, q)
    BY <1>3, <2>1 DEF Looked, SentFirst
  <2> QED BY <2>1, <2>3, <2>4, <2>5 DEF Sound
<1>6. ASSUME NEW q \in To(r1, "post"), ~Has("gate", r.head, Now), Live(r)
      PROVE  q \in Run /\ Sound(g, q)
  <2>1. /\ q \in Run /\ q.pc = "post" /\ q.job = r.job /\ q.task = r.task /\ q.head = r.head
        /\ q.about = r.about /\ q.began = r.began /\ q.lived = Now
    BY <1>2, <1>4, <1>6, Moved
  <2>2. r.head = HeadAt(Now) /\ OpenAt(Now)
    BY <1>3, <1>6, LiveIsLogged
  <2>3. ScanIsCalledFor(q) /\ SentFirst(g, q)
    BY <1>3, <2>1 DEF ScanIsCalledFor, SentFirst
  <2>4. RouteIsCalledFor(q)
    BY <1>2, <1>3, <2>1 DEF RouteIsCalledFor
  <2>5. Staged(g, q)
    BY <1>3, <2>1 DEF Staged, Working
  <2>6. Looked(q)
    BY <1>2, <1>3, <2>1, <2>2 DEF Looked
  <2>7. Unmarked(g, q)
    <3>1. \A kind : Upcoming(q, kind) => kind = "gate"
      BY <1>3, <2>1 DEF Upcoming
    <3> QED BY <1>6, <2>1, <3>1 DEF Unmarked, Has, At
  <2> QED BY <2>1, <2>3, <2>4, <2>5, <2>6, <2>7 DEF Sound
<1>7. ASSUME NEW q \in Rs PROVE q \in Run /\ Sound(g, q)
  BY <1>5, <1>6, <1>7
<1> HIDE DEF Rs
<1> QED BY <1>1, <1>2, <1>7, QuietStepKeeps

LEMMA CheckHeldKeeps == ASSUME LoopInv, NEW g \in Groups, CheckHeld(g) PROVE LoopInv'
<1> DEFINE r  == run[g]
           r1 == [run[g] EXCEPT !.seen = Now, !.lived = Now]
           Rs == IF ~(Held(r1) /\ Live(r1)) THEN {}
                 ELSE IF r1.task \in {"gate", "nudge"} THEN To(r1, "post") ELSE Dispatch(r1)
<1>1. /\ r.pc = "held" /\ GoOn(g, Rs) /\ UNCHANGED <<log, sent>>
      /\ UNCHANGED <<prVars, timeVars, happened>> /\ failures' = failures
  BY DEF CheckHeld, Step
<1>2. /\ r \in Run /\ Sound(g, r) /\ Staged(g, r) /\ Looked(r) /\ ScanIsCalledFor(r)
      /\ Now \in Nat /\ Now \in 1..Now /\ failures \in 0..MaxFailures
  BY RunFound DEF TypeOK
<1>3. /\ Working(r) /\ r.head \in Heads /\ r.began \in 1..Now /\ r.job = "scan"
      /\ r.task \in {"redeliver", "gate", "nudge", "summon"}
  BY <1>1, <1>2 DEF Staged, Working
<1>4. /\ r1 \in Run /\ r1.job = r.job /\ r1.task = r.task /\ r1.head = r.head
      /\ r1.about = r.about /\ r1.began = r.began /\ r1.closed = r.closed
      /\ r1.seen = Now /\ r1.lived = Now
  BY <1>2 DEF Run
<1> HIDE DEF r, r1
<1>5. ASSUME NEW p \in {"post", "relive", "send"}, NEW q \in To(r1, p), Held(r1), Live(r1),
             p = "post" <=> r.task \in {"gate", "nudge"}, p = "relive" => r.task = "redeliver"
      PROVE  q \in Run /\ Sound(g, q)
  <2>1. /\ q \in Run /\ q.pc = p /\ q.job = r.job /\ q.task = r.task /\ q.head = r.head
        /\ q.about = r.about /\ q.began = r.began /\ q.closed = r.closed
        /\ q.seen = Now /\ q.lived = Now
    BY <1>4, <1>5, Moved DEF PCs
  <2>2. Verdict(r.head, Now) = r.about
    BY <1>2, <1>3, <1>4, <1>5 DEF Held, ScanIsCalledFor
  <2>3. r.head = HeadAt(Now) /\ OpenAt(Now)
    BY <1>3, <1>4, <1>5, LiveIsLogged
  <2>4. Working(q) /\ \A kind : Upcoming(q, kind) => Upcoming(r, kind)
    BY <1>3, <1>5, <2>1 DEF Working, Upcoming
  <2>5. ScanIsCalledFor(q) /\ RouteIsCalledFor(q) /\ Unmarked(g, q)
    BY <1>2, <1>3, <2>1, <2>4, Carried
  <2>6. Staged(g, q)
    BY <1>3, <1>5, <2>1 DEF Staged, Working
  <2>7. SentFirst(g, q)
    BY <1>5, <2>1 DEF SentFirst
  <2>8. Looked(q)
    BY <1>1, <1>2, <1>3, <2>1, <2>2, <2>3 DEF Looked
  <2> QED BY <2>1, <2>5, <2>6, <2>7, <2>8 DEF Sound
<1>6. ASSUME NEW q \in Rs PROVE q \in Run /\ Sound(g, q)
  <2>1. Held(r1) /\ Live(r1)
    BY <1>6
  <2>2. CASE r.task \in {"gate", "nudge"}
    BY <1>4, <1>5, <1>6, <2>1, <2>2
  <2>3. CASE r.task \notin {"gate", "nudge"}
    <3>1. q \in Dispatch(r1)
      BY <1>4, <1>6, <2>3
    <3>2. q \in To(r1, "send") \/ (q \in To(r1, "relive") /\ r.task = "redeliver")
      BY <1>3, <1>4, <3>1 DEF Dispatch, Several
    <3> QED BY <1>5, <2>1, <2>3, <3>2
  <2> QED BY <2>2, <2>3
<1> HIDE DEF Rs
<1> QED BY <1>1, <1>2, <1>6, QuietStepKeeps

LEMMA CheckOwedKeeps == ASSUME LoopInv, NEW g \in Groups, CheckOwed(g) PROVE LoopInv'
<1> DEFINE r  == run[g]
           r1 == [run[g] EXCEPT !.seen = Now, !.lived = Now]
           p  == IF r1.about < MaxChases THEN "send" ELSE "mark"
           missing == ~Has("testimony", r1.head, Now) /\ Spent(r1.head, Now) < r1.about
           Rs == IF missing /\ Live(r1) THEN To(r1, p) ELSE {}
<1>1. /\ r.pc = "owed" /\ GoOn(g, Rs) /\ UNCHANGED <<log, sent>>
      /\ UNCHANGED <<prVars, timeVars, happened>> /\ failures' = failures
  BY DEF CheckOwed, Step
<1>2. /\ r \in Run /\ Sound(g, r) /\ Staged(g, r)
      /\ Now \in Nat /\ Now \in 1..Now /\ failures \in 0..MaxFailures /\ p \in PCs
  BY RunFound DEF TypeOK, PCs
<1>3. /\ Working(r) /\ r.head \in Heads /\ r.began \in 1..Now /\ r.job = "scan" /\ r.task = "chase"
  BY <1>1, <1>2 DEF Staged, Working
<1>4. /\ r1 \in Run /\ r1.job = r.job /\ r1.task = r.task /\ r1.head = r.head
      /\ r1.about = r.about /\ r1.began = r.began /\ r1.seen = Now /\ r1.lived = Now
  BY <1>2 DEF Run
<1> HIDE DEF r, r1
<1>5. ASSUME NEW q \in Rs PROVE q \in Run /\ Sound(g, q)
  <2>1. /\ q \in Run /\ q.pc = p /\ q.job = r.job /\ q.task = r.task /\ q.head = r.head
        /\ q.about = r.about /\ q.began = r.began /\ q.seen = Now /\ q.lived = Now
    BY <1>2, <1>4, <1>5, Moved
  <2>2. ~Has("testimony", r.head, Now) /\ Live(r1)
    BY <1>4, <1>5
  <2>3. r.head = HeadAt(Now)
    BY <1>4, <2>2, LiveIsLogged
  <2>4. Working(q) /\ \A kind : Upcoming(q, kind) => Upcoming(r, kind)
    BY <1>3, <2>1 DEF Working, Upcoming
  <2>5. ScanIsCalledFor(q) /\ RouteIsCalledFor(q) /\ Unmarked(g, q)
    BY <1>2, <1>3, <2>1, <2>4, Carried
  <2>6. Staged(g, q)
    BY <1>3, <2>1 DEF Staged, Working
  <2>7. SentFirst(g, q)
    BY <1>3, <1>4, <2>1 DEF SentFirst
  <2>8. Looked(q)
    BY <1>2, <1>3, <2>1, <2>2, <2>3 DEF Looked
  <2> QED BY <2>1, <2>5, <2>6, <2>7, <2>8 DEF Sound
<1> HIDE DEF Rs
<1> QED BY <1>1, <1>2, <1>5, QuietStepKeeps

LEMMA CheckLiveKeeps == ASSUME LoopInv, NEW g \in Groups, CheckLive(g) PROVE LoopInv'
<1> DEFINE r  == run[g]
           r1 == [run[g] EXCEPT !.lived = Now]
           Rs == IF Live(r1) THEN Dispatch(r1) ELSE {}
<1>1. /\ r.pc = "live" /\ GoOn(g, Rs) /\ UNCHANGED <<log, sent>>
      /\ UNCHANGED <<prVars, timeVars, happened>> /\ failures' = failures
  BY DEF CheckLive, Step
<1>2. /\ r \in Run /\ Sound(g, r) /\ Staged(g, r) /\ Looked(r)
      /\ Now \in Nat /\ Now \in 1..Now /\ failures \in 0..MaxFailures
  BY RunFound DEF TypeOK
<1>3. /\ Working(r) /\ r.head \in Heads /\ r.began \in 1..Now /\ r.job = "route" /\ g = "verdict"
      /\ r.task \in {"clean", "burn", "gatewake", "retro"}
  BY <1>1, <1>2 DEF Staged, Working
<1>4. /\ r1 \in Run /\ r1.job = r.job /\ r1.task = r.task /\ r1.head = r.head
      /\ r1.about = r.about /\ r1.began = r.began /\ r1.closed = r.closed /\ r1.lived = Now
  BY <1>2 DEF Run
<1> HIDE DEF r, r1
<1>5. ASSUME NEW p \in {"relive", "send"}, NEW q \in To(r1, p), Live(r1),
             p = "relive" => r.task \in {"burn", "retro"}
      PROVE  q \in Run /\ Sound(g, q)
  <2>1. /\ q \in Run /\ q.pc = p /\ q.job = r.job /\ q.task = r.task /\ q.head = r.head
        /\ q.about = r.about /\ q.began = r.began /\ q.closed = r.closed /\ q.lived = Now
    BY <1>4, <1>5, Moved DEF PCs
  <2>2. r.head = HeadAt(Now) /\ OpenAt(Now)
    BY <1>3, <1>4, <1>5, LiveIsLogged
  <2>3. Working(q) /\ \A kind : Upcoming(q, kind) => Upcoming(r, kind)
    BY <1>3, <1>5, <2>1 DEF Working, Upcoming
  <2>4. ScanIsCalledFor(q) /\ RouteIsCalledFor(q) /\ Unmarked(g, q)
    BY <1>1, <1>2, <1>3, <2>1, <2>3, Carried
  <2>5. Staged(g, q)
    BY <1>3, <1>5, <2>1 DEF Staged, Working
  <2>6. SentFirst(g, q)
    BY <1>5, <2>1 DEF SentFirst
  <2>7. Looked(q)
    BY <1>1, <1>2, <1>3, <2>1, <2>2 DEF Looked
  <2> QED BY <2>1, <2>4, <2>5, <2>6, <2>7 DEF Sound
<1>6. ASSUME NEW q \in Rs PROVE q \in Run /\ Sound(g, q)
  <2>1. q \in To(r1, "send") \/ (q \in To(r1, "relive") /\ r.task \in {"burn", "retro"})
    BY <1>3, <1>4, <1>6 DEF Dispatch, Several
  <2> QED BY <1>5, <1>6, <2>1
<1> HIDE DEF Rs
<1> QED BY <1>1, <1>2, <1>6, QuietStepKeeps

LEMMA CheckAgainKeeps == ASSUME LoopInv, NEW g \in Groups, CheckAgain(g) PROVE LoopInv'
<1> DEFINE r  == run[g]
           r1 == [run[g] EXCEPT !.lived = Now]
           Rs == IF Live(r1) THEN To(r1, "send") ELSE {}
<1>1. /\ r.pc = "relive" /\ GoOn(g, Rs) /\ UNCHANGED <<log, sent>>
      /\ UNCHANGED <<prVars, timeVars, happened>> /\ failures' = failures
  BY DEF CheckAgain, Step
<1>2. /\ r \in Run /\ Sound(g, r) /\ Staged(g, r) /\ Looked(r)
      /\ Now \in Nat /\ Now \in 1..Now /\ failures \in 0..MaxFailures /\ "send" \in PCs
  BY RunFound DEF TypeOK, PCs
<1>3. /\ Working(r) /\ r.head \in Heads /\ r.began \in 1..Now
      /\ \/ r.job = "route" /\ r.task \in {"burn", "retro"} /\ g = "verdict"
         \/ r.job = "scan" /\ r.task = "redeliver"
  BY <1>1, <1>2 DEF Staged, Working
<1>4. /\ r1 \in Run /\ r1.job = r.job /\ r1.task = r.task /\ r1.head = r.head
      /\ r1.about = r.about /\ r1.began = r.began /\ r1.closed = r.closed /\ r1.seen = r.seen
      /\ r1.lived = Now
  BY <1>2 DEF Run
<1> HIDE DEF r, r1
<1>5. ASSUME NEW q \in Rs PROVE q \in Run /\ Sound(g, q)
  <2>1. /\ q \in Run /\ q.pc = "send" /\ q.job = r.job /\ q.task = r.task /\ q.head = r.head
        /\ q.about = r.about /\ q.began = r.began /\ q.closed = r.closed /\ q.seen = r.seen
        /\ q.lived = Now
    BY <1>2, <1>4, <1>5, Moved
  <2>2. r.head = HeadAt(Now) /\ OpenAt(Now)
    BY <1>3, <1>4, <1>5, LiveIsLogged
  <2>3. Working(q) /\ \A kind : Upcoming(q, kind) => Upcoming(r, kind)
    BY <1>3, <2>1 DEF Working, Upcoming
  <2>4. ScanIsCalledFor(q) /\ RouteIsCalledFor(q) /\ Unmarked(g, q)
    BY <1>1, <1>2, <1>3, <2>1, <2>3, Carried
  <2>5. Staged(g, q) /\ SentFirst(g, q)
    BY <1>3, <2>1 DEF Staged, Working, SentFirst
  <2>6. Looked(q)
    BY <1>1, <1>2, <1>3, <2>1, <2>2 DEF Looked
  <2> QED BY <2>1, <2>4, <2>5, <2>6 DEF Sound
<1> HIDE DEF Rs
<1> QED BY <1>1, <1>2, <1>5, QuietStepKeeps

LEMMA CrashKeeps == ASSUME LoopInv, NEW g \in Groups, Crash(g) PROVE LoopInv'
<1>1. /\ GoOn(g, {}) /\ UNCHANGED <<log, sent>> /\ UNCHANGED <<prVars, timeVars, happened>>
  BY DEF Crash, GoOn
<1>2. failures' \in 0..MaxFailures
  BY RunFound, LoopAssumption DEF Crash
<1> QED BY <1>1, <1>2, QuietStepKeeps

-----------------------------------------------------------------------------
(* The steps that publish.                                                 *)

\* A run's entry carries what the run is about.
LEMMA ByTyped ==
    ASSUME LoopInv, NEW g \in Groups, NEW kind \in Markers, NEW note \in Nat,
           NEW e \in {By(g, kind), [By(g, kind) EXCEPT !.note = note]}
    PROVE  /\ e \in Entries /\ e.kind = kind /\ e.head = run[g].head
           /\ e.about = run[g].about /\ e.by = g
<1>1. run[g] \in Run
  BY RunFound
<1>2. run[g].head \in Heads \union {NoHead} /\ run[g].about \in Nat
  BY <1>1 DEF Run
<1> DEFINE b == By(g, kind)
<1>3. /\ b \in Entries /\ b.kind = kind /\ b.head = run[g].head
      /\ b.about = run[g].about /\ b.by = g
  BY <1>2 DEF By, Entry, Entries
<1> HIDE DEF b
<1>4. [b EXCEPT !.note = note] \in Entries
  BY <1>3 DEF Entries
<1>5. e = b \/ e = [b EXCEPT !.note = note]
  BY DEF b
<1>6. CASE e = b
  BY <1>3, <1>6
<1>7. CASE e = [b EXCEPT !.note = note]
  BY <1>3, <1>4, <1>7 DEF Entries
<1> QED BY <1>5, <1>6, <1>7

\* A marker nobody posted yet, whose evidence is there.
LEMMA UpcomingIsFounded ==
    ASSUME LoopInv, NEW g \in Groups, NEW e, e.by = g, e.kind \in Markers,
           e.head = run[g].head, e.about = run[g].about,
           run[g].head \in Heads, Upcoming(run[g], e.kind),
           e.kind = "gate" => Cardinality(Reviewed(Now)) >= MaxRounds,
           e.kind \notin {"receipt", "chased", "redelivered", "assigned"}
    PROVE  Founded(e)
<1>1. Unmarked(g, run[g])
  BY RunFound DEF Sound
<1>2. \A i \in 1..Now : ~(/\ log[i].kind = e.kind /\ log[i].by = e.by
                          /\ log[i].head = e.head /\ log[i].about = e.about)
  BY <1>1 DEF Unmarked
<1>3. \A task \in {"redeliver", "summon", "retro"} : e.kind # MarkerOf(task)
  BY DEF MarkerOf
<1> QED BY <1>2, <1>3 DEF Founded, Markers

LEMMA RecordSkipKeeps == ASSUME LoopInv, NEW g \in Groups, RecordSkip(g) PROVE LoopInv'
<1> DEFINE e == By(g, "skip")
<1>1. /\ run[g].pc = "skip" /\ log' = Append(log, e) /\ sent' = sent /\ GoOn(g, {})
      /\ UNCHANGED <<prVars, timeVars, happened>> /\ failures' = failures
  BY DEF RecordSkip, Step, Publish, GoOn
<1>2. /\ run[g].head \in Heads /\ failures \in 0..MaxFailures /\ sent \subseteq Sent
  BY <1>1, RunFound DEF Staged
<1>3. /\ e \in Entries /\ e.kind = "skip" /\ e.head = run[g].head
      /\ e.about = run[g].about /\ e.by = g /\ e.kind \in Markers
  <2>1. "skip" \in Markers /\ 0 \in Nat
    BY DEF Markers
  <2> QED BY <2>1, ByTyped
<1> HIDE DEF e
<1>4. Founded(e)
  BY <1>1, <1>2, <1>3, UpcomingIsFounded DEF Upcoming
<1> QED BY <1>1, <1>2, <1>3, <1>4, RunStepKeeps DEF Grows

LEMMA PostPinKeeps == ASSUME LoopInv, NEW g \in Groups, PostPin(g) PROVE LoopInv'
<1> DEFINE r  == run[g]
           e  == [By(g, "pin") EXCEPT !.note = run[g].note]
           Rs == Routed(r)
<1>1. /\ r.pc = "postpin" /\ log' = Append(log, e) /\ sent' = sent /\ GoOn(g, Rs)
      /\ UNCHANGED <<prVars, timeVars, happened>> /\ failures' = failures
  BY DEF PostPin, Step, Publish
<1>2. /\ r \in Run /\ Sound(g, r) /\ Staged(g, r) /\ RouteIsCalledFor(r) /\ TypeOK
      /\ BranchIsLogged /\ failures \in 0..MaxFailures /\ sent \subseteq Sent
  BY RunFound
<1>3. /\ Working(r) /\ r.job = "route" /\ r.task = "none" /\ g = "verdict"
      /\ r.head \in Heads /\ r.began \in 1..Now
  BY <1>1, <1>2 DEF Staged, Working
<1>4. r.note \in Nat
  BY <1>2 DEF Run
<1>5. /\ e \in Entries /\ e.kind = "pin" /\ e.head = r.head
      /\ e.about = r.about /\ e.by = g /\ e.kind \in Markers
  <2>1. "pin" \in Markers
    BY DEF Markers
  <2> QED BY <1>4, <2>1, ByTyped
<1> HIDE DEF e
<1>6. Founded(e)
  BY <1>1, <1>3, <1>5, UpcomingIsFounded DEF Upcoming
<1>7. Grows(e)
  BY <1>1, <1>5 DEF Grows
<1> HIDE DEF r
<1>8. ASSUME NEW q \in Rs PROVE q \in Run /\ Sound(g, q)'
  <2>1. q \in Run /\ Sound(g, q) /\ \A kind : ~Upcoming(q, kind)
    BY <1>2, <1>3, <1>8, RoutedIsSound
  <2> QED BY <1>1, <1>2, <1>7, <2>1, SoundStays
<1> HIDE DEF Rs
<1> QED BY <1>1, <1>2, <1>5, <1>6, <1>7, <1>8, RunStepKeeps

LEMMA PostKeeps == ASSUME LoopInv, NEW g \in Groups, Post(g) PROVE LoopInv'
<1> DEFINE r    == run[g]
           kind == IF r.task = "nudge" THEN "nudge" ELSE "gate"
           e    == By(g, kind)
           Rs   == IF r.task = "gatewake" THEN To(r, "live") ELSE {}
<1>1. /\ r.pc = "post" /\ log' = Append(log, e) /\ sent' = sent /\ GoOn(g, Rs)
      /\ UNCHANGED <<prVars, timeVars, happened>> /\ failures' = failures
  BY DEF Post, Step, Publish
<1>2. /\ r \in Run /\ Sound(g, r) /\ Staged(g, r) /\ RouteIsCalledFor(r) /\ ScanIsCalledFor(r)
      /\ TypeOK /\ BranchIsLogged /\ Now \in Nat /\ failures \in 0..MaxFailures
      /\ sent \subseteq Sent /\ log \in Seq(Entries)
  BY RunFound DEF TypeOK
<1>3. /\ Working(r) /\ r.head \in Heads /\ r.began \in 1..Now
      /\ \/ r.job = "route" /\ r.task = "gatewake" /\ g = "verdict"
         \/ r.job = "scan" /\ r.task \in {"gate", "nudge"}
  BY <1>1, <1>2 DEF Staged, Working
<1>4. /\ e \in Entries /\ e.kind = kind /\ e.head = r.head
      /\ e.about = r.about /\ e.by = g /\ e.kind \in Markers
  <2>1. kind \in Markers /\ 0 \in Nat
    BY DEF Markers
  <2> HIDE DEF kind
  <2> QED BY <2>1, ByTyped
<1> HIDE DEF e
<1>5. Cardinality(Reviewed(r.began)) >= MaxRounds => Cardinality(Reviewed(Now)) >= MaxRounds
  <2>1. r.began \in Nat /\ r.began <= Now
    BY <1>2, <1>3
  <2>2. /\ Cardinality(Reviewed(r.began)) \in Nat /\ Cardinality(Reviewed(Now)) \in Nat
        /\ Cardinality(Reviewed(r.began)) <= Cardinality(Reviewed(Now))
    BY <1>2, <2>1, ReviewedGrows
  <2> QED BY <2>2, LoopAssumption
<1>6. kind = "gate" => Cardinality(Reviewed(Now)) >= MaxRounds
  BY <1>2, <1>3, <1>5 DEF RouteIsCalledFor, ScanIsCalledFor
<1>7. Founded(e)
  <2>1. Upcoming(r, kind)
    BY <1>1, <1>3 DEF Upcoming
  <2> QED BY <1>3, <1>4, <1>6, <2>1, UpcomingIsFounded
<1>8. Grows(e)
  BY <1>1, <1>4 DEF Grows
<1> HIDE DEF r
<1>9. ASSUME NEW q \in To(r, "live"), r.task = "gatewake" PROVE q \in Run /\ Sound(g, q)'
  <2>1. /\ q \in Run /\ q.pc = "live" /\ q.job = "route" /\ q.task = "gatewake" /\ q.head = r.head
        /\ q.about = r.about /\ q.began = r.began
    BY <1>2, <1>3, <1>9, Moved DEF PCs
  <2>2. /\ Now' = Now + 1 /\ log'[Now + 1] = e /\ \A i \in 1..Now : log'[i] = log[i]
    BY <1>1, <1>2, <1>4 DEF Now
  <2>3. Staged(g, q)'
    BY <1>2, <1>3, <1>9, <2>1, <2>2 DEF Staged, Working
  <2>4. (ScanIsCalledFor(q) /\ Looked(q) /\ SentFirst(g, q) /\ Unmarked(g, q))'
    BY <2>1 DEF ScanIsCalledFor, Looked, SentFirst, Unmarked, Upcoming
  <2>5. RouteIsCalledFor(q)'
    <3>1. /\ q.about \in 1..q.began /\ log[q.about].kind = "verdict"
          /\ log[q.about].head = q.head /\ Cardinality(Reviewed(q.began)) >= MaxRounds
      BY <1>2, <1>3, <1>9, <2>1 DEF RouteIsCalledFor
    <3>2. q.began \in 0..Now
      BY <1>2, <1>3, <2>1
    <3>3. log'[q.about] = log[q.about]
      BY <1>2, <2>2, <3>1, <3>2
    <3>4. Reviewed(q.began)' = Reviewed(q.began)
      BY <1>2, <1>8, <3>2, PrefixStays
    <3>5. Has("gate", q.head, Now)'
      <4>1. /\ Now + 1 \in 1..Now' /\ log'[Now + 1].kind = "gate"
            /\ log'[Now + 1].head = q.head
        BY <1>2, <1>4, <1>9, <2>1, <2>2
      <4> QED BY <4>1 DEF Has, At
    <3> QED BY <2>1, <3>1, <3>3, <3>4, <3>5 DEF RouteIsCalledFor
  <2> QED BY <2>1, <2>3, <2>4, <2>5 DEF Sound
<1>10. \A q \in Rs : q \in Run /\ Sound(g, q)'
  BY <1>9
<1> HIDE DEF Rs
<1> QED BY <1>1, <1>2, <1>4, <1>7, <1>8, <1>10, RunStepKeeps

LEMMA SendKeeps == ASSUME LoopInv, NEW g \in Groups, Send(g) PROVE LoopInv'
<1> DEFINE r   == run[g]
           msg == Message(g)
           r1  == [r EXCEPT !.task = "retro"]
           Rs  == CASE r.task \in {"redeliver", "summon", "retro", "chase"} -> To(r, "mark")
                    [] r.task = "gatewake" -> To(r1, "live")
                    [] OTHER -> {}
<1>1. /\ r.pc = "send" /\ log' = log /\ sent' = sent \union {msg} /\ GoOn(g, Rs)
      /\ UNCHANGED <<prVars, timeVars, happened>> /\ failures' = failures
  BY DEF Send, Step
<1>2. /\ r \in Run /\ Sound(g, r) /\ Staged(g, r) /\ RouteIsCalledFor(r) /\ Looked(r)
      /\ TypeOK /\ BranchIsLogged /\ Now \in Nat /\ failures \in 0..MaxFailures
      /\ sent \subseteq Sent
  BY RunFound DEF TypeOK
<1>3. /\ Working(r) /\ r.head \in Heads /\ r.began \in 1..Now /\ r.about \in Nat
      /\ \/ r.job = "route" /\ r.task \in {"clean", "burn", "gatewake", "retro"} /\ g = "verdict"
         \/ r.job = "scan" /\ r.task \in {"redeliver", "summon", "chase"}
  BY <1>1, <1>2 DEF Staged, Working, Run
<1>4. msg = [kind |-> r.task, head |-> r.head, about |-> r.about, by |-> g] /\ msg \in Sent
  BY <1>3 DEF Message, Sent, Messages
<1>5. /\ r1 \in Run /\ r1.job = r.job /\ r1.task = "retro" /\ r1.head = r.head
      /\ r1.about = r.about /\ r1.began = r.began
  BY <1>2 DEF Run, Tasks
<1>6. Grows(g) /\ sent \subseteq sent' /\ sent' \subseteq Sent
  BY <1>1, <1>2, <1>4 DEF Grows
<1> HIDE DEF r, msg, r1
<1>7. ASSUME NEW q \in To(r, "mark"), r.task \in {"redeliver", "summon", "retro", "chase"}
      PROVE  q \in Run /\ Sound(g, q)'
  <2>1. /\ q \in Run /\ q.pc = "mark" /\ q.job = r.job /\ q.task = r.task /\ q.head = r.head
        /\ q.about = r.about /\ q.began = r.began /\ q.closed = r.closed /\ q.seen = r.seen
        /\ q.lived = r.lived
    BY <1>2, <1>7, Moved DEF PCs
  <2>2. Working(q) /\ \A kind : Upcoming(q, kind) => Upcoming(r, kind)
    BY <1>3, <2>1 DEF Working, Upcoming
  <2>3. ScanIsCalledFor(q) /\ RouteIsCalledFor(q) /\ Unmarked(g, q)
    BY <1>1, <1>2, <1>3, <2>1, <2>2, Carried
  <2>4. Staged(g, q)
    BY <1>3, <1>7, <2>1 DEF Staged, Working
  <2>5. Looked(q)
    BY <1>1, <1>2, <1>3, <2>1 DEF Looked
  <2>6. (/\ Staged(g, q) /\ ScanIsCalledFor(q) /\ RouteIsCalledFor(q)
         /\ Looked(q) /\ Unmarked(g, q))'
    BY <1>1, <1>2, <1>6, <2>1, <2>3, <2>4, <2>5, PartsStay
  <2>7. SentFirst(g, q)'
    BY <1>1, <1>4, <2>1 DEF SentFirst
  <2> QED BY <2>1, <2>6, <2>7 DEF Sound
<1>8. ASSUME NEW q \in To(r1, "live"), r.task = "gatewake" PROVE q \in Run /\ Sound(g, q)'
  <2>1. /\ q \in Run /\ q.pc = "live" /\ q.job = r.job /\ q.task = "retro" /\ q.head = r.head
        /\ q.about = r.about /\ q.began = r.began
    BY <1>5, <1>8, Moved DEF PCs
  <2>2. r.job = "route" /\ g = "verdict"
    BY <1>3, <1>8
  <2>3. ScanIsCalledFor(q) /\ Looked(q) /\ SentFirst(g, q) /\ Unmarked(g, q)
    BY <2>1, <2>2 DEF ScanIsCalledFor, Looked, SentFirst, Unmarked, Upcoming
  <2>4. Staged(g, q)
    BY <1>3, <2>1, <2>2 DEF Staged, Working
  <2>5. RouteIsCalledFor(q)
    BY <1>1, <1>2, <1>3, <1>8, <2>1, <2>2 DEF RouteIsCalledFor
  <2>6. Sound(g, q)
    BY <2>3, <2>4, <2>5 DEF Sound
  <2> QED BY <1>1, <1>2, <1>6, <2>1, <2>6, SoundStays
<1>9. \A q \in Rs : q \in Run /\ Sound(g, q)'
  BY <1>3, <1>7, <1>8
<1> HIDE DEF Rs
<1> QED BY <1>1, <1>2, <1>6, <1>9, RunStepKeeps

LEMMA MarkKeeps == ASSUME LoopInv, NEW g \in Groups, Mark(g) PROVE LoopInv'
<1> DEFINE r    == run[g]
           kept == r.task = "retro" /\ Has("receipt", r.head, Now)
           kind == MarkerOf(r.task)
           e    == By(g, kind)
<1>1. /\ r.pc = "mark" /\ GoOn(g, {})
      /\ IF kept THEN UNCHANGED <<log, sent>> ELSE log' = Append(log, e) /\ sent' = sent
      /\ UNCHANGED <<prVars, timeVars, happened>> /\ failures' = failures
  BY DEF Mark, Step, Publish, GoOn
<1>2. /\ r \in Run /\ Sound(g, r) /\ Staged(g, r) /\ RouteIsCalledFor(r) /\ ScanIsCalledFor(r)
      /\ SentFirst(g, r) /\ Unmarked(g, r) /\ failures \in 0..MaxFailures /\ sent \subseteq Sent
      /\ Now \in Nat
  BY RunFound DEF Sound
<1>3. /\ Working(r) /\ r.head \in Heads /\ r.began \in 1..Now /\ r.about \in Nat
      /\ \/ r.job = "route" /\ r.task = "retro" /\ g = "verdict"
         \/ r.job = "scan" /\ r.task \in {"redeliver", "summon", "chase"}
  BY <1>1, <1>2 DEF Staged, Working, Run
<1>4. /\ r.task = "retro" <=> kind = "receipt"
      /\ r.task = "redeliver" <=> kind = "redelivered"
      /\ r.task = "summon" <=> kind = "assigned"
      /\ r.task = "chase" <=> kind = "chased"
      /\ kind \in {"receipt", "redelivered", "assigned", "chased"}
  BY <1>3 DEF MarkerOf
<1>5. /\ e \in Entries /\ e.kind = kind /\ e.head = r.head
      /\ e.about = r.about /\ e.by = g /\ e.kind \in Markers
  <2>1. kind \in Markers /\ 0 \in Nat
    BY <1>4 DEF Markers
  <2> QED BY <2>1, ByTyped
<1> HIDE DEF e, kind, r
<1>6. ASSUME ~kept PROVE Founded(e)
  <2>1. e.kind = "receipt" => Has("gate", e.head, Now)
    BY <1>1, <1>2, <1>3, <1>4, <1>5 DEF RouteIsCalledFor
  <2>2. ASSUME e.kind = "chased"
        PROVE  /\ e.about \in 1..MaxChases
               /\ \A k \in 1..e.about : k < MaxChases =>
                     \E m \in sent : m.kind = "chase" /\ m.head = e.head /\ m.about = k
    <3>1. r.job = "scan" /\ r.task = "chase"
      BY <1>3, <1>4, <1>5, <2>2
    <3>2. /\ r.about \in 1..MaxChases
          /\ \A k \in 1..(r.about - 1) :
                \E m \in sent : m.kind = "chase" /\ m.head = r.head /\ m.about = k
      BY <1>2, <1>3, <3>1 DEF ScanIsCalledFor
    <3>3. ASSUME r.about < MaxChases
          PROVE  \E m \in sent : m.kind = "chase" /\ m.head = r.head /\ m.about = r.about
      BY <1>1, <1>2, <3>1, <3>3 DEF SentFirst
    <3>4. \A k \in 1..r.about : k = r.about \/ k \in 1..(r.about - 1)
      BY <1>3
    <3> QED BY <1>5, <3>2, <3>3, <3>4
  <2>3. ASSUME NEW task \in {"redeliver", "summon", "retro"}, e.kind = MarkerOf(task)
        PROVE  [kind |-> task, head |-> e.head, about |-> e.about, by |-> e.by] \in sent
    <3>1. task = r.task
      BY <1>3, <1>4, <1>5, <2>3 DEF MarkerOf
    <3>2. [kind |-> r.task, head |-> r.head, about |-> r.about, by |-> g] \in sent
      BY <1>1, <1>2, <2>3, <3>1 DEF SentFirst
    <3> QED BY <1>5, <3>1, <3>2
  <2>4. ASSUME NEW i \in 1..Now, log[i].kind = e.kind, log[i].by = e.by,
               log[i].head = e.head, log[i].about = e.about
        PROVE  FALSE
    <3>1. CASE r.job = "route"
      BY <1>3, <1>4, <1>5, <1>6, <2>4, <3>1 DEF Has, At
    <3>2. CASE r.job = "scan"
      <4>1. Upcoming(r, log[i].kind)
        BY <1>3, <1>5, <2>4, <3>2 DEF Upcoming, kind
      <4> QED BY <1>2, <1>5, <2>4, <4>1 DEF Unmarked
    <3> QED BY <1>3, <3>1, <3>2
  <2>5. e.kind # "gate" /\ e.kind # "verdict"
    BY <1>4, <1>5
  <2> QED BY <1>3, <1>5, <2>1, <2>2, <2>3, <2>4, <2>5 DEF Founded
<1>7. CASE kept
  BY <1>1, <1>2, <1>7, QuietStepKeeps
<1>8. CASE ~kept
  BY <1>1, <1>2, <1>5, <1>6, <1>8, RunStepKeeps DEF Grows
<1> QED BY <1>7, <1>8

LEMMA RunStepsKeep == ASSUME LoopInv, NEW g \in Groups, RunSteps(g) \/ Crash(g) PROVE LoopInv'
  BY StartScanKeeps, RecordSkipKeeps, StartRouteKeeps, RefreshKeeps, EnsurePinKeeps, PostPinKeeps,
     CheckClosureKeeps, EnsureGateKeeps, CheckHeldKeeps, CheckOwedKeeps, CheckLiveKeeps,
     CheckAgainKeeps, PostKeeps, SendKeeps, MarkKeeps, CrashKeeps DEF RunSteps

-----------------------------------------------------------------------------
(* What reaches the PR from outside, and time.                             *)

\* An event of the outside world is an entry that presupposes nothing.
LEMMA OutsideIsFounded ==
    ASSUME NEW e, e.kind \in Events, e.kind = "verdict" => e.head \in Heads, e.by \in Voices
    PROVE  Founded(e) /\ e.by \notin Groups
<1>1. e.kind \notin Markers /\ \A task \in {"redeliver", "summon", "retro"} : MarkerOf(task) \in Markers
  BY DEF Events, Markers, MarkerOf
<1>2. e.by \notin Groups
  BY DEF Groups, Voices
<1>3. {"gate", "receipt", "chased"} \subseteq Markers
  BY DEF Markers
<1> QED BY <1>1, <1>2, <1>3 DEF Founded

LEMMA EntryTyped ==
    ASSUME NEW kind \in Events, NEW h, h \in Heads \/ h = NoHead
    PROVE  /\ Entry(kind, h) \in Entries /\ Entry(kind, h).kind = kind
           /\ Entry(kind, h).head = h /\ Entry(kind, h).by \in Voices
  BY DEF Entry, Entries, Voices

LEMMA VerdictTyped ==
    ASSUME NEW h \in Heads, NEW result \in Results, Review(h, result) \/ Substitute(h, result)
    PROVE  \E e : /\ e \in Entries /\ e.kind = "verdict" /\ e.head = h /\ e.result = result
                  /\ e.by \in Voices /\ log' = Append(log, e)
<1> DEFINE b  == Entry("verdict", h)
           e1 == [b EXCEPT !.result = result]
           e2 == [b EXCEPT !.result = result, !.by = "substitute"]
<1>1. log' = Append(log, e1) \/ log' = Append(log, e2)
  BY DEF Review, Substitute
<1>2. b \in Entries /\ b.kind = "verdict" /\ b.head = h /\ b.by \in Voices
  BY EntryTyped DEF Events
<1> HIDE DEF b
<1>3. e1 \in Entries /\ e1.kind = "verdict" /\ e1.head = h /\ e1.result = result /\ e1.by \in Voices
  BY <1>2 DEF Entries
<1>4. e2 \in Entries /\ e2.kind = "verdict" /\ e2.head = h /\ e2.result = result /\ e2.by \in Voices
  BY <1>2 DEF Entries, Voices
<1> HIDE DEF e1, e2
<1> QED BY <1>1, <1>3, <1>4

\* A step of nobody's run: what it writes presupposes nothing, and it starts
\* or queues at most one run.
LEMMA WorldStepKeeps ==
    ASSUME LoopInv, NEW e, Grows(e), log' = log \/ (Founded(e) /\ e.by \notin Groups),
           sent' = sent, failures' = failures, happened' \in 0..MaxOutside, BranchIsLogged',
           head' \in Heads, open' \in BOOLEAN, base' \in {0, 1}, stalled' \in BOOLEAN, old' \in 0..Now,
           NEW g \in Groups, NEW r, Fresh(g, r)',
           run' = run \/ run' = [run EXCEPT ![g] = r],
           pending' = pending \/ pending' = [pending EXCEPT ![g] = r]
    PROVE  LoopInv'
<1>1. /\ TypeOK /\ BranchIsLogged /\ log \in Seq(Entries) /\ Now \in Nat
      /\ run \in [Groups -> Run] /\ pending \in [Groups -> Run]
      /\ \A q \in Groups : Sound(q, run[q]) /\ Fresh(q, pending[q])
  BY DEF LoopInv, TypeOK, Now
<1>2. log' \in Seq(Entries) /\ Now' \in Nat /\ Now' >= Now
  BY <1>1, EntriesOfLog DEF Now
<1>3. EntriesAreFounded' /\ MarkersDiffer' /\ MarkersTellTheTruth'
  BY LogStaysFounded
<1>4. r \in Run /\ Sound(g, r)'
  <2>1. r \in {Idle, Scan} \/ \E v \in Nat : r = Route(v)
    BY <1>2 DEF Fresh
  <2>2. r \in Run /\ r.pc \in {"idle", "start"} /\ r.task = "none"
    BY <2>1, FreshIsTyped
  <2>3. Staged(g, r)'
    BY <2>2 DEF Staged, Working
  <2>4. (ScanIsCalledFor(r) /\ RouteIsCalledFor(r) /\ Looked(r) /\ SentFirst(g, r)
         /\ Unmarked(g, r))'
    BY <2>2 DEF ScanIsCalledFor, RouteIsCalledFor, Looked, SentFirst, Unmarked, Upcoming, Working
  <2> QED BY <2>2, <2>3, <2>4 DEF Sound
<1>5. TypeOK'
  <2>1. run' \in [Groups -> Run] /\ pending' \in [Groups -> Run]
    BY <1>1, <1>4
  <2>2. old' \in 0..Now'
    BY <1>1, <1>2
  <2> QED BY <1>1, <1>2, <2>1, <2>2 DEF TypeOK, Now
<1>6. ASSUME NEW q \in Groups PROVE Sound(q, run[q])'
  <2>1. \A p : p = run'[q] => Sound(q, p)'
    <3>1. CASE run'[q] = run[q]
      <4>1. SUFFICES ASSUME NEW p, p = run[q] PROVE Sound(q, p)'
        BY <3>1
      <4>2. p \in Run /\ Sound(q, p)
        BY <1>1, <4>1
      <4> QED BY <1>1, <4>2, SoundStays
    <3>2. CASE q = g /\ run'[q] = r
      BY <1>4, <3>2
    <3> QED BY <1>1, <3>1, <3>2
  <2> QED BY <2>1
<1>7. ASSUME NEW q \in Groups PROVE Fresh(q, pending[q])'
  <2>1. \A p : p = pending'[q] => Fresh(q, p)'
    <3>1. CASE pending'[q] = pending[q]
      BY <1>1, <3>1, FreshStays
    <3>2. CASE q = g /\ pending'[q] = r
      BY <3>2
    <3> QED BY <1>1, <3>1, <3>2
  <2> QED BY <2>1
<1> QED BY <1>3, <1>5, <1>6, <1>7 DEF LoopInv

LEMMA ArriveMeans ==
    ASSUME NEW g \in Groups, NEW r, Arrive(g, r)
    PROVE  /\ run' = run \/ run' = [run EXCEPT ![g] = r]
           /\ pending' = pending \/ pending' = [pending EXCEPT ![g] = r]
  BY DEF Arrive

\* What all events from outside have in common.
LEMMA OutsideFound ==
    ASSUME LoopInv, NEW kind, FromOutside(kind)
    PROVE  /\ sent' = sent /\ failures' = failures /\ happened' \in 0..MaxOutside
           /\ head \in Heads /\ open \in BOOLEAN /\ base \in {0, 1} /\ stalled \in BOOLEAN
           /\ old \in 0..Now /\ Now \in Nat /\ log \in Seq(Entries)
           /\ \A g \in Groups : Fresh(g, Idle)'
<1>1. /\ happened \in 0..MaxOutside /\ happened < MaxOutside /\ happened' = happened + 1
      /\ MaxOutside \in Nat
  BY LoopAssumption DEF LoopInv, TypeOK, FromOutside
<1>2. happened' \in 0..MaxOutside
  BY <1>1
<1> QED BY <1>2 DEF LoopInv, TypeOK, FromOutside, Now, Fresh

LEMMA PushKeeps == ASSUME LoopInv, NEW h \in Heads, Push(h) PROVE LoopInv'
<1> DEFINE e == Entry("push", h)
<1>1. /\ head' = h /\ stalled' = FALSE /\ log' = Append(log, e) /\ Arrive("push", Scan)
      /\ UNCHANGED <<open, base, old>> /\ FromOutside("push")
  BY DEF Push
<1>2. /\ sent' = sent /\ failures' = failures /\ happened' \in 0..MaxOutside
      /\ open \in BOOLEAN /\ base \in {0, 1} /\ old \in 0..Now /\ Now \in Nat
      /\ log \in Seq(Entries)
  BY <1>1, OutsideFound
<1>3. e \in Entries /\ Founded(e) /\ e.kind = "push" /\ e.head = h /\ e.by \notin Groups
  <2>1. "push" \in Events /\ "push" # "verdict"
    BY DEF Events
  <2>2. e \in Entries /\ e.kind = "push" /\ e.head = h /\ e.by \in Voices
    BY <1>2, <2>1, EntryTyped
  <2> HIDE DEF e
  <2> QED BY <2>1, <2>2, OutsideIsFounded
<1> HIDE DEF e
<1>4. Grows(e)
  BY <1>1, <1>3 DEF Grows
<1>5. "push" \in Groups /\ Fresh("push", Scan)'
  BY DEF Fresh, Groups
<1>6. BranchIsLogged'
  <2>1. BranchIsLogged /\ Now' = Now + 1 /\ log'[Now + 1] = e /\ \A i \in 1..Now : log'[i] = log[i]
    BY <1>1, <1>2 DEF LoopInv, Now
  <2>2. OpenAt(Now)' <=> open
    BY <1>1, <1>3, <1>4, OpenStaysLogged
  <2> DEFINE P == {i \in 1..Now' : log'[i].kind = "push"}
  <2>3. Now' \in P /\ P \in SUBSET (0..Now') /\ Now' \in Nat
    BY <1>2, <1>3, <2>1
  <2>4. Latest(P) = Now'
    <3>1. Latest(P) \in 0..Now' /\ Now' <= Latest(P)
      BY <2>3, LatestIsGreatest
    <3> QED BY <2>3, <3>1
  <2>5. HeadAt(Now)' = h
    BY <1>3, <2>1, <2>4 DEF HeadAt
  <2>6. Now' >= 1 /\ log'[1].kind = "push"
    BY <1>2, <2>1 DEF BranchIsLogged
  <2> QED BY <1>1, <2>2, <2>5, <2>6 DEF BranchIsLogged
<1> QED BY <1>1, <1>2, <1>3, <1>4, <1>5, <1>6, ArriveMeans, WorldStepKeeps

LEMMA CloseKeeps == ASSUME LoopInv, Close PROVE LoopInv'
<1> DEFINE e == Entry("close", NoHead)
<1>1. /\ open' = FALSE /\ log' = Append(log, e) /\ FromOutside("close")
      /\ UNCHANGED <<head, base, timeVars, groupVars>>
  BY DEF Close
<1>2. /\ sent' = sent /\ failures' = failures /\ happened' \in 0..MaxOutside
      /\ head \in Heads /\ base \in {0, 1} /\ stalled \in BOOLEAN /\ old \in 0..Now
      /\ Now \in Nat /\ log \in Seq(Entries)
      /\ \A g \in Groups : Fresh(g, Idle)'
  BY <1>1, OutsideFound
<1>3. e \in Entries /\ Founded(e) /\ e.kind = "close" /\ e.by \notin Groups
  <2>1. "close" \in Events /\ "close" # "verdict"
    BY DEF Events
  <2>2. e \in Entries /\ e.kind = "close" /\ e.head = NoHead /\ e.by \in Voices
    BY <1>2, <2>1, EntryTyped
  <2> HIDE DEF e
  <2> QED BY <2>1, <2>2, OutsideIsFounded
<1> HIDE DEF e
<1>4. Grows(e) /\ "push" \in Groups
  BY <1>1, <1>3 DEF Grows, Groups
<1>5. BranchIsLogged'
  <2>1. Now' >= 1 /\ log'[1].kind = "push" /\ HeadAt(Now)' = head
    BY <1>3, <1>4, HeadStaysLogged
  <2>2. Now + 1 \in 1..Now' /\ log'[Now + 1] = e
    BY <1>1, <1>2 DEF Now
  <2>3. ~OpenAt(Now)'
    BY <1>3, <2>2 DEF OpenAt
  <2> QED BY <1>1, <2>1, <2>3 DEF BranchIsLogged
<1> QED BY <1>1, <1>2, <1>3, <1>4, <1>5, WorldStepKeeps DEF groupVars, timeVars

LEMMA RetargetKeeps == ASSUME LoopInv, Retarget PROVE LoopInv'
<1> DEFINE e == Entry("retarget", NoHead)
<1>1. /\ base' = 1 - base /\ log' = Append(log, e) /\ FromOutside("retarget")
      /\ UNCHANGED <<head, open, timeVars, groupVars>>
  BY DEF Retarget
<1>2. /\ sent' = sent /\ failures' = failures /\ happened' \in 0..MaxOutside
      /\ head \in Heads /\ open \in BOOLEAN /\ base \in {0, 1} /\ stalled \in BOOLEAN
      /\ old \in 0..Now
      /\ \A g \in Groups : Fresh(g, Idle)'
  BY <1>1, OutsideFound
<1>3. e \in Entries /\ Founded(e) /\ e.kind = "retarget" /\ e.by \notin Groups
  <2>1. "retarget" \in Events /\ "retarget" # "verdict"
    BY DEF Events
  <2>2. e \in Entries /\ e.kind = "retarget" /\ e.head = NoHead /\ e.by \in Voices
    BY <1>2, <2>1, EntryTyped
  <2> HIDE DEF e
  <2> QED BY <2>1, <2>2, OutsideIsFounded
<1> HIDE DEF e
<1>4. Grows(e) /\ "push" \in Groups
  BY <1>1, <1>3 DEF Grows, Groups
<1>5. BranchIsLogged'
  BY <1>1, <1>3, <1>4, BranchStaysLogged
<1>6. base' \in {0, 1}
  BY <1>1, <1>2
<1> QED BY <1>1, <1>2, <1>3, <1>4, <1>5, <1>6, WorldStepKeeps DEF groupVars, timeVars

LEMMA HoldKeeps == ASSUME LoopInv, Hold PROVE LoopInv'
<1> DEFINE e == Entry("hold", head)
<1>1. /\ log' = Append(log, e) /\ FromOutside("hold") /\ UNCHANGED <<prVars, timeVars, groupVars>>
  BY DEF Hold
<1>2. /\ sent' = sent /\ failures' = failures /\ happened' \in 0..MaxOutside
      /\ head \in Heads /\ open \in BOOLEAN /\ base \in {0, 1} /\ stalled \in BOOLEAN
      /\ old \in 0..Now
      /\ \A g \in Groups : Fresh(g, Idle)'
  BY <1>1, OutsideFound
<1>3. e \in Entries /\ Founded(e) /\ e.kind = "hold" /\ e.by \notin Groups
  <2>1. "hold" \in Events /\ "hold" # "verdict"
    BY DEF Events
  <2>2. e \in Entries /\ e.kind = "hold" /\ e.head = head /\ e.by \in Voices
    BY <1>2, <2>1, EntryTyped
  <2> HIDE DEF e
  <2> QED BY <2>1, <2>2, OutsideIsFounded
<1> HIDE DEF e
<1>4. Grows(e) /\ "push" \in Groups
  BY <1>1, <1>3 DEF Grows, Groups
<1>5. BranchIsLogged'
  BY <1>1, <1>3, <1>4, BranchStaysLogged DEF prVars
<1> QED BY <1>1, <1>2, <1>3, <1>4, <1>5, WorldStepKeeps DEF prVars, groupVars, timeVars

LEMMA TestimonyKeeps == ASSUME LoopInv, NEW h \in Heads, Testimony(h) PROVE LoopInv'
<1> DEFINE e == Entry("testimony", h)
<1>1. /\ log' = Append(log, e) /\ FromOutside("testimony")
      /\ UNCHANGED <<prVars, timeVars, groupVars>>
  BY DEF Testimony
<1>2. /\ sent' = sent /\ failures' = failures /\ happened' \in 0..MaxOutside
      /\ head \in Heads /\ open \in BOOLEAN /\ base \in {0, 1} /\ stalled \in BOOLEAN
      /\ old \in 0..Now
      /\ \A g \in Groups : Fresh(g, Idle)'
  BY <1>1, OutsideFound
<1>3. e \in Entries /\ Founded(e) /\ e.kind = "testimony" /\ e.by \notin Groups
  <2>1. "testimony" \in Events /\ "testimony" # "verdict"
    BY DEF Events
  <2>2. e \in Entries /\ e.kind = "testimony" /\ e.head = h /\ e.by \in Voices
    BY <1>2, <2>1, EntryTyped
  <2> HIDE DEF e
  <2> QED BY <2>1, <2>2, OutsideIsFounded
<1> HIDE DEF e
<1>4. Grows(e) /\ "push" \in Groups
  BY <1>1, <1>3 DEF Grows, Groups
<1>5. BranchIsLogged'
  BY <1>1, <1>3, <1>4, BranchStaysLogged DEF prVars
<1> QED BY <1>1, <1>2, <1>3, <1>4, <1>5, WorldStepKeeps DEF prVars, groupVars, timeVars

\* A verdict and the run that is to route it.
LEMMA VerdictKeeps ==
    ASSUME LoopInv, NEW h \in Heads, NEW result \in Results, Review(h, result) \/ Substitute(h, result)
    PROVE  LoopInv'
<1>1. PICK e : /\ e \in Entries /\ e.kind = "verdict" /\ e.head = h /\ e.by \in Voices
               /\ log' = Append(log, e)
  BY VerdictTyped
<1>2. /\ Arrive("verdict", Route(Now + 1)) /\ UNCHANGED <<prVars, timeVars>>
      /\ FromOutside("verdict") \/ FromOutside("substitute")
  BY DEF Review, Substitute
<1>3. /\ sent' = sent /\ failures' = failures /\ happened' \in 0..MaxOutside
      /\ head \in Heads /\ open \in BOOLEAN /\ base \in {0, 1} /\ stalled \in BOOLEAN
      /\ old \in 0..Now /\ Now \in Nat /\ log \in Seq(Entries)
  BY <1>2, OutsideFound
<1>4. Founded(e) /\ e.by \notin Groups
  BY <1>1, OutsideIsFounded DEF Events
<1>5. Grows(e) /\ "verdict" \in Groups
  BY <1>1 DEF Grows, Groups
<1>6. BranchIsLogged'
  BY <1>1, <1>2, <1>5, BranchStaysLogged DEF prVars
<1>7. \A r : r = Route(Now + 1) => Fresh("verdict", r)'
  <2>1. Now' = Now + 1 /\ log'[Now + 1] = e
    BY <1>1, <1>3 DEF Now
  <2>2. Route(Now + 1).about = Now + 1
    BY DEF Route, Idle
  <2> SUFFICES ASSUME NEW r, r = Route(Now + 1) PROVE Fresh("verdict", r)'
    OBVIOUS
  <2>3. r.about = Now + 1 /\ r = Route(r.about)
    BY <2>2
  <2>4. r.about \in 1..Now'
    <3>1. \A n \in Nat : n + 1 \in 1..(n + 1)
      OBVIOUS
    <3> QED BY <1>3, <2>1, <2>3, <3>1, Zenon
  <2>5. log'[r.about].kind = "verdict"
    BY <1>1, <2>1, <2>3, Zenon
  <2> QED BY <2>3, <2>4, <2>5 DEF Fresh
<1>8. PICK r : r = Route(Now + 1)
  OBVIOUS
<1> QED BY <1>1, <1>2, <1>3, <1>4, <1>5, <1>6, <1>7, <1>8, ArriveMeans, WorldStepKeeps
    DEF prVars, timeVars

LEMMA RefuseKeeps == ASSUME LoopInv, Refuse PROVE LoopInv'
<1> DEFINE e == Entry("refusal", NoHead)
<1>1. /\ log' = Append(log, e) /\ FromOutside("refusal") /\ Arrive("verdict", Scan)
      /\ UNCHANGED <<prVars, timeVars>>
  BY DEF Refuse
<1>2. /\ sent' = sent /\ failures' = failures /\ happened' \in 0..MaxOutside
      /\ head \in Heads /\ open \in BOOLEAN /\ base \in {0, 1} /\ stalled \in BOOLEAN
      /\ old \in 0..Now
  BY <1>1, OutsideFound
<1>3. e \in Entries /\ Founded(e) /\ e.kind = "refusal" /\ e.by \notin Groups
  <2>1. "refusal" \in Events /\ "refusal" # "verdict"
    BY DEF Events
  <2>2. e \in Entries /\ e.kind = "refusal" /\ e.by \in Voices
    BY <2>1, EntryTyped
  <2> HIDE DEF e
  <2> QED BY <2>1, <2>2, OutsideIsFounded
<1> HIDE DEF e
<1>4. Grows(e) /\ "verdict" \in Groups /\ Fresh("verdict", Scan)'
  BY <1>1, <1>3 DEF Grows, Groups, Fresh
<1>5. BranchIsLogged'
  BY <1>1, <1>3, <1>4, BranchStaysLogged DEF prVars
<1> QED BY <1>1, <1>2, <1>3, <1>4, <1>5, ArriveMeans, WorldStepKeeps DEF prVars, timeVars

LEMMA CommentKeeps == ASSUME LoopInv, Comment PROVE LoopInv'
<1>1. /\ log' = log /\ FromOutside("comment") /\ UNCHANGED <<prVars, timeVars, run>>
      /\ pending' = [pending EXCEPT !["verdict"] = Idle]
  BY DEF Comment, NoRun
<1>2. /\ sent' = sent /\ failures' = failures /\ happened' \in 0..MaxOutside
      /\ head \in Heads /\ open \in BOOLEAN /\ base \in {0, 1} /\ stalled \in BOOLEAN
      /\ old \in 0..Now /\ \A g \in Groups : Fresh(g, Idle)'
  BY <1>1, OutsideFound
<1>3. Grows(0) /\ "verdict" \in Groups
  BY <1>1 DEF Grows, Groups
<1>4. BranchIsLogged'
  BY <1>1, <1>3, BranchStaysLogged DEF prVars
<1> QED BY <1>1, <1>2, <1>3, <1>4, WorldStepKeeps DEF prVars, timeVars

LEMMA TimePasses == ASSUME LoopInv, Minutes \/ Hours PROVE LoopInv'
<1>1. /\ log' = log /\ stalled' = TRUE /\ old' \in {old, LastDated}
      /\ UNCHANGED <<prVars, sent, groupVars, happened, failures>>
  BY DEF Minutes, Hours
<1>2. /\ head \in Heads /\ open \in BOOLEAN /\ base \in {0, 1} /\ happened \in 0..MaxOutside
      /\ old \in 0..Now /\ Now \in Nat
  BY DEF LoopInv, TypeOK, Now
<1>3. LastDated \in 0..Now
  <2> DEFINE D == {i \in 1..Now : log[i].kind \in {"verdict", "receipt", "chased"}}
  <2>1. D \in SUBSET (0..Now)
    BY <1>2
  <2> QED BY <1>2, <2>1, LatestIsGreatest DEF LastDated
<1>4. Grows(0) /\ "verdict" \in Groups /\ Fresh("verdict", Idle)'
  BY <1>1 DEF Grows, Groups, Fresh
<1>5. BranchIsLogged'
  BY <1>1, <1>4, BranchStaysLogged DEF prVars
<1> QED BY <1>1, <1>2, <1>3, <1>4, <1>5, WorldStepKeeps DEF prVars, groupVars

LEMMA SweepKeeps == ASSUME LoopInv, Sweep PROVE LoopInv'
<1>1. PICK r \in Scanning : run' = [run EXCEPT !["sweep"] = r]
  BY DEF Sweep, Chasing
<1>2. /\ UNCHANGED <<log, sent>> /\ UNCHANGED <<prVars, timeVars, happened>>
      /\ pending' = pending /\ failures' = failures
  BY DEF Sweep
<1>3. "sweep" \in Groups
  BY DEF Groups
<1>4. r \in Run /\ Sound("sweep", r)
  BY <1>3, ScanningIsSound
<1>5. GoOn("sweep", {r})
  BY <1>1, <1>2 DEF GoOn, Continue
<1>6. failures' \in 0..MaxFailures
  BY <1>2 DEF LoopInv, TypeOK
<1> QED BY <1>2, <1>3, <1>4, <1>5, <1>6, QuietStepKeeps

LEMMA StandStillKeeps == ASSUME LoopInv, UNCHANGED vars PROVE LoopInv'
<1>1. /\ log' = log /\ UNCHANGED <<head, open, base, sent, stalled, old>>
      /\ UNCHANGED <<run, pending, happened, failures>>
  BY DEF vars, prVars, timeVars, groupVars
<1>2. /\ head \in Heads /\ open \in BOOLEAN /\ base \in {0, 1} /\ happened \in 0..MaxOutside
      /\ old \in 0..Now /\ stalled \in BOOLEAN
  BY DEF LoopInv, TypeOK, Now
<1>3. Grows(0) /\ "verdict" \in Groups /\ Fresh("verdict", Idle)'
  BY <1>1 DEF Grows, Groups, Fresh
<1>4. BranchIsLogged'
  BY <1>1, <1>3, BranchStaysLogged
<1> QED BY <1>1, <1>2, <1>3, <1>4, WorldStepKeeps

-----------------------------------------------------------------------------
(* The theorems.                                                           *)

LEMMA InitIsSound == Init => LoopInv
<1> SUFFICES ASSUME Init PROVE LoopInv
  OBVIOUS
<1> DEFINE e == Entry("push", FirstHead)
<1>1. /\ head = FirstHead /\ open = TRUE /\ base = 0 /\ log = <<e>> /\ sent = {}
      /\ stalled = FALSE /\ old = 0 /\ run = [g \in Groups |-> Idle]
      /\ pending = [g \in Groups |-> Idle] /\ happened = 0 /\ failures = 0
  BY DEF Init, NoRun
<1>2. "push" \in Events /\ FirstHead \in Heads /\ MaxOutside \in Nat /\ MaxFailures \in Nat
  BY LoopAssumption DEF Events
<1>3. e \in Entries /\ e.kind = "push" /\ e.head = FirstHead
  BY <1>2, EntryTyped
<1> HIDE DEF e
<1>4. log \in Seq(Entries) /\ Now = 1 /\ log[1] = e /\ Len(log) = 1
  BY <1>1, <1>3 DEF Now
<1>5. Idle \in Run
  BY FreshIsTyped
<1>6. TypeOK
  <2>1. run \in [Groups -> Run] /\ pending \in [Groups -> Run]
    BY <1>1, <1>5
  <2>2. happened \in 0..MaxOutside /\ failures \in 0..MaxFailures /\ old \in 0..Len(log)
    BY <1>1, <1>2, <1>4
  <2> QED BY <1>1, <1>2, <1>4, <2>1, <2>2 DEF TypeOK
<1>7. BranchIsLogged
  <2> DEFINE P == {i \in 1..1 : log[i].kind = "push"}
  <2>1. 1 \in P /\ P \in SUBSET (0..1) /\ 1 \in Nat
    BY <1>3, <1>4
  <2>2. Latest(P) \in P
    BY <2>1, LatestIsGreatest
  <2>3. HeadAt(Now) = FirstHead
    BY <1>3, <1>4, <2>2 DEF HeadAt
  <2>4. OpenAt(Now)
    BY <1>3, <1>4 DEF OpenAt
  <2> QED BY <1>1, <1>3, <1>4, <2>3, <2>4 DEF BranchIsLogged
<1>8. \A i \in 1..Now : log[i].kind = "push"
  BY <1>3, <1>4
<1>9. EntriesAreFounded /\ MarkersDiffer
  BY <1>8 DEF EntriesAreFounded, MarkersDiffer, Markers
<1>10. MarkersTellTheTruth
  BY <1>8 DEF MarkersTellTheTruth, Posted, MarkerOf
<1>11. ASSUME NEW g \in Groups PROVE Sound(g, run[g]) /\ Fresh(g, pending[g])
  <2>1. run[g] = Idle /\ pending[g] = Idle
    BY <1>1
  <2>2. Fresh(g, Idle)
    BY DEF Fresh
  <2> QED BY <1>4, <2>1, <2>2, FreshIsSound
<1> QED BY <1>6, <1>7, <1>9, <1>10, <1>11 DEF LoopInv

LEMMA NextIsSound == LoopInv /\ [Next]_vars => LoopInv'
  BY VerdictKeeps, PushKeeps, TestimonyKeeps, CloseKeeps, RetargetKeeps, HoldKeeps, RefuseKeeps,
     CommentKeeps, SweepKeeps, TimePasses, RunStepsKeep, StandStillKeeps DEF Next, World

\* Every reachable state of the loop satisfies the inductive invariant.
THEOREM LoopInvHolds == Spec => []LoopInv
  BY InitIsSound, NextIsSound, PTL DEF Spec

\* The variables keep their types: TypeOK.
THEOREM TypeCorrect == Spec => []TypeOK
<1>1. LoopInv => TypeOK
  BY DEF LoopInv
<1> QED BY <1>1, LoopInvHolds, PTL

\* A group never posts a marker of a head (or of a verdict) twice, whatever the
\* other groups, the schedule and dying runs do in between.
THEOREM MarkedOnceHolds == Spec => []MarkedOnce
<1>1. ASSUME LoopInv, NEW i \in Posted(Markers) PROVE Cardinality(Same(i)) = 1
  <2>1. i \in 1..Now /\ log[i].kind \in Markers /\ MarkersDiffer
    BY <1>1 DEF Posted, LoopInv
  <2>2. Same(i) = {i}
    BY <2>1 DEF Same, MarkersDiffer
  <2> QED BY <2>2, FS_Singleton
<1>2. LoopInv => MarkedOnce
  BY <1>1 DEF MarkedOnce
<1> QED BY <1>2, LoopInvHolds, PTL

\* A marker that says somebody was told is preceded by the message that told.
THEOREM MarkersTellTheTruthHolds == Spec => []MarkersTellTheTruth
<1>1. LoopInv => MarkersTellTheTruth
  BY DEF LoopInv
<1> QED BY <1>1, LoopInvHolds, PTL

\* What publishes is a run whose last looks are those of the invariant.
LEMMA PublisherFound ==
    ASSUME LoopInv, NEW g \in Groups, Publishes(g)
    PROVE  /\ run[g] \in Run /\ Staged(g, run[g]) /\ Working(run[g]) /\ Looked(run[g])
           /\ ScanIsCalledFor(run[g])
           /\ run[g].pc \in {"post", "send"} \/ (run[g].pc = "mark" /\ run[g].task = "chase")
  BY RunFound DEF Publishes, Working

\* A seat is woken, a reviewer asked and a gate raised only for a head that was
\* the open PR's when the run last looked (publishable_at_head).
THEOREM DeadHeadsAreQuietHolds == Spec => DeadHeadsAreQuiet
<1>1. ASSUME LoopInv, NEW g \in Groups, Publishes(g)
      PROVE  /\ run[g].head = HeadAt(run[g].lived)
             /\ OpenAt(run[g].lived) \/ run[g].task = "chase"
  BY <1>1, PublisherFound DEF Looked
<1>2. LoopInv =>
        [\A g \in Groups :
            Publishes(g) => /\ run[g].head = HeadAt(run[g].lived)
                            /\ OpenAt(run[g].lived) \/ run[g].task = "chase"]_vars
  BY <1>1
<1> QED BY <1>2, LoopInvHolds, PTL DEF DeadHeadsAreQuiet

\* What a scan publishes restates or presumes the verdict that was the head's
\* latest when the scan looked again (verdict_state_held).
THEOREM ScansAreCurrentHolds == Spec => ScansAreCurrent
<1>1. ASSUME LoopInv, NEW g \in Groups, Publishes(g), run[g].job = "scan", run[g].task # "chase"
      PROVE  /\ run[g].seen >= run[g].began
             /\ Verdict(run[g].head, run[g].seen) = run[g].about
  <2>1. run[g].seen \in run[g].began..Now /\ Verdict(run[g].head, run[g].seen) = run[g].about
    BY <1>1, PublisherFound DEF Looked
  <2>2. run[g].began \in Nat /\ Now \in Nat
    BY <1>1, PublisherFound, RunFound DEF Run
  <2> QED BY <2>1, <2>2
<1>2. LoopInv =>
        [\A g \in Groups :
            Publishes(g) /\ run[g].job = "scan" /\ run[g].task # "chase" =>
                /\ run[g].seen >= run[g].began
                /\ Verdict(run[g].head, run[g].seen) = run[g].about]_vars
  BY <1>1
<1> QED BY <1>2, LoopInvHolds, PTL DEF ScansAreCurrent

\* In so far as its snapshot could tell, a scan publishes nothing a stop forbids,
\* and chases testimony only where it was asked for and missing.
THEOREM StopsAreRespectedHolds == Spec => StopsAreRespected
<1>1. ASSUME LoopInv, NEW g \in Groups, Publishes(g), run[g].job = "scan" PROVE Respectful(run[g])
  <2> DEFINE r == run[g]
  <2>1. /\ r \in Run /\ Staged(g, r) /\ Working(r) /\ Looked(r) /\ ScanIsCalledFor(r)
        /\ r.pc \in {"post", "send"} \/ (r.pc = "mark" /\ r.task = "chase")
        /\ r.job = "scan"
        /\ Now \in Nat /\ MaxChases \in Nat
    BY <1>1, PublisherFound, RunFound, LoopAssumption
  <2>2. r.began \in Nat /\ r.seen \in Nat
    BY <2>1 DEF Run
  <2>3. Has("gate", r.head, r.began) <=> r.task = "chase"
    BY <1>1, <2>1 DEF ScanIsCalledFor
  <2>4. r.task = "chase" => /\ \E m \in sent : m.kind = "retro" /\ m.head = r.head
                            /\ r.about <= MaxChases
    BY <1>1, <2>1 DEF ScanIsCalledFor
  <2>5. r.task = "chase" => r.seen >= r.began /\ ~Has("testimony", r.head, r.seen)
    <3>1. r.task = "chase" => r.pc \in {"send", "mark"}
      BY <1>1, <2>1 DEF Staged
    <3>2. r.task = "chase" => r.seen \in r.began..Now /\ ~Has("testimony", r.head, r.seen)
      BY <2>1, <3>1 DEF Looked
    <3> QED BY <2>1, <2>2, <3>2
  <2>6. r.task = "redeliver" => \A d \in Disposed(r.head, r.began) : d < r.about
    BY <1>1, <2>1 DEF ScanIsCalledFor
  <2>7. r.task \in {"nudge", "summon"} =>
           Disposed(r.head, r.began) = {} /\ Cardinality(Reviewed(r.began)) < MaxRounds
    BY <1>1, <2>1 DEF ScanIsCalledFor
  <2> QED BY <2>3, <2>4, <2>5, <2>6, <2>7 DEF Respectful
<1>2. LoopInv =>
        [\A g \in Groups : Publishes(g) /\ run[g].job = "scan" => Respectful(run[g])]_vars
  BY <1>1
<1> QED BY <1>2, LoopInvHolds, PTL DEF StopsAreRespected

\* A seat is told CLEAN only of a PR that was not pointed at another base
\* between the verdict and the run's closure check (base_retarget_after).
THEOREM CleanNamesItsSubjectHolds == Spec => CleanNamesItsSubject
<1>1. ASSUME LoopInv, NEW g \in Groups, Publishes(g), SaysClean(run[g])
      PROVE  /\ run[g].closed > 0
             /\ \A j \in run[g].about..run[g].closed : log[j].kind # "retarget"
  <2>1. run[g].closed \in 1..Now /\ \A j \in run[g].about..run[g].closed : log[j].kind # "retarget"
    BY <1>1, PublisherFound DEF Looked, SaysClean
  <2>2. Now \in Nat
    BY <1>1, RunFound
  <2> QED BY <2>1, <2>2
<1>2. LoopInv =>
        [\A g \in Groups :
            Publishes(g) /\ SaysClean(run[g]) =>
                /\ run[g].closed > 0
                /\ \A j \in run[g].about..run[g].closed : log[j].kind # "retarget"]_vars
  BY <1>1
<1> QED BY <1>2, LoopInvHolds, PTL DEF CleanNamesItsSubject

=============================================================================
