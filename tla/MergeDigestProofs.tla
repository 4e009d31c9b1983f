------------------------- MODULE MergeDigestProofs -------------------------
(***************************************************************************)
(* What the scheduled digest promises, for any pulls and repositories, any *)
(* page size and any number of runs that overlap, die or are run again: no *)
(* merge before a watermark is left untold, and a successful report is     *)
(* exact, but for the pulls that moved past a reader between two pages.    *)
(*                                                                         *)
(* The promises rest on the windows: a run's window starts where every     *)
(* merge is accounted for already, or its report says where it starts.     *)
(* That a report is exact rests on the order of the listing: the pages a   *)
(* run turned hold what was updated last, and a merge is an update; what   *)
(* stands behind the reader was read there, or slipped, or is newer than   *)
(* the run.                                                                *)
(***************************************************************************)
EXTENDS MergeDigest, FiniteSetTheorems, WellFoundedInduction, TLAPS

-----------------------------------------------------------------------------
(* The inductive invariant.                                                *)

\* The closed pulls of a repository are its listing, the last updated first.
ListingIsOrdered ==
    /\ \A repo \in Repos : \A i, j \in 1..Len(listing[repo]) :
          i < j => /\ listing[repo][i] # listing[repo][j]
                   /\ touchedAt[listing[repo][i]] >= touchedAt[listing[repo][j]]
    /\ \A repo \in Repos : \A i \in 1..Len(listing[repo]) :
          RepoOf[listing[repo][i]] = repo
    /\ \A p \in Pulls : mergedAt[p] # 0 =>
          \E i \in 1..Len(listing[RepoOf[p]]) : listing[RepoOf[p]][i] = p
    /\ \A p \in Pulls : mergedAt[p] <= touchedAt[p] /\ touchedAt[p] <= now

RunsAreDated == \A r \in Runs : run[r].created <= now /\ run[r].since <= now

\* Whatever was merged before t was told, or a report said that it is not
\* covered, or it moved past some run.
Accounted(t) ==
    \A p \in Pulls : mergedAt[p] \in 1..(t - 1) =>
        p \in told \/ mergedAt[p] < disclosed \/ \E r \in Runs : p \in slipped[r]

WatermarksAreAnchored ==
    \A w \in Runs : run[w].state = "success" /\ ~run[w].dry => Accounted(run[w].created)

\* A window starts where everything is accounted for, but for a first one.
WindowsAreAnchored ==
    \A r \in Runs : run[r].state = "reading" /\ ~run[r].first => Accounted(run[r].since)

\* The run q has found p if it is to find it, or p is among the gone.
Due(q, p) == mergedAt[p] # 0 /\ q.since <= mergedAt[p] /\ mergedAt[p] < q.created
Met(q, gone, p) == Due(q, p) => p \in q.found \union gone

\* It has found what it was to find on the pages it has turned.
TurnedIsMet(q, gone) ==
    q.repo <= Len(RepoList) =>
       \A i \in 1..Len(listing[RepoList[q.repo]]) :
          i <= Turned(q) => Met(q, gone, listing[RepoList[q.repo]][i])

\* What the run has found so far: all of the repositories behind it that it
\* could read and of the pages it has turned, and nothing from before its window.
PagesAreWhole(q, gone) ==
    /\ \A p \in q.found : mergedAt[p] # 0 /\ q.since <= mergedAt[p]
    /\ \A k \in 1..(q.repo - 1) : RepoList[k] \notin q.unread =>
          \A p \in Pulls : RepoOf[p] = RepoList[k] => Met(q, gone, p)
    /\ TurnedIsMet(q, gone)
    /\ \A repo \in q.unread : \E k \in 1..(q.repo - 1) : RepoList[k] = repo
    /\ q.page > 0

ReadingsAreWhole == \A r \in Runs : run[r].state = "reading" => PagesAreWhole(run[r], slipped[r])

\* A run that waits to start has nothing from an earlier attempt.
QueuedAreNew ==
    \A r \in Runs : run[r].state = "queued" =>
        run[r].found = {} /\ run[r].unread = {} /\ run[r].repo = 1 /\ run[r].page = 1

DigestInv ==
    /\ TypeOK /\ ListingIsOrdered /\ RunsAreDated /\ QueuedAreNew
    /\ WindowsAreAnchored /\ ReadingsAreWhole /\ WatermarksAreAnchored

-----------------------------------------------------------------------------
(* Operators of the model.                                                 *)

\* A set of numbers that is not empty has a least one.
LEMMA LeastExists ==
    ASSUME NEW S \in SUBSET Nat, S # {}
    PROVE  \E x \in S : \A y \in S : x <= y
<1> DEFINE R == {ss \in Nat \X Nat : ss[1] < ss[2]}
<1>1. IsWellFoundedOn(R, Nat)
  BY NatLessThanWellFounded DEF OpToRel
<1> HIDE DEF R
<1>2. PICK x \in S : \A y \in S : <<y, x>> \notin R
  BY <1>1, WFMin
<1>3. ASSUME NEW y \in S PROVE x <= y
  <2>1. x \in Nat /\ y \in Nat
    OBVIOUS
  <2>2. <<y, x>> \notin R
    BY <1>2
  <2>3. ~(y < x)
    BY <2>1, <2>2, SMT DEF R
  <2> QED BY <2>1, <2>3
<1> QED BY <1>3

\* A finite set of numbers that is not empty has a greatest one: the least set
\* without one would have one more than its greatest.
LEMMA GreatestExists ==
    ASSUME NEW S \in SUBSET Nat, IsFiniteSet(S), S # {}
    PROVE  Max(S) \in S
<1> DEFINE Topped(T) == \E x \in T : \A y \in T : x >= y
           Bad == {T \in FiniteSubsetsOf(S) : T # {} /\ ~Topped(T)}
           R   == StrictSubsetOrdering(S)
<1>1. IsWellFoundedOn(R, FiniteSubsetsOf(S))
  BY FS_StrictSubsetOrderingWellFounded
<1>2. ASSUME Bad # {} PROVE FALSE
  <2>1. PICK T \in Bad : \A U \in Bad : <<U, T>> \notin R
    <3>1. Bad \in SUBSET FiniteSubsetsOf(S)
      OBVIOUS
    <3> HIDE DEF Bad, R
    <3> QED BY <1>1, <1>2, <3>1, WFMin
  <2>2. T \in SUBSET S /\ IsFiniteSet(T) /\ T # {} /\ ~Topped(T)
    BY <2>1 DEF FiniteSubsetsOf
  <2>3. PICK x \in T : TRUE
    BY <2>2
  <2> DEFINE U == T \ {x}
  <2>4. U \in FiniteSubsetsOf(S)
    BY <2>2, FS_RemoveElement DEF FiniteSubsetsOf
  <2>5. <<U, T>> \in R
    BY <2>2, <2>3, <2>4 DEF StrictSubsetOrdering, FiniteSubsetsOf
  <2>6. CASE U = {}
    BY <2>2, <2>3, <2>6
  <2>7. CASE U # {}
    <3>1. Topped(U)
      BY <2>1, <2>4, <2>5, <2>7
    <3>2. PICK m \in U : \A y \in U : m >= y
      BY <3>1
    <3>3. Topped(T)
      <4>1. CASE m >= x
        BY <3>2, <4>1
      <4>2. CASE x >= m
        <5>1. \A y \in T : x >= y
          BY <2>2, <3>2, <4>2
        <5> QED BY <5>1
      <4> QED BY <2>2, <4>1, <4>2
    <3> QED BY <2>2, <3>3
  <2> QED BY <2>6, <2>7
<1>3. Topped(S)
  BY <1>2 DEF FiniteSubsetsOf
<1> HIDE DEF Bad, R
<1> QED BY <1>3 DEF Max

\* u is s without p, which was at the place k or nowhere.
Removed(s, p, u, k) ==
    /\ u \in Seq(Pulls) /\ k \in 1..(Len(s) + 1)
    /\ k <= Len(s) => s[k] = p /\ Len(u) = Len(s) - 1
    /\ k > Len(s) => (\A i \in 1..Len(s) : s[i] # p) /\ Len(u) = Len(s)
    /\ \A i \in 1..Len(u) : u[i] = s[IF i < k THEN i ELSE i + 1]

LEMMA TakenOut ==
    ASSUME NEW s \in Seq(Pulls), NEW p \in Pulls
    PROVE  \E k \in Nat : Removed(s, p, RemoveFirst(s, p), k)
<1> DEFINE I == {i \in 1..Len(s) : s[i] = p}
           u == RemoveFirst(s, p)
<1>1. CASE I = {}
  <2> DEFINE n == Len(s) + 1
  <2>1. u = s /\ \A i \in 1..Len(s) : s[i] # p
    BY <1>1 DEF RemoveFirst
  <2> HIDE DEF u
  <2>2. n \in 1..n /\ n \in Nat /\ n > Len(s) /\ \A i \in 1..Len(s) : i < n
    OBVIOUS
  <2>3. Removed(s, p, u, n)
    BY <2>1, <2>2 DEF Removed
  <2> QED BY <2>2, <2>3 DEF u
<1>2. CASE I # {}
  <2> DEFINE k == Min(I)
  <2>1. I \in SUBSET Nat
    OBVIOUS
  <2>2. u = SubSeq(s, 1, k - 1) \o SubSeq(s, k + 1, Len(s))
    BY <1>2 DEF RemoveFirst, RemoveAt, SelectInSeq
  <2>3. k \in I
    <3> HIDE DEF I
    <3> QED BY <1>2, <2>1, LeastExists DEF Min
  <2>4. k \in 1..Len(s) /\ s[k] = p
    BY <2>3
  <2> HIDE DEF u, k, I
  <2> DEFINE a == SubSeq(s, 1, k - 1)
             b == SubSeq(s, k + 1, Len(s))
  <2>5. /\ a \in Seq(Pulls) /\ Len(a) = k - 1 /\ \A i \in 1..(k - 1) : a[i] = s[i]
        /\ b \in Seq(Pulls) /\ Len(b) = Len(s) - k /\ \A i \in 1..(Len(s) - k) : b[i] = s[k + i]
    BY <2>4
  <2>6. u = a \o b
    BY <2>2
  <2> HIDE DEF a, b
  <2>7. /\ u \in Seq(Pulls) /\ Len(u) = Len(s) - 1
        /\ \A i \in 1..Len(u) : u[i] = s[IF i < k THEN i ELSE i + 1]
    BY <2>4, <2>5, <2>6
  <2>8. k \in 1..(Len(s) + 1) /\ k \in Nat /\ k <= Len(s) /\ ~(k > Len(s))
    BY <2>4
  <2>9. Removed(s, p, u, k)
    BY <2>4, <2>7, <2>8 DEF Removed
  <2> QED BY <2>8, <2>9 DEF u
<1> QED BY <1>1, <1>2

\* t is s with p at the front, which was at the place k or nowhere, and the
\* others in their order behind it.
Fronted(s, p, t, k) ==
    /\ t \in Seq(Pulls) /\ Len(t) >= 1 /\ t[1] = p /\ k \in 1..(Len(s) + 1)
    /\ k <= Len(s) => s[k] = p /\ Len(t) = Len(s)
    /\ k > Len(s) => (\A i \in 1..Len(s) : s[i] # p) /\ Len(t) = Len(s) + 1
    /\ \A i \in 2..Len(t) : t[i] = s[IF i <= k THEN i - 1 ELSE i]

LEMMA BroughtToFront ==
    ASSUME NEW s \in Seq(Pulls), NEW p \in Pulls
    PROVE  \E k \in Nat : Fronted(s, p, <<p>> \o RemoveFirst(s, p), k)
<1>1. PICK k \in Nat : Removed(s, p, RemoveFirst(s, p), k)
  BY TakenOut
<1> DEFINE u == RemoveFirst(s, p)
           t == <<p>> \o u
<1>2. /\ u \in Seq(Pulls) /\ k \in 1..(Len(s) + 1) /\ Len(s) \in Nat
      /\ k <= Len(s) => s[k] = p /\ Len(u) = Len(s) - 1
      /\ k > Len(s) => (\A i \in 1..Len(s) : s[i] # p) /\ Len(u) = Len(s)
      /\ \A i \in 1..Len(u) : u[i] = s[IF i < k THEN i ELSE i + 1]
  BY <1>1 DEF Removed
<1> HIDE DEF u
<1>3. t \in Seq(Pulls) /\ Len(t) = Len(u) + 1 /\ t[1] = p /\ \A i \in 2..Len(t) : t[i] = u[i - 1]
  BY <1>2
<1> HIDE DEF t
<1>4. ASSUME NEW i \in 2..Len(t) PROVE t[i] = s[IF i <= k THEN i - 1 ELSE i]
  <2>1. t[i] = u[i - 1] /\ i - 1 \in 1..Len(u) /\ (i - 1) + 1 = i
    BY <1>2, <1>3
  <2>2. u[i - 1] = s[IF i - 1 < k THEN i - 1 ELSE i]
    BY <1>2, <2>1
  <2>3. i - 1 < k <=> i <= k
    BY <1>2
  <2> QED BY <2>1, <2>2, <2>3
<1>5. /\ Len(t) >= 1 /\ (k <= Len(s) => Len(t) = Len(s)) /\ (k > Len(s) => Len(t) = Len(s) + 1)
  BY <1>2, <1>3
<1>6. Fronted(s, p, t, k)
  BY <1>2, <1>3, <1>4, <1>5 DEF Fronted
<1> QED BY <1>6 DEF t, u

\* A page holds the pulls at its places of the listing.
LEMMA PageOfListing ==
    ASSUME TypeOK, NEW r \in Runs, Reading(r), run[r].page > 0
    PROVE  LET s == listing[RepoList[run[r].repo]]
               before == Turned(run[r])
           IN  /\ s \in Seq(Pulls) /\ before \in Nat
               /\ Page(r) \in Seq(Pulls) /\ Len(Page(r)) \in Nat /\ Len(Page(r)) <= PageSize
               /\ Len(Page(r)) < PageSize => Len(s) <= before + Len(Page(r))
               /\ Len(Page(r)) > 0 => before + Len(Page(r)) <= Len(s)
               /\ \A i \in 1..Len(Page(r)) : Page(r)[i] = s[before + i]
<1> DEFINE s      == listing[RepoList[run[r].repo]]
           before == Turned(run[r])
           first  == before + 1
           last   == first + PageSize - 1
           end    == Min({last, Len(s)})
<1>1. PageSize \in Nat /\ PageSize > 0
  BY DigestAssumption
<1>2. before \in Nat
  <2>1. run[r].page - 1 \in Nat
    BY DEF TypeOK, Run
  <2>2. \A a, b \in Nat : a * b \in Nat
    OBVIOUS
  <2> QED BY <1>1, <2>1, <2>2 DEF Turned
<1>3. s \in Seq(Pulls)
  <2>1. run[r].repo \in 1..Len(RepoList) /\ RepoList \in Seq(STRING)
    BY DigestAssumption DEF TypeOK, Run, Reading
  <2>2. RepoList[run[r].repo] \in Repos
    BY <2>1 DEF Repos
  <2> QED BY <2>2 DEF TypeOK
<1>4. Page(r) = SubSeq(s, first, end)
  BY DEF Page, Turned
<1> HIDE DEF s, before
<1>5. last \in Nat /\ Len(s) \in Nat /\ end = IF last <= Len(s) THEN last ELSE Len(s)
  <2>1. last \in Nat /\ Len(s) \in Nat
    BY <1>1, <1>2, <1>3
  <2> QED BY <2>1 DEF Min
<1> HIDE DEF end
<1>6. end \in Int /\ end <= Len(s) /\ end < first + PageSize /\ (end < last => end = Len(s))
  BY <1>1, <1>2, <1>5
<1>7. CASE end < first
  <2>1. Page(r) = <<>>
    BY <1>2, <1>3, <1>4, <1>6, <1>7
  <2>2. Len(Page(r)) = 0 /\ Page(r) \in Seq(Pulls)
    BY <2>1
  <2>3. Len(s) <= before
    BY <1>1, <1>2, <1>5, <1>6, <1>7
  <2> QED BY <1>1, <1>2, <1>3, <2>2, <2>3 DEF s, before
<1>8. CASE first <= end
  <2>1. /\ Page(r) \in Seq(Pulls) /\ Len(Page(r)) = end - first + 1
        /\ \A i \in 1..Len(Page(r)) : Page(r)[i] = s[before + i]
    BY <1>2, <1>3, <1>4, <1>6, <1>8
  <2>2. Len(Page(r)) \in Nat /\ Len(Page(r)) = end - before /\ Len(Page(r)) > 0
    BY <1>2, <1>6, <1>8, <2>1
  <2>3. Len(Page(r)) <= PageSize /\ before + Len(Page(r)) <= Len(s)
    BY <1>1, <1>2, <1>5, <1>6, <2>2
  <2>4. Len(Page(r)) < PageSize => Len(s) <= before + Len(Page(r))
    BY <1>1, <1>2, <1>5, <1>6, <2>2
  <2> QED BY <1>2, <1>3, <2>1, <2>2, <2>3, <2>4 DEF s, before
<1> QED BY <1>2, <1>6, <1>7, <1>8

\* With its page, the run has found all it is to find up to there, and with the
\* last page all it is to find in this repository.
LEMMA PageIsMet ==
    ASSUME TypeOK, ListingIsOrdered, NEW r \in Runs, Reading(r), PagesAreWhole(run[r], slipped[r]),
           NEW F, run[r].found \union slipped[r] \subseteq F, Wanted(r) \subseteq F
    PROVE  LET s == listing[RepoList[run[r].repo]]
               Found(p) == Due(run[r], p) => p \in F
           IN  /\ ~LastPage(r) => \A i \in 1..Len(s) : i <= Turned(run[r]) + PageSize => Found(s[i])
               /\ LastPage(r) => \A i \in 1..Len(s) : Found(s[i])
<1> DEFINE s      == listing[RepoList[run[r].repo]]
           before == Turned(run[r])
           Found(p) == Due(run[r], p) => p \in F
<1>1. run[r].page > 0 /\ run[r].repo \in 1..Len(RepoList) /\ run[r].since \in Int
  BY DigestAssumption DEF PagesAreWhole, TypeOK, Run, Reading
<1>2. /\ s \in Seq(Pulls) /\ before \in Nat
      /\ Len(Page(r)) \in Nat /\ Len(Page(r)) <= PageSize
      /\ Len(Page(r)) < PageSize => Len(s) <= before + Len(Page(r))
      /\ Len(Page(r)) > 0 => before + Len(Page(r)) <= Len(s)
      /\ \A i \in 1..Len(Page(r)) : Page(r)[i] = s[before + i]
  BY <1>1, PageOfListing
<1>3. PageSize \in Nat \ {0} /\ RepoList[run[r].repo] \in Repos
  BY <1>1, DigestAssumption DEF Repos
<1>4. ASSUME NEW i \in 1..Len(s), i <= before PROVE Found(s[i])
  <2>1. Met(run[r], slipped[r], s[i])
    BY <1>1, <1>2, <1>4 DEF PagesAreWhole, TurnedIsMet
  <2> QED BY <2>1 DEF Met
<1>5. ASSUME NEW i \in 1..Len(s), i > before, i <= before + Len(Page(r)) PROVE Found(s[i])
  <2>1. i - before \in 1..Len(Page(r)) /\ before + (i - before) = i /\ s[i] \in Pulls
    BY <1>2, <1>5
  <2>2. Page(r)[i - before] = s[i]
    BY <1>2, <2>1
  <2>3. mergedAt[s[i]] # 0 /\ run[r].since <= mergedAt[s[i]] => s[i] \in Wanted(r)
    BY <2>1, <2>2 DEF Wanted
  <2> QED BY <2>3 DEF Due
<1>6. ASSUME NEW i \in 1..Len(s), i > before + Len(Page(r)), Len(Page(r)) > 0,
             touchedAt[Page(r)[Len(Page(r))]] < run[r].since
      PROVE  Found(s[i])
  <2> DEFINE k == before + Len(Page(r))
  <2>1. Page(r)[Len(Page(r))] = s[k] /\ k \in 1..Len(s) /\ k < i
    BY <1>2, <1>6
  <2>2. s[i] \in Pulls /\ s[k] \in Pulls
    BY <1>2, <2>1
  <2>3. touchedAt[s[k]] >= touchedAt[s[i]] /\ mergedAt[s[i]] <= touchedAt[s[i]]
    BY <1>3, <2>1, <2>2 DEF ListingIsOrdered
  <2>4. touchedAt[s[k]] \in Int /\ touchedAt[s[i]] \in Int /\ mergedAt[s[i]] \in Int
    <3>1. \A p \in Pulls : touchedAt[p] \in Int /\ mergedAt[p] \in Int
      BY DEF TypeOK, Times
    <3> HIDE DEF s, k
    <3> QED BY <2>2, <3>1
  <2> HIDE DEF k, s
  <2>5. ~(run[r].since <= mergedAt[s[i]])
    BY <1>1, <1>6, <2>1, <2>3, <2>4
  <2> QED BY <2>5 DEF Due
<1> HIDE DEF Found
<1>7. ASSUME ~LastPage(r), NEW i \in 1..Len(s), i <= before + PageSize PROVE Found(s[i])
  <2>1. Len(Page(r)) = PageSize
    BY <1>2, <1>3, <1>7 DEF LastPage
  <2> HIDE DEF before, s
  <2> QED BY <1>2, <1>4, <1>5, <1>7, <2>1
<1>8. ASSUME LastPage(r), NEW i \in 1..Len(s) PROVE Found(s[i])
  <2>1. CASE Len(Page(r)) < PageSize
    <3> HIDE DEF before, s
    <3> QED BY <1>2, <1>4, <1>5, <2>1
  <2>2. CASE ~(Len(Page(r)) < PageSize)
    <3>1. Len(Page(r)) > 0
      BY <1>2, <1>3, <2>2
    <3>2. touchedAt[Page(r)[Len(Page(r))]] < run[r].since
      BY <1>8, <2>2 DEF LastPage
    <3> HIDE DEF before, s
    <3> QED BY <1>2, <1>4, <1>5, <1>6, <3>1, <3>2
  <2> QED BY <2>1, <2>2
<1> QED BY <1>7, <1>8 DEF Found

\* A window is resolved to where everything is accounted for, or is a first one.
LEMMA WindowIsAnchored ==
    ASSUME TypeOK, RunsAreDated, WatermarksAreAnchored, NEW r \in Runs, NEW override \in Overrides
    PROVE  LET since == Resolved(WindowStart(r), override)
           IN  /\ since \in -BootstrapWindow..MaxTime /\ since <= now
               /\ Watermarks \ {r} # {} => Accounted(since)
<1> DEFINE marks == Watermarks \ {r}
           start == WindowStart(r)
           since == Resolved(start, override)
<1>1. /\ now \in 1..MaxTime /\ override \in 1..MaxTime /\ MaxTime \in Nat /\ BootstrapWindow \in Nat
      /\ BootstrapWindow > 0 /\ mergedAt \in [Pulls -> 0..MaxTime]
  BY DigestAssumption DEF TypeOK, Times
<1>2. CASE marks = {}
  <2>1. start = now - BootstrapWindow
    BY <1>2 DEF WindowStart
  <2> HIDE DEF start
  <2>2. since = start \/ (since = override /\ override <= start)
    BY <1>1, <2>1 DEF Resolved
  <2> QED BY <1>1, <1>2, <2>1, <2>2 DEF start
<1>3. CASE marks # {}
  <2> DEFINE w == Max(marks)
  <2>1. w \in marks
    <3>1. marks \in SUBSET Nat /\ marks \in SUBSET Runs /\ IsFiniteSet(Runs)
      BY DigestAssumption DEF Watermarks
    <3>2. IsFiniteSet(marks)
      BY <3>1, FS_Subset
    <3> HIDE DEF marks
    <3> QED BY <1>3, <3>1, <3>2, GreatestExists
  <2>2. start = run[w].created
    BY <1>3 DEF WindowStart
  <2>3. w \in Runs /\ run[w].state = "success" /\ ~run[w].dry
    BY <2>1 DEF Watermarks, Posted
  <2> HIDE DEF w, start
  <2>4. Accounted(start) /\ start \in 0..MaxTime /\ start <= now
    BY <2>2, <2>3 DEF WatermarksAreAnchored, TypeOK, Run, Times, RunsAreDated
  <2>5. since = start \/ (since = override /\ override <= start)
    BY <1>1, <2>4 DEF Resolved
  <2>6. since \in -BootstrapWindow..MaxTime /\ since <= now /\ since \in Int /\ since <= start
    BY <1>1, <2>4, <2>5
  <2> HIDE DEF since
  <2>7. Accounted(since)
    BY <1>1, <2>4, <2>6 DEF Accounted
  <2> QED BY <2>6, <2>7 DEF since, start
<1> QED BY <1>2, <1>3

\* The zero of products.
LEMMA NothingTurned == ASSUME NEW q, q.page = 1 PROVE Turned(q) = 0
<1>1. \A n \in Nat : 0 * n = 0
  OBVIOUS
<1>2. q.page - 1 = 0 /\ PageSize \in Nat
  BY DigestAssumption
<1> QED BY <1>1, <1>2 DEF Turned

-----------------------------------------------------------------------------
(* The invariant is kept.                                                  *)

\* A step that changes one run to n, which may tell #hive something, keeps the
\* invariant if n does.
LEMMA RunMoves ==
    ASSUME DigestInv, NEW r \in Runs, NEW n \in Run, run' = [run EXCEPT ![r] = n],
           now' = now, mergedAt' = mergedAt, touchedAt' = touchedAt, listing' = listing,
           slipped' = slipped,
           events' \in 0..MaxEvents, told \subseteq told', told' \subseteq Pulls,
           disclosed' \in -BootstrapWindow..MaxTime, disclosed' >= disclosed,
           n.created <= now, n.since <= now,
           \A p \in n.found : RepoOf[p] \notin n.unread,
           n.state = "queued" => n.found = {} /\ n.unread = {} /\ n.repo = 1 /\ n.page = 1,
           n.state = "reading" => PagesAreWhole(n, slipped[r]) /\ (~n.first => Accounted(n.since)),
           n.state = "success" /\ ~n.dry =>
              \A p \in Pulls : mergedAt[p] \in 1..(n.created - 1) =>
                                 \/ p \in told' \/ mergedAt[p] < disclosed'
                                 \/ \E x \in Runs : p \in slipped[x]
    PROVE  DigestInv'
<1>1. TypeOK /\ ListingIsOrdered /\ RunsAreDated /\ QueuedAreNew /\ WindowsAreAnchored
      /\ ReadingsAreWhole /\ WatermarksAreAnchored
  BY DEF DigestInv
<1>2. run' \in [Runs -> Run] /\ \A x \in Runs : run'[x] = run[x] \/ (x = r /\ run'[x] = n)
  BY <1>1 DEF TypeOK
<1>3. TypeOK'
  <2>1. UnreadIsSilent'
    BY <1>1, <1>2 DEF UnreadIsSilent, TypeOK
  <2> QED BY <1>1, <1>2, <2>1 DEF TypeOK, Times
<1>4. ListingIsOrdered'
  BY <1>1 DEF ListingIsOrdered
<1>5. RunsAreDated' /\ QueuedAreNew'
  BY <1>1, <1>2 DEF RunsAreDated, QueuedAreNew
<1>6. ASSUME NEW t, Accounted(t), NEW p \in Pulls, mergedAt[p] \in 1..(t - 1)
      PROVE  p \in told' \/ mergedAt[p] < disclosed' \/ \E x \in Runs : p \in slipped[x]
  <2>1. p \in told \/ mergedAt[p] < disclosed \/ \E x \in Runs : p \in slipped[x]
    BY <1>6 DEF Accounted
  <2>2. mergedAt[p] \in Int /\ disclosed \in Int /\ disclosed' \in Int
    BY <1>1, <1>3, DigestAssumption DEF TypeOK, Times
  <2> QED BY <2>1, <2>2
<1>7. WindowsAreAnchored'
  <2> SUFFICES ASSUME NEW x \in Runs, run'[x].state = "reading", ~run'[x].first,
                      NEW p \in Pulls, mergedAt[p] \in 1..(run'[x].since - 1)
               PROVE  p \in told' \/ mergedAt[p] < disclosed' \/ \E y \in Runs : p \in slipped[y]
    BY DEF WindowsAreAnchored, Accounted
  <2>1. PICK t : t = run'[x].since /\ Accounted(t)
    BY <1>1, <1>2 DEF WindowsAreAnchored
  <2> QED BY <1>6, <2>1
<1>8. ReadingsAreWhole'
  <2> SUFFICES ASSUME NEW x \in Runs, run'[x].state = "reading"
               PROVE  PagesAreWhole(run[x], slipped[x])'
    BY DEF ReadingsAreWhole
  <2>1. PICK q : q = run'[x]
    OBVIOUS
  <2>2. PICK g : g = slipped[x]
    OBVIOUS
  <2>3. PagesAreWhole(q, g)
    BY <1>1, <1>2, <2>1, <2>2 DEF ReadingsAreWhole
  <2>4. PagesAreWhole(q, g)'
    BY <2>3 DEF PagesAreWhole, TurnedIsMet, Met, Due
  <2> QED BY <2>1, <2>2, <2>4
<1>9. WatermarksAreAnchored'
  <2> SUFFICES ASSUME NEW x \in Runs, run'[x].state = "success", ~run'[x].dry,
                      NEW p \in Pulls, mergedAt[p] \in 1..(run'[x].created - 1)
               PROVE  p \in told' \/ mergedAt[p] < disclosed' \/ \E y \in Runs : p \in slipped[y]
    BY DEF WatermarksAreAnchored, Accounted
  <2>1. CASE run'[x] = run[x]
    <3>1. PICK t : t = run[x].created /\ Accounted(t)
      BY <1>1, <2>1 DEF WatermarksAreAnchored
    <3> QED BY <1>6, <2>1, <3>1
  <2>2. CASE run'[x] = n
    BY <2>2
  <2> QED BY <1>2, <2>1, <2>2
<1> QED BY <1>3, <1>4, <1>5, <1>7, <1>8, <1>9 DEF DigestInv

\* A pull that is merged, closed or touched moves to the front of its listing.
LEMMA ListingMoves ==
    ASSUME DigestInv, NEW p \in Pulls, Touched(p), now' = now,
           mergedAt' = mergedAt \/ mergedAt' = [mergedAt EXCEPT ![p] = now]
    PROVE  /\ mergedAt' \in [Pulls -> Times] /\ touchedAt' \in [Pulls -> Times]
           /\ listing' \in [Repos -> Seq(Pulls)]
           /\ ListingIsOrdered'
           /\ \A repo \in Repos : \A i \in 1..Len(listing'[repo]) :
                 \/ listing'[repo][i] = p
                 \/ \E j \in 1..Len(listing[repo]) : listing'[repo][i] = listing[repo][j]
<1> DEFINE home == RepoOf[p]
           s    == listing[home]
           t    == <<p>> \o RemoveFirst(s, p)
<1>1. /\ TypeOK /\ ListingIsOrdered /\ home \in Repos /\ s \in Seq(Pulls) /\ now \in Times /\ now > 0
      /\ Len(s) \in Nat
  BY DigestAssumption DEF DigestInv, TypeOK, Times
<1>2. PICK k \in Nat : Fronted(s, p, t, k)
  BY <1>1, BroughtToFront
<1>3. listing' = [listing EXCEPT ![home] = t] /\ touchedAt' = [touchedAt EXCEPT ![p] = now]
  BY DEF Touched, Relisted, Others
<1> HIDE DEF t
<1>4. /\ t \in Seq(Pulls) /\ Len(t) \in Nat /\ Len(t) >= 1 /\ t[1] = p /\ k \in 1..(Len(s) + 1)
      /\ k <= Len(s) => s[k] = p /\ Len(t) = Len(s)
      /\ k > Len(s) => (\A i \in 1..Len(s) : s[i] # p) /\ Len(t) = Len(s) + 1
      /\ \A i \in 2..Len(t) : t[i] = s[IF i <= k THEN i - 1 ELSE i]
  BY <1>2 DEF Fronted
<1>5. /\ listing' \in [Repos -> Seq(Pulls)] /\ listing'[home] = t
      /\ \A repo \in Repos : repo # home => listing'[repo] = listing[repo]
  BY <1>1, <1>3, <1>4 DEF TypeOK
<1>6. /\ touchedAt' \in [Pulls -> Times] /\ touchedAt'[p] = now
      /\ \A q \in Pulls : q # p => touchedAt'[q] = touchedAt[q]
  BY <1>1, <1>3 DEF TypeOK
<1>7. /\ mergedAt' \in [Pulls -> Times] /\ mergedAt'[p] <= now
      /\ \A q \in Pulls : q # p => mergedAt'[q] = mergedAt[q]
  <2>1. mergedAt[p] \in Times /\ touchedAt[p] \in Times /\ mergedAt[p] <= touchedAt[p] /\ touchedAt[p] <= now
    BY <1>1 DEF TypeOK, ListingIsOrdered
  <2>2. CASE mergedAt' = mergedAt
    BY <1>1, <2>1, <2>2 DEF TypeOK, Times
  <2>3. CASE mergedAt' = [mergedAt EXCEPT ![p] = now]
    BY <1>1, <2>3 DEF TypeOK, Times
  <2> QED BY <2>2, <2>3
<1>8. /\ \A i, j \in 1..Len(s) : i < j => s[i] # s[j] /\ touchedAt[s[i]] >= touchedAt[s[j]]
      /\ \A i \in 1..Len(s) : RepoOf[s[i]] = home /\ s[i] \in Pulls
  BY <1>1 DEF ListingIsOrdered
<1> HIDE DEF home, s
\* Where the others were.
<1> DEFINE place(i) == IF i <= k THEN i - 1 ELSE i
<1>9. ASSUME NEW i \in 2..Len(t)
      PROVE  place(i) \in 1..Len(s) /\ t[i] = s[place(i)] /\ s[place(i)] # p
  <2>1. t[i] = s[place(i)]
    BY <1>4
  <2>2. place(i) \in 1..Len(s) /\ place(i) # k
    BY <1>1, <1>4
  <2> HIDE DEF place
  <2>3. s[place(i)] # p
    BY <1>1, <1>4, <1>8, <2>2
  <2> QED BY <2>1, <2>2, <2>3
<1>10. \A i, j \in 2..Len(t) : i < j => place(i) < place(j)
  BY <1>4
<1> HIDE DEF place
<1>11. ASSUME NEW i \in 1..Len(t), NEW j \in 1..Len(t), i < j
       PROVE  t[i] # t[j] /\ touchedAt'[t[i]] >= touchedAt'[t[j]]
  <2>1. j \in 2..Len(t)
    BY <1>4, <1>11
  <2>2. /\ place(j) \in 1..Len(s) /\ t[j] = s[place(j)] /\ t[j] # p /\ t[j] \in Pulls
        /\ touchedAt'[t[j]] = touchedAt[t[j]]
    BY <1>6, <1>8, <1>9, <2>1
  <2>3. CASE i = 1
    <3>1. touchedAt[t[j]] <= now
      BY <1>1, <2>2 DEF ListingIsOrdered
    <3>2. touchedAt[t[j]] \in Int /\ now \in Int
      BY <1>1, <2>2 DEF TypeOK, Times
    <3> QED BY <1>4, <1>6, <2>2, <2>3, <3>1, <3>2
  <2>4. CASE i # 1
    <3>1. i \in 2..Len(t)
      BY <1>4, <2>4
    <3> HIDE DEF place
    <3>2. place(i) < place(j)
      BY <1>10, <1>11, <2>1, <3>1
    <3>3. /\ place(i) \in 1..Len(s) /\ t[i] = s[place(i)] /\ t[i] # p /\ t[i] \in Pulls
          /\ touchedAt'[t[i]] = touchedAt[t[i]]
      BY <1>6, <1>8, <1>9, <3>1
    <3> QED BY <1>8, <2>2, <3>2, <3>3
  <2> QED BY <2>3, <2>4
<1>12. ASSUME NEW i \in 1..Len(t) PROVE RepoOf[t[i]] = home
  <2>1. CASE i = 1
    BY <1>4, <2>1 DEF home
  <2>2. CASE i # 1
    <3>1. i \in 2..Len(t)
      BY <1>4, <2>2
    <3>2. place(i) \in 1..Len(s) /\ t[i] = s[place(i)] /\ t[i] # p
      BY <1>9, <3>1
    <3> QED BY <1>8, <3>2
  <2> QED BY <2>1, <2>2
<1>13. ASSUME NEW q \in Pulls, mergedAt'[q] # 0
       PROVE  \E i \in 1..Len(listing'[RepoOf[q]]) : listing'[RepoOf[q]][i] = q
  <2>1. CASE q = p
    BY <1>4, <1>5, <2>1 DEF home
  <2>2. CASE q # p
    <3>1. PICK i \in 1..Len(listing[RepoOf[q]]) : listing[RepoOf[q]][i] = q
      BY <1>1, <1>7, <1>13, <2>2 DEF ListingIsOrdered
    <3>2. CASE RepoOf[q] # home
      BY <1>5, <3>1, <3>2, DigestAssumption
    <3>3. CASE RepoOf[q] = home
      <4>1. i \in 1..Len(s) /\ s[i] = q /\ i # k
        BY <1>4, <2>2, <3>1, <3>3 DEF s
      <4> DEFINE j == IF i < k THEN i + 1 ELSE i
      <4>2. j \in 2..Len(t) /\ (IF j <= k THEN j - 1 ELSE j) = i
        BY <1>1, <1>4, <4>1
      <4> HIDE DEF j
      <4>3. t[j] = q /\ j \in 1..Len(t)
        BY <1>4, <4>1, <4>2
      <4> QED BY <1>5, <3>3, <4>3
    <3> QED BY <3>2, <3>3
  <2> QED BY <2>1, <2>2
<1>14. ASSUME NEW q \in Pulls PROVE mergedAt'[q] <= touchedAt'[q] /\ touchedAt'[q] <= now
  <2>1. CASE q = p
    BY <1>1, <1>6, <1>7, <2>1 DEF Times
  <2>2. CASE q # p
    BY <1>1, <1>6, <1>7, <2>2 DEF ListingIsOrdered
  <2> QED BY <2>1, <2>2
<1>15. \A repo \in Repos : \A i, j \in 1..Len(listing'[repo]) :
         i < j => /\ listing'[repo][i] # listing'[repo][j]
                  /\ touchedAt'[listing'[repo][i]] >= touchedAt'[listing'[repo][j]]
  <2> SUFFICES ASSUME NEW repo \in Repos, NEW i \in 1..Len(listing'[repo]),
                      NEW j \in 1..Len(listing'[repo]), i < j
               PROVE  /\ listing'[repo][i] # listing'[repo][j]
                      /\ touchedAt'[listing'[repo][i]] >= touchedAt'[listing'[repo][j]]
    OBVIOUS
  <2>1. CASE repo = home
    BY <1>5, <1>11, <2>1
  <2>2. CASE repo # home
    <3>1. listing'[repo] = listing[repo] /\ listing[repo] \in Seq(Pulls)
      BY <1>1, <1>5, <2>2 DEF TypeOK
    <3>2. /\ listing[repo][i] # listing[repo][j]
          /\ touchedAt[listing[repo][i]] >= touchedAt[listing[repo][j]]
          /\ RepoOf[listing[repo][i]] = repo /\ RepoOf[listing[repo][j]] = repo
          /\ listing[repo][i] \in Pulls /\ listing[repo][j] \in Pulls
      BY <1>1, <3>1 DEF ListingIsOrdered
    <3>3. listing[repo][i] # p /\ listing[repo][j] # p
      BY <2>2, <3>2 DEF home
    <3> QED BY <1>6, <3>1, <3>2, <3>3
  <2> QED BY <2>1, <2>2
<1>16. ASSUME NEW repo \in Repos, NEW i \in 1..Len(listing'[repo])
       PROVE  RepoOf[listing'[repo][i]] = repo
  <2>1. CASE repo = home
    BY <1>5, <1>12, <2>1
  <2>2. CASE repo # home
    <3>1. listing'[repo] = listing[repo] /\ listing[repo] \in Seq(Pulls)
      BY <1>1, <1>5, <2>2 DEF TypeOK
    <3> QED BY <1>1, <3>1 DEF ListingIsOrdered
  <2> QED BY <2>1, <2>2
<1>17. ListingIsOrdered'
  BY <1>1, <1>13, <1>14, <1>15, <1>16 DEF ListingIsOrdered
<1>18. ASSUME NEW repo \in Repos, NEW i \in 1..Len(listing'[repo])
       PROVE  \/ listing'[repo][i] = p
              \/ \E j \in 1..Len(listing[repo]) : listing'[repo][i] = listing[repo][j]
  <2>1. CASE repo # home
    BY <1>5, <2>1
  <2>2. CASE repo = home /\ i = 1
    BY <1>4, <1>5, <2>2
  <2>3. CASE repo = home /\ i # 1
    <3>1. i \in 2..Len(t)
      BY <1>4, <1>5, <2>3
    <3>2. place(i) \in 1..Len(s) /\ t[i] = s[place(i)]
      BY <1>9, <3>1
    <3> QED BY <1>5, <2>3, <3>2 DEF s
  <2> QED BY <2>1, <2>2, <2>3
<1> QED BY <1>5, <1>6, <1>7, <1>17, <1>18 DEF home

\* A pull that is reopened leaves its listing, and the others close the gap.
LEMMA ListingShrinks ==
    ASSUME DigestInv, NEW p \in Pulls, Reopen(p)
    PROVE  /\ touchedAt' \in [Pulls -> Times] /\ listing' \in [Repos -> Seq(Pulls)]
           /\ ListingIsOrdered'
           /\ \A repo \in Repos : \A i \in 1..Len(listing'[repo]) :
                 \E j \in 1..Len(listing[repo]) : listing'[repo][i] = listing[repo][j]
<1> DEFINE home == RepoOf[p]
           s    == listing[home]
           u    == RemoveFirst(s, p)
<1>1. /\ TypeOK /\ ListingIsOrdered /\ home \in Repos /\ s \in Seq(Pulls) /\ now \in Times /\ now > 0
      /\ Len(s) \in Nat /\ mergedAt[p] = 0 /\ mergedAt' = mergedAt /\ now' = now
  <2>1. mergedAt[p] = 0 /\ mergedAt' = mergedAt /\ now' = now
    BY DEF Reopen
  <2>2. /\ TypeOK /\ ListingIsOrdered /\ home \in Repos /\ s \in Seq(Pulls)
        /\ now \in Times /\ now > 0 /\ Len(s) \in Nat
    BY DigestAssumption DEF DigestInv, TypeOK, Times
  <2> QED BY <2>1, <2>2
<1>2. PICK k \in Nat : Removed(s, p, u, k)
  BY <1>1, TakenOut
<1>3. /\ listing' = [listing EXCEPT ![home] = u] /\ touchedAt' = [touchedAt EXCEPT ![p] = now]
  BY DEF Reopen, Relisted, Others
<1> HIDE DEF u
<1>4. /\ u \in Seq(Pulls) /\ Len(u) \in Nat /\ k \in 1..(Len(s) + 1)
      /\ k <= Len(s) => s[k] = p /\ Len(u) = Len(s) - 1
      /\ k > Len(s) => (\A i \in 1..Len(s) : s[i] # p) /\ Len(u) = Len(s)
      /\ \A i \in 1..Len(u) : u[i] = s[IF i < k THEN i ELSE i + 1]
  BY <1>2 DEF Removed
<1>5. /\ listing' \in [Repos -> Seq(Pulls)] /\ listing'[home] = u
      /\ \A repo \in Repos : repo # home => listing'[repo] = listing[repo]
  BY <1>1, <1>3, <1>4 DEF TypeOK
<1>6. /\ touchedAt' \in [Pulls -> Times] /\ touchedAt'[p] = now
      /\ \A q \in Pulls : q # p => touchedAt'[q] = touchedAt[q]
  BY <1>1, <1>3 DEF TypeOK
<1>7. /\ \A i, j \in 1..Len(s) : i < j => s[i] # s[j] /\ touchedAt[s[i]] >= touchedAt[s[j]]
      /\ \A i \in 1..Len(s) : RepoOf[s[i]] = home /\ s[i] \in Pulls
  BY <1>1 DEF ListingIsOrdered
<1> HIDE DEF home, s
\* Where the others were.
<1> DEFINE place(i) == IF i < k THEN i ELSE i + 1
<1>8. ASSUME NEW i \in 1..Len(u)
      PROVE  place(i) \in 1..Len(s) /\ u[i] = s[place(i)] /\ s[place(i)] # p
  <2>1. u[i] = s[place(i)]
    BY <1>4
  <2>2. place(i) \in 1..Len(s) /\ place(i) # k
    BY <1>1, <1>4
  <2> HIDE DEF place
  <2>3. s[place(i)] # p
    BY <1>1, <1>4, <1>7, <2>2
  <2> QED BY <2>1, <2>2, <2>3
<1>9. \A i, j \in 1..Len(u) : i < j => place(i) < place(j)
  BY <1>4
<1> HIDE DEF place
<1>10. ASSUME NEW repo \in Repos, NEW i \in 1..Len(listing'[repo]), NEW j \in 1..Len(listing'[repo]),
              i < j
       PROVE  /\ listing'[repo][i] # listing'[repo][j]
              /\ touchedAt'[listing'[repo][i]] >= touchedAt'[listing'[repo][j]]
  <2>1. CASE repo = home
    <3>1. place(i) < place(j)
      BY <1>5, <1>9, <1>10, <2>1
    <3>2. /\ place(i) \in 1..Len(s) /\ u[i] = s[place(i)] /\ u[i] # p /\ u[i] \in Pulls
          /\ place(j) \in 1..Len(s) /\ u[j] = s[place(j)] /\ u[j] # p /\ u[j] \in Pulls
      BY <1>5, <1>7, <1>8, <2>1
    <3> QED BY <1>5, <1>6, <1>7, <2>1, <3>1, <3>2
  <2>2. CASE repo # home
    <3>1. listing'[repo] = listing[repo] /\ listing[repo] \in Seq(Pulls)
      BY <1>1, <1>5, <2>2 DEF TypeOK
    <3>2. /\ listing[repo][i] # listing[repo][j]
          /\ touchedAt[listing[repo][i]] >= touchedAt[listing[repo][j]]
          /\ RepoOf[listing[repo][i]] = repo /\ RepoOf[listing[repo][j]] = repo
          /\ listing[repo][i] \in Pulls /\ listing[repo][j] \in Pulls
      BY <1>1, <1>10, <3>1 DEF ListingIsOrdered
    <3>3. listing[repo][i] # p /\ listing[repo][j] # p
      BY <2>2, <3>2 DEF home
    <3> QED BY <1>6, <3>1, <3>2, <3>3
  <2> QED BY <2>1, <2>2
<1>11. ASSUME NEW repo \in Repos, NEW i \in 1..Len(listing'[repo])
       PROVE  RepoOf[listing'[repo][i]] = repo
  <2>1. CASE repo = home
    BY <1>5, <1>7, <1>8, <2>1
  <2>2. CASE repo # home
    BY <1>1, <1>5, <2>2 DEF ListingIsOrdered
  <2> QED BY <2>1, <2>2
<1>12. ASSUME NEW q \in Pulls, mergedAt'[q] # 0
       PROVE  \E i \in 1..Len(listing'[RepoOf[q]]) : listing'[RepoOf[q]][i] = q
  <2>1. q # p
    BY <1>1, <1>12
  <2>2. PICK i \in 1..Len(listing[RepoOf[q]]) : listing[RepoOf[q]][i] = q
    BY <1>1, <1>12 DEF ListingIsOrdered
  <2>3. CASE RepoOf[q] # home
    BY <1>5, <2>2, <2>3, DigestAssumption
  <2>4. CASE RepoOf[q] = home
    <3>1. i \in 1..Len(s) /\ s[i] = q /\ i # k
      BY <1>4, <2>1, <2>2, <2>4 DEF s
    <3> DEFINE j == IF i < k THEN i ELSE i - 1
    <3>2. j \in 1..Len(u) /\ (IF j < k THEN j ELSE j + 1) = i
      BY <1>1, <1>4, <3>1
    <3> HIDE DEF j
    <3>3. u[j] = q
      BY <1>4, <3>1, <3>2
    <3> QED BY <1>5, <2>4, <3>2, <3>3
  <2> QED BY <2>3, <2>4
<1>13. ASSUME NEW q \in Pulls PROVE mergedAt'[q] <= touchedAt'[q] /\ touchedAt'[q] <= now
  <2>1. CASE q = p
    BY <1>1, <1>6, <2>1 DEF Times
  <2>2. CASE q # p
    BY <1>1, <1>6, <2>2 DEF ListingIsOrdered
  <2> QED BY <2>1, <2>2
<1>14. ASSUME NEW repo \in Repos, NEW i \in 1..Len(listing'[repo])
       PROVE  \E j \in 1..Len(listing[repo]) : listing'[repo][i] = listing[repo][j]
  <2>1. CASE repo = home
    BY <1>5, <1>8, <2>1 DEF s
  <2>2. CASE repo # home
    BY <1>5, <2>2
  <2> QED BY <2>1, <2>2
<1>15. ListingIsOrdered'
  BY <1>1, <1>10, <1>11, <1>12, <1>13 DEF ListingIsOrdered
<1> QED BY <1>5, <1>6, <1>14, <1>15

\* When a pull moves and no run does, whatever then stands behind the reader of a
\* run stood there before, or has slipped, or was merged after the run was created.
LEMMA ListingsMove ==
    ASSUME DigestInv, TypeOK', ListingIsOrdered', UNCHANGED <<now, run, hiveVars>>,
           NEW p \in Pulls, NEW pulls, Relisted(p, pulls),
           \A m \in Pulls : \/ mergedAt'[m] = mergedAt[m]
                            \/ mergedAt[m] = 0 /\ mergedAt'[m] = now,
           \A repo \in Repos : \A i \in 1..Len(listing'[repo]) :
              \/ mergedAt'[listing'[repo][i]] \in {0, now}
              \/ \E j \in 1..Len(listing[repo]) : listing'[repo][i] = listing[repo][j]
    PROVE  DigestInv'
<1>1. /\ TypeOK /\ RunsAreDated /\ QueuedAreNew /\ WindowsAreAnchored /\ ReadingsAreWhole
      /\ WatermarksAreAnchored
      /\ now' = now /\ run' = run /\ told' = told /\ disclosed' = disclosed
      /\ slipped' = [r \in Runs |-> slipped[r] \union {m \in Pulls : Slips(r, m)}]
  BY DEF DigestInv, hiveVars, Relisted
<1>2. /\ mergedAt \in [Pulls -> Nat] /\ now \in Nat /\ now > 0
      /\ \A r \in Runs : run[r].created \in Nat /\ run[r].since \in Int
                         /\ run[r].created <= now /\ run[r].since <= now
  BY <1>1, DigestAssumption DEF TypeOK, RunsAreDated, Times, Run
<1>3. RunsAreDated' /\ QueuedAreNew'
  BY <1>1 DEF RunsAreDated, QueuedAreNew
<1>4. \A r \in Runs : slipped[r] \subseteq slipped'[r]
  BY <1>1
<1>5. ASSUME NEW t \in Int, t <= now, Accounted(t) PROVE Accounted(t)'
  <2> SUFFICES ASSUME NEW m \in Pulls, mergedAt'[m] \in 1..(t - 1)
               PROVE  m \in told \/ mergedAt'[m] < disclosed \/ \E r \in Runs : m \in slipped'[r]
    BY <1>1 DEF Accounted
  <2>1. mergedAt'[m] = mergedAt[m]
    BY <1>2, <1>5
  <2> QED BY <1>4, <1>5, <2>1 DEF Accounted
<1>6. WindowsAreAnchored'
  <2> SUFFICES ASSUME NEW r \in Runs, run[r].state = "reading", ~run[r].first
               PROVE  Accounted(run[r].since)'
    BY <1>1 DEF WindowsAreAnchored
  <2>1. PICK t \in Int : t = run[r].since
    BY <1>2
  <2>2. Accounted(t)'
    BY <1>1, <1>2, <1>5, <2>1 DEF WindowsAreAnchored
  <2> QED BY <1>1, <2>1, <2>2 DEF Accounted
<1>7. WatermarksAreAnchored'
  <2> SUFFICES ASSUME NEW r \in Runs, run[r].state = "success", ~run[r].dry
               PROVE  Accounted(run[r].created)'
    BY <1>1 DEF WatermarksAreAnchored
  <2>1. PICK t \in Int : t = run[r].created
    BY <1>2
  <2>2. Accounted(t)'
    BY <1>1, <1>2, <1>5, <2>1 DEF WatermarksAreAnchored
  <2> QED BY <1>1, <2>1, <2>2 DEF Accounted
<1>8. ASSUME NEW r \in Runs, run[r].state = "reading" PROVE PagesAreWhole(run[r], slipped[r])'
  <2>1. PICK q : q = run[r]
    OBVIOUS
  <2>2. PICK g : g = slipped[r]
    OBVIOUS
  <2>3. PICK h : h = slipped'[r]
    OBVIOUS
  <2>4. /\ PagesAreWhole(q, g) /\ q \in Run /\ q.created <= now /\ q.created \in Nat
        /\ g \subseteq h
    BY <1>1, <1>2, <1>4, <1>8, <2>1, <2>2, <2>3 DEF ReadingsAreWhole, TypeOK
  <2>5. q.found \subseteq Pulls /\ q.repo \in 1..(Len(RepoList) + 1) /\ q.page \in Nat
    BY <2>4 DEF Run
  <2>6. ASSUME NEW m \in Pulls, Met(q, g, m) PROVE Met(q, h, m)'
    <3> SUFFICES ASSUME Due(q, m)' PROVE m \in q.found \union h
      BY DEF Met
    <3>1. mergedAt'[m] # 0 /\ mergedAt'[m] < q.created /\ q.since <= mergedAt'[m]
      BY DEF Due
    <3>2. mergedAt'[m] = mergedAt[m]
      BY <1>2, <2>4, <3>1
    <3> QED BY <2>4, <2>6, <3>1, <3>2 DEF Met, Due
  <2>7. \A m \in q.found : mergedAt'[m] # 0 /\ q.since <= mergedAt'[m]
    BY <1>2, <2>4, <2>5 DEF PagesAreWhole
  <2>8. \A k \in 1..(q.repo - 1) : RepoList[k] \notin q.unread =>
           \A m \in Pulls : RepoOf[m] = RepoList[k] => Met(q, h, m)'
    BY <2>4, <2>6 DEF PagesAreWhole
  <2>9. q.page > 0 /\ \A repo \in q.unread : \E k \in 1..(q.repo - 1) : RepoList[k] = repo
    BY <2>4 DEF PagesAreWhole
  <2>10. ASSUME q.repo <= Len(RepoList), NEW i \in 1..Len(listing'[RepoList[q.repo]]), i <= Turned(q)
         PROVE  Met(q, h, listing[RepoList[q.repo]][i])'
    <3> DEFINE repo == RepoList[q.repo]
    <3>1. repo \in Repos /\ listing[repo] \in Seq(Pulls) /\ listing'[repo] \in Seq(Pulls)
      <4>1. q.repo \in DOMAIN RepoList
        BY <2>5, <2>10, DigestAssumption
      <4>2. repo \in Repos
        BY <4>1 DEF Repos
      <4> QED BY <1>1, <4>2 DEF TypeOK
    <3>2. PICK m \in Pulls : m = listing'[repo][i]
      BY <3>1
    <3>3. RepoOf[m] = repo
      BY <3>1, <3>2 DEF ListingIsOrdered
    <3>4. CASE mergedAt'[m] \in {0, now}
      <4>1. ~Due(q, m)'
        BY <1>2, <2>4, <3>4 DEF Due
      <4> QED BY <3>2, <4>1 DEF Met, Due
    <3>5. CASE \E j \in 1..Len(listing[repo]) : m = listing[repo][j]
      <4>1. PICK j \in 1..Len(listing[repo]) : m = listing[repo][j]
        BY <3>5
      <4>2. Turned(q) \in Int
        <5>1. \A a, b \in Int : a * b \in Int
          OBVIOUS
        <5> QED BY <2>5, <5>1, DigestAssumption DEF Turned
      <4>3. CASE j <= Turned(q)
        <5>1. Met(q, g, m)
          BY <2>4, <2>10, <4>1, <4>3 DEF PagesAreWhole, TurnedIsMet
        <5>2. Met(q, h, m)'
          BY <2>6, <5>1
        <5> QED BY <3>2, <5>2 DEF Met, Due
      <4>4. CASE Turned(q) < j
        <5>1. j \in DOMAIN listing[repo] /\ i \in DOMAIN listing'[repo]
          BY <2>10, <3>1
        <5>2. Slips(r, m)
          BY <1>8, <2>1, <2>10, <3>2, <3>3, <4>1, <4>4, <5>1 DEF Slips
        <5>3. m \in h
          BY <1>1, <2>3, <5>2
        <5> QED BY <3>2, <5>3 DEF Met
      <4> QED BY <4>2, <4>3, <4>4
    <3> QED BY <3>1, <3>2, <3>4, <3>5
  <2>11. TurnedIsMet(q, h)'
    BY <2>10 DEF TurnedIsMet, Met, Due
  <2>12. PagesAreWhole(q, h)'
    BY <2>7, <2>8, <2>9, <2>11 DEF PagesAreWhole
  <2> QED BY <1>1, <2>1, <2>3, <2>12
<1>9. ReadingsAreWhole'
  BY <1>1, <1>8 DEF ReadingsAreWhole
<1> QED BY <1>3, <1>6, <1>7, <1>9 DEF DigestInv

\* What happened to pulls changes no more than the bound on events.
LEMMA EventsTyped ==
    ASSUME TypeOK, Event \/ events' = events
    PROVE  events' \in 0..MaxEvents
BY DigestAssumption DEF TypeOK, Event

\* What was not listed before is merged now or not at all.
LEMMA FrontKeeps ==
    ASSUME DigestInv, NEW p \in Pulls, Merge(p) \/ Close(p) \/ Touch(p)
    PROVE  DigestInv'
<1>1. /\ TypeOK /\ ListingIsOrdered /\ UnreadIsSilent /\ mergedAt \in [Pulls -> Times]
      /\ RepoOf[p] \in Repos /\ slipped \in [Runs -> SUBSET Pulls]
  BY DigestAssumption DEF DigestInv, TypeOK
<1>2. Closed(p) <=> \E i \in 1..Len(listing[RepoOf[p]]) : listing[RepoOf[p]][i] = p
  <2>1. DOMAIN listing[RepoOf[p]] = 1..Len(listing[RepoOf[p]])
    BY <1>1 DEF TypeOK
  <2> QED BY <2>1 DEF Closed
<1>3. ~Closed(p) => mergedAt[p] = 0
  BY <1>1, <1>2 DEF ListingIsOrdered
<1>4. /\ run' = run /\ told' = told /\ disclosed' = disclosed /\ now' = now
      /\ Touched(p) /\ (Event \/ events' = events)
      /\ \/ mergedAt' = mergedAt /\ Closed(p)
         \/ mergedAt[p] = 0 /\ mergedAt' = [mergedAt EXCEPT ![p] = now]
         \/ mergedAt[p] = 0 /\ mergedAt' = mergedAt
  <2>1. CASE Merge(p)
    BY <1>3, <2>1 DEF Merge, hiveVars
  <2>2. CASE Close(p)
    BY <1>3, <2>2 DEF Close, hiveVars
  <2>3. CASE Touch(p)
    BY <2>3 DEF Touch, hiveVars
  <2> QED BY <2>1, <2>2, <2>3
<1>5. /\ mergedAt' \in [Pulls -> Times] /\ touchedAt' \in [Pulls -> Times]
      /\ listing' \in [Repos -> Seq(Pulls)] /\ ListingIsOrdered'
      /\ \A repo \in Repos : \A i \in 1..Len(listing'[repo]) :
            \/ listing'[repo][i] = p
            \/ \E j \in 1..Len(listing[repo]) : listing'[repo][i] = listing[repo][j]
  BY <1>4, ListingMoves
<1>6. TypeOK'
  <2>1. slipped' \in [Runs -> SUBSET Pulls]
    BY <1>1, <1>4 DEF Touched, Relisted
  <2>2. events' \in 0..MaxEvents
    BY <1>1, <1>4, EventsTyped
  <2> QED BY <1>1, <1>4, <1>5, <2>1, <2>2 DEF TypeOK, UnreadIsSilent
<1>7. \A m \in Pulls : mergedAt'[m] = mergedAt[m] \/ (mergedAt[m] = 0 /\ mergedAt'[m] = now)
  BY <1>1, <1>4
<1>8. ASSUME NEW repo \in Repos, NEW i \in 1..Len(listing'[repo])
      PROVE  \/ mergedAt'[listing'[repo][i]] \in {0, now}
             \/ \E j \in 1..Len(listing[repo]) : listing'[repo][i] = listing[repo][j]
  <2>1. CASE listing'[repo][i] = p /\ mergedAt'[p] \in {0, now}
    BY <2>1
  <2>2. CASE listing'[repo][i] = p /\ Closed(p)
    <3>1. RepoOf[p] = repo
      BY <1>5, <2>2 DEF ListingIsOrdered
    <3> QED BY <1>2, <2>2, <3>1
  <2>3. Closed(p) \/ mergedAt'[p] \in {0, now}
    BY <1>1, <1>4
  <2> QED BY <1>5, <2>1, <2>2, <2>3
<1>9. Relisted(p, <<p>> \o Others(p))
  BY <1>4 DEF Touched
<1> QED BY <1>4, <1>5, <1>6, <1>7, <1>8, <1>9, ListingsMove DEF hiveVars

\* A reopened pull adds nothing to the listing.
LEMMA ReopenKeeps ==
    ASSUME DigestInv, NEW p \in Pulls, Reopen(p)
    PROVE  DigestInv'
<1>1. /\ TypeOK /\ UnreadIsSilent /\ slipped \in [Runs -> SUBSET Pulls]
  BY DEF DigestInv, TypeOK
<1>2. /\ run' = run /\ told' = told /\ disclosed' = disclosed /\ now' = now
      /\ mergedAt' = mergedAt /\ Event /\ Relisted(p, Others(p))
  BY DEF Reopen, hiveVars
<1>3. /\ touchedAt' \in [Pulls -> Times] /\ listing' \in [Repos -> Seq(Pulls)]
      /\ ListingIsOrdered'
      /\ \A repo \in Repos : \A i \in 1..Len(listing'[repo]) :
            \E j \in 1..Len(listing[repo]) : listing'[repo][i] = listing[repo][j]
  BY ListingShrinks
<1>4. TypeOK'
  <2>1. slipped' \in [Runs -> SUBSET Pulls]
    BY <1>1, <1>2 DEF Relisted
  <2>2. events' \in 0..MaxEvents
    BY <1>1, <1>2, EventsTyped
  <2> QED BY <1>1, <1>2, <1>3, <2>1, <2>2 DEF TypeOK, UnreadIsSilent
<1> QED BY <1>2, <1>3, <1>4, ListingsMove DEF hiveVars

\* What a run's record may hold.
LEMMA RunFields ==
    ASSUME TypeOK, RunsAreDated, NEW r \in Runs
    PROVE  /\ run[r] \in Run /\ NoRun \in Run
           /\ now \in 1..MaxTime /\ run[r].created <= now /\ run[r].since <= now
           /\ run[r].since \in Int /\ run[r].page \in Nat
           /\ run[r].repo \in 1..(Len(RepoList) + 1) /\ Len(RepoList) \in Nat
           /\ run[r].found \subseteq Pulls /\ run[r].unread \subseteq Repos
           /\ \A p \in run[r].found : RepoOf[p] \notin run[r].unread
           /\ disclosed \in -BootstrapWindow..MaxTime /\ MaxTime \in Nat /\ BootstrapWindow \in Nat
<1>1. run[r] \in Run /\ Len(RepoList) \in Nat /\ MaxTime \in Nat /\ BootstrapWindow \in Nat
  BY DigestAssumption DEF TypeOK
<1>2. NoRun \in Run
  <2>1. 0 \in -BootstrapWindow..MaxTime /\ 0 \in Times /\ 1 \in 1..(Len(RepoList) + 1) /\ 1 \in Nat
    BY <1>1 DEF Times
  <2> QED BY <2>1 DEF NoRun, Run, States
<1>3. /\ run[r].since \in -BootstrapWindow..MaxTime /\ run[r].page \in Nat
      /\ run[r].repo \in 1..(Len(RepoList) + 1)
      /\ run[r].found \subseteq Pulls /\ run[r].unread \subseteq Repos
  BY <1>1 DEF Run
<1>4. run[r].since \in Int
  BY <1>1, <1>3
<1>5. /\ now \in 1..MaxTime /\ disclosed \in -BootstrapWindow..MaxTime
      /\ \A p \in run[r].found : RepoOf[p] \notin run[r].unread
  BY DEF TypeOK, UnreadIsSilent
<1>6. run[r].created <= now /\ run[r].since <= now
  BY DEF RunsAreDated
<1> QED BY <1>1, <1>2, <1>3, <1>4, <1>5, <1>6

LEMMA AnewKeeps ==
    ASSUME DigestInv, NEW r \in Runs,
           Rerun(r) \/ \E dry \in BOOLEAN : Dispatch(r, dry)
    PROVE  DigestInv'
<1>1. TypeOK /\ RunsAreDated
  BY DEF DigestInv
<1>2. /\ run[r] \in Run /\ NoRun \in Run /\ now \in 1..MaxTime /\ now \in Times
      /\ run[r].created \in Times /\ run[r].created <= now /\ run[r].dry \in BOOLEAN
      /\ disclosed \in -BootstrapWindow..MaxTime /\ MaxTime \in Nat /\ BootstrapWindow \in Nat
  <2>1. /\ run[r] \in Run /\ NoRun \in Run /\ now \in 1..MaxTime /\ run[r].created <= now
        /\ disclosed \in -BootstrapWindow..MaxTime /\ MaxTime \in Nat /\ BootstrapWindow \in Nat
    BY <1>1, RunFields
  <2>2. run[r].created \in Times /\ run[r].dry \in BOOLEAN
    BY <2>1 DEF Run
  <2>3. now \in Times
    BY <2>1 DEF Times
  <2> QED BY <2>1, <2>2, <2>3
<1>3. PICK t \in Times, dry \in BOOLEAN :
         /\ run' = [run EXCEPT ![r] = [NoRun EXCEPT !.state = "queued", !.created = t, !.dry = dry]]
         /\ t <= now
  <2>1. CASE Rerun(r)
    BY <1>2, <2>1 DEF Rerun
  <2>2. CASE \E dry \in BOOLEAN : Dispatch(r, dry)
    <3>1. PICK dry \in BOOLEAN : Dispatch(r, dry)
      BY <2>2
    <3>2. run' = [run EXCEPT ![r] = [NoRun EXCEPT !.state = "queued", !.created = now,
                                                  !.dry = dry]]
      BY <3>1 DEF Dispatch
    <3>3. now <= now
      BY <1>2
    <3> QED BY <1>2, <3>2, <3>3
  <2> QED BY <2>1, <2>2
<1>4. /\ now' = now /\ mergedAt' = mergedAt /\ touchedAt' = touchedAt /\ listing' = listing
      /\ slipped' = slipped
      /\ told' = told /\ disclosed' = disclosed
      /\ events' = events \/ (events < MaxEvents /\ events' = events + 1)
  BY DEF Rerun, Dispatch, Event, pullVars, hiveVars
<1> DEFINE n == [NoRun EXCEPT !.state = "queued", !.created = t, !.dry = dry]
<1>5. n = [NoRun EXCEPT !.state = "queued", !.created = t, !.dry = dry]
  OBVIOUS
<1>6. run' = [run EXCEPT ![r] = n]
  BY <1>3
<1> HIDE DEF n
<1>7. /\ n \in Run /\ n.state = "queued" /\ n.created = t /\ n.since = 0
      /\ n.found = {} /\ n.unread = {} /\ n.repo = 1 /\ n.page = 1
  <2>1. NoRun \in Run /\ t \in Times /\ dry \in BOOLEAN
    BY <1>2
  <2> QED BY <1>5, <2>1 DEF NoRun, Run, States
<1>8. /\ told' \subseteq Pulls /\ disclosed' >= disclosed /\ n.since <= now
      /\ events' \in 0..MaxEvents
  BY <1>1, <1>2, <1>4, <1>7, DigestAssumption DEF TypeOK
<1> QED BY <1>2, <1>3, <1>4, <1>6, <1>7, <1>8, RunMoves

LEMMA StartKeeps ==
    ASSUME DigestInv, NEW r \in Runs, NEW override \in Overrides, Start(r, override)
    PROVE  DigestInv'
<1> DEFINE q     == run[r]
           since == Resolved(WindowStart(r), override)
           first == Watermarks \ {r} = {}
           n     == [q EXCEPT !.state = "reading", !.first = first, !.since = since]
<1>1. TypeOK /\ RunsAreDated /\ QueuedAreNew /\ WatermarksAreAnchored
  BY DEF DigestInv
<1>2. /\ q \in Run /\ q.created <= now /\ now \in Int
      /\ disclosed \in -BootstrapWindow..MaxTime /\ MaxTime \in Nat /\ BootstrapWindow \in Nat
  BY <1>1, RunFields
<1>3. /\ since \in -BootstrapWindow..MaxTime /\ since <= now
      /\ ~first => Accounted(since)
  BY <1>1, WindowIsAnchored
<1>4. q.found = {} /\ q.unread = {} /\ q.repo = 1 /\ q.page = 1
  BY <1>1 DEF Start, QueuedAreNew
<1>5. /\ run' = [run EXCEPT ![r] = n]
      /\ now' = now /\ mergedAt' = mergedAt /\ touchedAt' = touchedAt /\ listing' = listing
      /\ slipped' = slipped
      /\ told' = told /\ disclosed' = disclosed /\ events' = events
  BY DEF Start, pullVars, hiveVars
<1> HIDE DEF q, since
<1>6. first \in BOOLEAN
  OBVIOUS
<1> HIDE DEF first
<1>7. /\ n \in Run /\ n.state = "reading" /\ n.first = first /\ n.since = since
      /\ n.created = q.created /\ n.found = {} /\ n.unread = {} /\ n.repo = 1 /\ n.page = 1
  BY <1>2, <1>3, <1>4, <1>6 DEF Run, States
<1> HIDE DEF n
<1>8. PagesAreWhole(n, slipped[r])
  <2>1. Turned(n) = 0
    BY <1>7, NothingTurned
  <2>2. TurnedIsMet(n, slipped[r])
    BY <2>1 DEF TurnedIsMet
  <2> QED BY <1>7, <2>2 DEF PagesAreWhole
<1>9. told' \subseteq Pulls /\ disclosed' >= disclosed /\ events' \in 0..MaxEvents
  BY <1>1, <1>2, <1>5 DEF TypeOK
<1> QED BY <1>2, <1>3, <1>5, <1>7, <1>8, <1>9, RunMoves

\* The run's record after a page: the next page, or the next repository.
LEMMA ReadPageKeeps ==
    ASSUME DigestInv, NEW r \in Runs, ReadPage(r)
    PROVE  DigestInv'
<1> DEFINE q    == run[r]
           rest == IF LastPage(r) THEN NextRepo(r) ELSE [q EXCEPT !.page = @ + 1]
           F    == q.found \union Wanted(r)
           n    == [rest EXCEPT !.found = @ \union Wanted(r)]
           repo == RepoList[q.repo]
<1>1. /\ TypeOK /\ ListingIsOrdered /\ RunsAreDated /\ ReadingsAreWhole /\ WindowsAreAnchored
      /\ q.state = "reading" /\ Reading(r)
  BY DEF DigestInv, ReadPage, Reading
<1>2. PagesAreWhole(q, slipped[r]) /\ (~q.first => Accounted(q.since))
  BY <1>1 DEF ReadingsAreWhole, WindowsAreAnchored
<1>3. /\ q \in Run /\ q.created <= now /\ q.since <= now /\ q.since \in Int /\ q.page \in Nat
      /\ q.repo \in 1..Len(RepoList) /\ Len(RepoList) \in Nat
      /\ \A p \in q.found : p \in Pulls /\ RepoOf[p] \notin q.unread
      /\ disclosed \in -BootstrapWindow..MaxTime /\ MaxTime \in Nat /\ BootstrapWindow \in Nat
  <2>1. q.repo <= Len(RepoList)
    BY <1>1 DEF Reading
  <2> QED BY <1>1, <2>1, RunFields
<1>4. /\ run' = [run EXCEPT ![r] = n]
      /\ now' = now /\ mergedAt' = mergedAt /\ touchedAt' = touchedAt /\ listing' = listing
      /\ slipped' = slipped
      /\ told' = told /\ disclosed' = disclosed /\ events' = events
  BY DEF ReadPage, pullVars, hiveVars
<1>5. /\ ~LastPage(r) => \A i \in 1..Len(listing[repo]) : i <= Turned(q) + PageSize =>
            (Due(q, listing[repo][i]) => listing[repo][i] \in F \union slipped[r])
      /\ LastPage(r) => \A i \in 1..Len(listing[repo]) :
            (Due(q, listing[repo][i]) => listing[repo][i] \in F \union slipped[r])
  <2> DEFINE G == F \union slipped[r]
  <2>1. q.found \union slipped[r] \subseteq G /\ Wanted(r) \subseteq G
    OBVIOUS
  <2> HIDE DEF G
  <2>2. LET s == listing[RepoList[run[r].repo]]
            Found(p) == Due(run[r], p) => p \in G
        IN  /\ ~LastPage(r) => \A i \in 1..Len(s) : i <= Turned(run[r]) + PageSize => Found(s[i])
            /\ LastPage(r) => \A i \in 1..Len(s) : Found(s[i])
    BY <1>1, <1>2, <2>1, PageIsMet
  <2> QED BY <2>2 DEF G
\* What the page holds is of this repository, and of the window.
<1>6. ASSUME NEW p \in Wanted(r)
      PROVE  p \in Pulls /\ RepoOf[p] = repo /\ mergedAt[p] # 0 /\ q.since <= mergedAt[p]
  <2>1. PICK i \in 1..Len(Page(r)) : Page(r)[i] = p
    <3>1. PICK i \in DOMAIN Page(r) : Page(r)[i] = p
      BY DEF Wanted
    <3>2. q.page > 0
      BY <1>2 DEF PagesAreWhole
    <3>3. Page(r) \in Seq(Pulls)
      <4> HIDE DEF q
      <4> QED BY <1>1, <3>2, PageOfListing DEF q
    <3>4. DOMAIN Page(r) = 1..Len(Page(r))
      BY <3>3
    <3> QED BY <3>1, <3>4
  <2>2. /\ listing[repo] \in Seq(Pulls) /\ Turned(q) \in Nat /\ Len(Page(r)) \in Nat
        /\ Turned(q) + Len(Page(r)) <= Len(listing[repo]) /\ p = listing[repo][Turned(q) + i]
    <3>1. q.page > 0
      BY <1>2 DEF PagesAreWhole
    <3> HIDE DEF q
    <3> QED BY <1>1, <2>1, <3>1, PageOfListing DEF q
  <2>3. Turned(q) + i \in 1..Len(listing[repo]) /\ repo \in Repos
    <3>1. q.repo \in DOMAIN RepoList
      BY <1>3, DigestAssumption
    <3>2. repo \in Repos
      BY <3>1 DEF Repos
    <3> HIDE DEF q, repo
    <3> QED BY <2>2, <3>2
  <2>4. RepoOf[p] = repo
    BY <1>1, <2>2, <2>3 DEF ListingIsOrdered
  <2> QED BY <2>4, <1>1 DEF Wanted, TypeOK, Times
<1> HIDE DEF q, F, repo
<1>7. repo \notin q.unread
  <2>1. ASSUME repo \in q.unread PROVE FALSE
    <3>1. PICK k \in 1..(q.repo - 1) : RepoList[k] = repo
      BY <1>2, <2>1 DEF PagesAreWhole
    <3>2. k \in DOMAIN RepoList /\ q.repo \in DOMAIN RepoList /\ k # q.repo
      BY <1>3, <3>1, DigestAssumption
    <3> QED BY <3>1, <3>2, DigestAssumption DEF repo
  <2> QED BY <2>1
<1>8. /\ n \in Run /\ n.state = "reading" /\ n.created = q.created /\ n.since = q.since
      /\ n.first = q.first /\ n.found = F /\ n.unread = q.unread
      /\ LastPage(r) => n.repo = q.repo + 1 /\ n.page = 1
      /\ ~LastPage(r) => n.repo = q.repo /\ n.page = q.page + 1
  <2>1. /\ q.repo + 1 \in 1..(Len(RepoList) + 1) /\ 1 \in Nat /\ q.page + 1 \in Nat
        /\ F \in SUBSET Pulls /\ F = q.found \union Wanted(r)
    BY <1>3, <1>6 DEF F
  <2>2. CASE LastPage(r)
    <3>1. rest = [q EXCEPT !.repo = @ + 1, !.page = 1]
      BY <2>2 DEF NextRepo, q
    <3> HIDE DEF rest
    <3> QED BY <1>1, <1>3, <2>1, <2>2, <3>1 DEF Run, q
  <2>3. CASE ~LastPage(r)
    <3>1. rest = [q EXCEPT !.page = @ + 1]
      BY <2>3
    <3> HIDE DEF rest
    <3> QED BY <1>1, <1>3, <2>1, <2>3, <3>1 DEF Run, q
  <2> QED BY <2>2, <2>3
<1> HIDE DEF n
<1>9. PagesAreWhole(n, slipped[r])
  <2>1. \A p \in n.found : mergedAt[p] # 0 /\ n.since <= mergedAt[p]
    BY <1>2, <1>6, <1>8 DEF PagesAreWhole, F
  <2>2. \A p : Met(q, slipped[r], p) => Met(n, slipped[r], p)
    BY <1>8 DEF Met, Due, F
  <2>3. ASSUME NEW k \in 1..(n.repo - 1), RepoList[k] \notin n.unread,
               NEW p \in Pulls, RepoOf[p] = RepoList[k]
        PROVE  Met(n, slipped[r], p)
    <3>1. CASE k \in 1..(q.repo - 1)
      BY <1>2, <1>8, <2>2, <2>3, <3>1 DEF PagesAreWhole
    <3>2. CASE k \notin 1..(q.repo - 1)
      <4>1. LastPage(r) /\ k = q.repo
        BY <1>3, <1>8, <2>3, <3>2
      <4>2. mergedAt[p] # 0 => \E i \in 1..Len(listing[repo]) : listing[repo][i] = p
        BY <1>1, <2>3, <4>1 DEF ListingIsOrdered, repo
      <4> QED BY <1>5, <1>8, <4>1, <4>2 DEF Met, Due
    <3> QED BY <3>1, <3>2
  <2>4. ASSUME n.repo <= Len(RepoList), NEW i \in 1..Len(listing[RepoList[n.repo]]), i <= Turned(n)
        PROVE  Met(n, slipped[r], listing[RepoList[n.repo]][i])
    <3>1. CASE LastPage(r)
      <4>1. Turned(n) = 0
        BY <1>8, <3>1, NothingTurned
      <4> QED BY <2>4, <4>1
    <3>2. CASE ~LastPage(r)
      <4>1. Turned(n) = Turned(q) + PageSize
        <5>1. \A a, b \in Int : ((a + 1) - 1) * b = (a - 1) * b + b
          OBVIOUS
        <5>2. Turned(n) = ((q.page + 1) - 1) * PageSize
          BY <1>8, <3>2 DEF Turned
        <5> QED BY <1>3, <5>1, <5>2, DigestAssumption DEF Turned
      <4> QED BY <1>5, <1>8, <2>4, <3>2, <4>1 DEF Met, Due, repo
    <3> QED BY <3>1, <3>2
  <2>5. \A u \in n.unread : \E k \in 1..(n.repo - 1) : RepoList[k] = u
    <3>1. \A u \in q.unread : \E k \in 1..(q.repo - 1) : RepoList[k] = u
      BY <1>2 DEF PagesAreWhole
    <3>2. 1..(q.repo - 1) \subseteq 1..(n.repo - 1)
      BY <1>3, <1>8
    <3> QED BY <1>8, <3>1, <3>2
  <2>6. n.page > 0
    BY <1>3, <1>8
  <2> QED BY <2>1, <2>3, <2>4, <2>5, <2>6 DEF PagesAreWhole, TurnedIsMet
<1>10. \A p \in n.found : RepoOf[p] \notin n.unread
  BY <1>3, <1>6, <1>7, <1>8 DEF F
<1>11. told' \subseteq Pulls /\ disclosed' >= disclosed /\ events' \in 0..MaxEvents
  BY <1>1, <1>3, <1>4 DEF TypeOK
<1> QED BY <1>2, <1>3, <1>4, <1>8, <1>9, <1>10, <1>11, RunMoves

\* A repository that cannot be read is named as such.
LEMMA UnreadKeeps ==
    ASSUME DigestInv, NEW r \in Runs, Unread(r)
    PROVE  DigestInv'
<1> DEFINE q    == run[r]
           repo == RepoList[q.repo]
           F    == {p \in q.found : RepoOf[p] # repo}
           n    == [NextRepo(r) EXCEPT !.unread = @ \union {repo},
                                       !.found = {p \in @ : RepoOf[p] # repo}]
<1>1. /\ TypeOK /\ RunsAreDated /\ ReadingsAreWhole /\ WindowsAreAnchored
      /\ q.state = "reading" /\ Reading(r)
  BY DEF DigestInv, Unread, Reading
<1>2. PagesAreWhole(q, slipped[r]) /\ (~q.first => Accounted(q.since))
  BY <1>1 DEF ReadingsAreWhole, WindowsAreAnchored
<1>3. /\ q \in Run /\ q.created <= now /\ q.since <= now
      /\ q.repo \in 1..Len(RepoList) /\ Len(RepoList) \in Nat
      /\ q.found \subseteq Pulls /\ q.unread \subseteq Repos
      /\ \A p \in q.found : RepoOf[p] \notin q.unread
      /\ disclosed \in -BootstrapWindow..MaxTime /\ MaxTime \in Nat /\ BootstrapWindow \in Nat
  <2>1. q.repo <= Len(RepoList)
    BY <1>1 DEF Reading
  <2> QED BY <1>1, <2>1, RunFields
<1>4. /\ run' = [run EXCEPT ![r] = n]
      /\ now' = now /\ mergedAt' = mergedAt /\ touchedAt' = touchedAt /\ listing' = listing
      /\ slipped' = slipped
      /\ told' = told /\ disclosed' = disclosed /\ events' = events
  BY DEF Unread, pullVars, hiveVars
<1>5. repo \in Repos
  <2>1. q.repo \in DOMAIN RepoList
    BY <1>3, DigestAssumption
  <2> QED BY <2>1 DEF Repos
<1>6. n = [q EXCEPT !.repo = @ + 1, !.page = 1, !.unread = @ \union {repo}, !.found = F]
  BY <1>3 DEF NextRepo, Run
<1> HIDE DEF n, q, repo
<1>7. /\ n \in Run /\ n.state = "reading" /\ n.created = q.created /\ n.since = q.since
      /\ n.first = q.first /\ n.found = F /\ n.unread = q.unread \union {repo}
      /\ n.repo = q.repo + 1 /\ n.page = 1
  <2>1. /\ q.repo + 1 \in 1..(Len(RepoList) + 1) /\ 1 \in Nat /\ F \in SUBSET Pulls
        /\ q.unread \union {repo} \in SUBSET Repos
    BY <1>3, <1>5
  <2> HIDE DEF F
  <2> QED BY <1>1, <1>3, <1>6, <2>1 DEF Run, q
<1>8. PagesAreWhole(n, slipped[r])
  <2>1. \A p \in n.found : mergedAt[p] # 0 /\ n.since <= mergedAt[p]
    BY <1>2, <1>7 DEF PagesAreWhole
  <2>2. ASSUME NEW k \in 1..(n.repo - 1), RepoList[k] \notin n.unread,
               NEW p \in Pulls, RepoOf[p] = RepoList[k]
        PROVE  Met(n, slipped[r], p)
    <3>1. k \in 1..(q.repo - 1) /\ RepoList[k] \notin q.unread /\ RepoOf[p] # repo
      <4>1. k # q.repo
        BY <1>7, <2>2 DEF repo
      <4> QED BY <1>3, <1>7, <2>2, <4>1
    <3>2. Met(q, slipped[r], p)
      BY <1>2, <2>2, <3>1 DEF PagesAreWhole
    <3> QED BY <1>7, <3>1, <3>2 DEF Met, Due
  <2>3. \A i \in 1..Len(listing[RepoList[n.repo]]) : ~(i <= Turned(n))
    BY <1>7, NothingTurned
  <2>4. \A u \in n.unread : \E k \in 1..(n.repo - 1) : RepoList[k] = u
    <3>1. \A u \in q.unread : \E k \in 1..(q.repo - 1) : RepoList[k] = u
      BY <1>2 DEF PagesAreWhole
    <3>2. 1..(q.repo - 1) \subseteq 1..(n.repo - 1) /\ q.repo \in 1..(n.repo - 1)
      BY <1>3, <1>7
    <3> QED BY <1>7, <3>1, <3>2 DEF repo
  <2>5. n.page > 0
    BY <1>7
  <2> QED BY <2>1, <2>2, <2>3, <2>4, <2>5 DEF PagesAreWhole, TurnedIsMet
<1>9. \A p \in n.found : RepoOf[p] \notin n.unread
  BY <1>3, <1>7
<1>10. told' \subseteq Pulls /\ disclosed' >= disclosed /\ events' \in 0..MaxEvents
  BY <1>1, <1>3, <1>4 DEF TypeOK
<1> QED BY <1>2, <1>3, <1>4, <1>7, <1>8, <1>9, <1>10, RunMoves

\* A run at its end that read every repository has found what it was to find.
LEMMA EndIsExact ==
    ASSUME TypeOK, NEW r \in Runs, PagesAreWhole(run[r], slipped[r]), ~Reading(r),
           run[r].state = "reading", run[r].unread = {}
    PROVE  \A p \in Pulls : Met(run[r], slipped[r], p)
<1>1. run[r].repo \in 1..(Len(RepoList) + 1) /\ Len(RepoList) \in Nat
  BY DigestAssumption DEF TypeOK, Run
<1>2. run[r].repo - 1 = Len(RepoList)
  BY <1>1 DEF Reading
<1>3. ASSUME NEW p \in Pulls PROVE Met(run[r], slipped[r], p)
  <2>1. RepoOf[p] \in Repos
    BY DigestAssumption
  <2>2. PICK k \in DOMAIN RepoList : RepoList[k] = RepoOf[p]
    BY <2>1 DEF Repos
  <2>3. k \in 1..(run[r].repo - 1)
    BY <1>2, DigestAssumption
  <2> QED BY <2>2, <2>3 DEF PagesAreWhole
<1> QED BY <1>3

\* What is kept of a run that is over.
LEMMA OverTyped ==
    ASSUME TypeOK, RunsAreDated, NEW r \in Runs, NEW state \in {"success", "failure"}
    PROVE  LET n == Over(r, state)
           IN  /\ n \in Run /\ n.state = state /\ n.created = run[r].created /\ n.dry = run[r].dry
               /\ n.since = 0 /\ n.found = {} /\ n.unread = {}
<1>1. run[r] \in Run /\ NoRun \in Run
  BY RunFields
<1> QED BY <1>1 DEF Over, NoRun, Run, States

LEMMA PostKeeps ==
    ASSUME DigestInv, NEW r \in Runs, Post(r)
    PROVE  DigestInv'
<1> DEFINE q == run[r]
           n == Over(r, Verdict(r))
<1>1. /\ TypeOK /\ RunsAreDated /\ ReadingsAreWhole /\ WindowsAreAnchored
      /\ q.state = "reading" /\ ~Reading(r)
  BY DEF DigestInv, Post
<1>2. PagesAreWhole(q, slipped[r]) /\ (~q.first => Accounted(q.since))
  BY <1>1 DEF ReadingsAreWhole, WindowsAreAnchored
<1>3. /\ q \in Run /\ q.created <= now /\ q.since <= now /\ now \in 1..MaxTime /\ q.since \in Int
      /\ q.since \in -BootstrapWindow..MaxTime /\ q.created \in Nat
      /\ q.found \subseteq Pulls /\ told \subseteq Pulls
      /\ disclosed \in -BootstrapWindow..MaxTime /\ MaxTime \in Nat /\ BootstrapWindow \in Nat
  <2>1. /\ q \in Run /\ q.created <= now /\ q.since <= now /\ now \in 1..MaxTime
        /\ q.since \in Int /\ q.found \subseteq Pulls
        /\ disclosed \in -BootstrapWindow..MaxTime /\ MaxTime \in Nat /\ BootstrapWindow \in Nat
    BY <1>1, RunFields
  <2>2. q.since \in -BootstrapWindow..MaxTime /\ q.created \in Times
    BY <2>1 DEF Run
  <2>3. q.created \in Nat
    BY <2>1, <2>2 DEF Times
  <2>4. told \subseteq Pulls
    BY <1>1 DEF TypeOK
  <2> QED BY <2>1, <2>2, <2>3, <2>4
<1>4. /\ run' = [run EXCEPT ![r] = n]
      /\ now' = now /\ mergedAt' = mergedAt /\ touchedAt' = touchedAt /\ listing' = listing
      /\ slipped' = slipped
      /\ events' = events
  BY DEF Post, pullVars
<1>5. /\ q.dry => told' = told /\ disclosed' = disclosed
      /\ ~q.dry => /\ told' = told \union q.found
                   /\ disclosed' = IF q.first THEN Max({disclosed, q.since}) ELSE disclosed
  BY DEF Post, hiveVars
<1>6. Max({disclosed, q.since}) = IF disclosed >= q.since THEN disclosed ELSE q.since
  BY <1>3 DEF Max
<1>7. /\ told \subseteq told' /\ told' \subseteq Pulls
      /\ disclosed' \in -BootstrapWindow..MaxTime /\ disclosed' >= disclosed
      /\ ~q.dry /\ q.first => disclosed' >= q.since
      /\ ~q.dry => q.found \subseteq told'
  <2> HIDE DEF q
  <2> QED BY <1>3, <1>5, <1>6
<1>8. Verdict(r) \in {"success", "failure"} /\ (Verdict(r) = "success" => q.unread = {})
  BY DEF Verdict
<1>9. /\ n \in Run /\ n.state = Verdict(r) /\ n.created = q.created /\ n.dry = q.dry
      /\ n.since = 0 /\ n.found = {} /\ n.unread = {}
  BY <1>1, <1>8, OverTyped
<1> HIDE DEF n
<1>10. ASSUME n.state = "success", ~n.dry, NEW p \in Pulls, mergedAt[p] \in 1..(n.created - 1)
       PROVE  p \in told' \/ mergedAt[p] < disclosed' \/ \E x \in Runs : p \in slipped[x]
  <2>1. Met(q, slipped[r], p)
    BY <1>1, <1>2, <1>8, <1>9, <1>10, EndIsExact
  <2>2. mergedAt[p] \in Nat /\ mergedAt[p] # 0 /\ mergedAt[p] < q.created /\ mergedAt[p] >= 1
    BY <1>3, <1>9, <1>10
  <2> HIDE DEF q
  <2>3. CASE q.since <= mergedAt[p]
    BY <1>7, <1>9, <1>10, <2>1, <2>2, <2>3 DEF Met, Due
  <2>4. CASE mergedAt[p] < q.since /\ q.first
    BY <1>3, <1>7, <1>9, <1>10, <2>2, <2>4
  <2>5. CASE mergedAt[p] < q.since /\ ~q.first
    <3>1. p \in told \/ mergedAt[p] < disclosed \/ \E x \in Runs : p \in slipped[x]
      BY <1>2, <1>3, <1>10, <2>2, <2>5 DEF Accounted
    <3> QED BY <1>3, <1>7, <2>2, <3>1
  <2> QED BY <1>3, <2>2, <2>3, <2>4, <2>5
<1>11. events' \in 0..MaxEvents /\ n.since <= now
  BY <1>1, <1>3, <1>4, <1>9 DEF TypeOK
<1> QED BY <1>3, <1>4, <1>7, <1>8, <1>9, <1>10, <1>11, RunMoves

LEMMA DiesKeeps ==
    ASSUME DigestInv, NEW r \in Runs, Dies(r)
    PROVE  DigestInv'
<1> DEFINE n == Over(r, "failure")
<1>1. TypeOK /\ RunsAreDated
  BY DEF DigestInv
<1>2. /\ run[r].created <= now /\ now \in 1..MaxTime /\ run[r].found \subseteq Pulls
      /\ told \subseteq Pulls /\ disclosed \in -BootstrapWindow..MaxTime
      /\ MaxTime \in Nat /\ BootstrapWindow \in Nat
  BY <1>1, RunFields DEF TypeOK
<1>3. /\ run' = [run EXCEPT ![r] = n]
      /\ now' = now /\ mergedAt' = mergedAt /\ touchedAt' = touchedAt /\ listing' = listing
      /\ slipped' = slipped
      /\ events' = events /\ disclosed' = disclosed
      /\ told' = told \/ \E some \in SUBSET run[r].found : told' = told \union some
  BY DEF Dies, pullVars
<1>4. /\ n \in Run /\ n.state = "failure" /\ n.created = run[r].created
      /\ n.since = 0 /\ n.found = {} /\ n.unread = {}
  BY <1>1, OverTyped
<1> HIDE DEF n
<1>5. /\ told \subseteq told' /\ told' \subseteq Pulls /\ disclosed' >= disclosed
      /\ events' \in 0..MaxEvents /\ n.since <= now
  BY <1>1, <1>2, <1>3, <1>4 DEF TypeOK
<1> QED BY <1>2, <1>3, <1>4, <1>5, RunMoves

LEMMA DigestInit == Init => DigestInv
<1> SUFFICES ASSUME Init PROVE DigestInv
  OBVIOUS
<1>1. /\ MaxTime \in Nat /\ MaxTime >= 1 /\ MaxEvents \in Nat /\ BootstrapWindow \in Nat
      /\ Len(RepoList) \in Nat /\ RepoOf \in [Pulls -> Repos]
  BY DigestAssumption
<1>2. NoRun \in Run /\ NoRun.state = "none" /\ NoRun.found = {} /\ NoRun.created = 0 /\ NoRun.since = 0
  <2>1. 0 \in -BootstrapWindow..MaxTime /\ 0 \in Times /\ 1 \in 1..(Len(RepoList) + 1) /\ 1 \in Nat
    BY <1>1 DEF Times
  <2> QED BY <2>1 DEF NoRun, Run, States
<1>3. /\ now = 1 /\ listing = [repo \in Repos |-> <<>>] /\ told = {} /\ disclosed = -BootstrapWindow
      /\ events = 0 /\ \A p \in Pulls : mergedAt[p] = 0 /\ touchedAt[p] = 0
      /\ slipped \in [Runs -> SUBSET Pulls]
      /\ mergedAt \in [Pulls -> Times] /\ touchedAt \in [Pulls -> Times]
      /\ run \in [Runs -> Run] /\ \A r \in Runs : run[r] = NoRun
  BY <1>1, <1>2 DEF Init, Times
<1>4. listing \in [Repos -> Seq(Pulls)] /\ \A repo \in Repos : Len(listing[repo]) = 0
  BY <1>3
<1>5. TypeOK
  BY <1>1, <1>2, <1>3, <1>4 DEF TypeOK, UnreadIsSilent
<1>6. ListingIsOrdered
  BY <1>3, <1>4 DEF ListingIsOrdered
<1>7. /\ RunsAreDated /\ QueuedAreNew /\ WindowsAreAnchored /\ ReadingsAreWhole
      /\ WatermarksAreAnchored
  BY <1>2, <1>3 DEF RunsAreDated, QueuedAreNew, WindowsAreAnchored, ReadingsAreWhole,
                    WatermarksAreAnchored
<1> QED BY <1>5, <1>6, <1>7 DEF DigestInv

LEMMA DigestNext == DigestInv /\ [Next]_vars => DigestInv'
<1> SUFFICES ASSUME DigestInv, [Next]_vars PROVE DigestInv'
  OBVIOUS
<1>1. CASE Tick
  <2>1. /\ mergedAt' = mergedAt /\ touchedAt' = touchedAt /\ listing' = listing /\ run' = run
        /\ slipped' = slipped /\ events' = events /\ told' = told /\ disclosed' = disclosed
        /\ now' = now + 1 /\ now \in Nat /\ now' \in 1..MaxTime
        /\ \A p \in Pulls : touchedAt[p] \in Nat
        /\ \A r \in Runs : run[r].created \in Int /\ run[r].since \in Int
    BY <1>1, DigestAssumption DEF Tick, pullVars, hiveVars, DigestInv, TypeOK, Times, Run
  <2>2. TypeOK'
    BY <2>1 DEF DigestInv, TypeOK, UnreadIsSilent
  <2>3. ListingIsOrdered' /\ RunsAreDated'
    BY <2>1 DEF DigestInv, ListingIsOrdered, RunsAreDated
  <2>4. QueuedAreNew' /\ WindowsAreAnchored' /\ WatermarksAreAnchored'
    BY <2>1 DEF DigestInv, QueuedAreNew, WindowsAreAnchored, Accounted, WatermarksAreAnchored
  <2>5. ReadingsAreWhole'
    <3> SUFFICES ASSUME NEW r \in Runs, run[r].state = "reading" PROVE PagesAreWhole(run[r], slipped[r])'
      BY <2>1 DEF ReadingsAreWhole
    <3>1. PagesAreWhole(run[r], slipped[r])
      BY DEF DigestInv, ReadingsAreWhole
    <3>2. TurnedIsMet(run[r], slipped[r])'
      BY <2>1, <3>1 DEF PagesAreWhole, TurnedIsMet, Met, Due, Turned
    <3> QED BY <2>1, <3>1, <3>2 DEF PagesAreWhole, Met, Due
  <2> QED BY <2>2, <2>3, <2>4, <2>5 DEF DigestInv
<1>2. CASE UNCHANGED vars
  <2>1. /\ mergedAt' = mergedAt /\ touchedAt' = touchedAt /\ listing' = listing /\ run' = run
        /\ slipped' = slipped /\ events' = events /\ told' = told /\ disclosed' = disclosed
        /\ now' = now
    BY <1>2 DEF vars, pullVars, hiveVars
  <2>2. TypeOK' /\ ListingIsOrdered' /\ RunsAreDated' /\ QueuedAreNew'
    BY <2>1 DEF DigestInv, TypeOK, UnreadIsSilent, ListingIsOrdered, RunsAreDated, QueuedAreNew
  <2>3. WindowsAreAnchored' /\ WatermarksAreAnchored'
    BY <2>1 DEF DigestInv, WindowsAreAnchored, Accounted, WatermarksAreAnchored
  <2>4. ReadingsAreWhole'
    <3> SUFFICES ASSUME NEW r \in Runs, run[r].state = "reading" PROVE PagesAreWhole(run[r], slipped[r])'
      BY <2>1 DEF ReadingsAreWhole
    <3>1. PagesAreWhole(run[r], slipped[r])
      BY DEF DigestInv, ReadingsAreWhole
    <3>2. TurnedIsMet(run[r], slipped[r])'
      BY <2>1, <3>1 DEF PagesAreWhole, TurnedIsMet, Met, Due, Turned
    <3> QED BY <2>1, <3>1, <3>2 DEF PagesAreWhole, Met, Due
  <2> QED BY <2>2, <2>3, <2>4 DEF DigestInv
<1>3. ASSUME NEW p \in Pulls, Merge(p) \/ Close(p) \/ Touch(p) \/ Reopen(p) PROVE DigestInv'
  BY <1>3, FrontKeeps, ReopenKeeps
<1>4. ASSUME NEW r \in Runs, Rerun(r) \/ Steps(r) \/ \E dry \in BOOLEAN : Dispatch(r, dry)
      PROVE  DigestInv'
  BY <1>4, AnewKeeps, StartKeeps, ReadPageKeeps, UnreadKeeps, PostKeeps, DiesKeeps DEF Steps
<1> QED BY <1>1, <1>2, <1>3, <1>4 DEF Next

-----------------------------------------------------------------------------
(* The theorems.                                                           *)

\* Every reachable state of the digest satisfies the invariant.
THEOREM DigestInvHolds == Spec => []DigestInv
  BY DigestInit, DigestNext, PTL DEF Spec

\* The variables of the digest keep their types, and an unread repository is
\* reported as unread and not otherwise.
THEOREM TypeCorrect == Spec => []TypeOK
<1>1. DigestInv => TypeOK
  BY DEF DigestInv
<1> QED BY <1>1, DigestInvHolds, PTL

\* A run that comes to its end has found all that it was to find and nothing
\* from before its window.
LEMMA EndsFindTheirWindow ==
    ASSUME DigestInv, [Next]_vars, NEW r \in Runs,
           run[r].state = "reading", run'[r].state = "success"
    PROVE  /\ TypeOK
           /\ \A p \in Pulls : Met(run[r], slipped[r], p)
           /\ \A p \in run[r].found : run[r].since <= mergedAt[p]
<1>1. /\ TypeOK /\ PagesAreWhole(run[r], slipped[r]) /\ RunsAreDated
      /\ \A p \in Pulls : mergedAt[p] \in Nat
      /\ run[r].since \in Int /\ run[r].found \subseteq Pulls
  <2>1. TypeOK /\ RunsAreDated /\ PagesAreWhole(run[r], slipped[r])
    BY DEF DigestInv, ReadingsAreWhole
  <2> QED BY <2>1, RunFields, DigestAssumption DEF TypeOK, Times
<1>2. Post(r) /\ run[r].unread = {}
  <2>1. PICK x \in Runs : Rerun(x) \/ Steps(x) \/ \E dry \in BOOLEAN : Dispatch(x, dry)
    BY DEF Next, vars, Tick, Merge, Close, Touch, Reopen
  <2>2. NoRun \in Run /\ run[x] \in Run /\ run \in [Runs -> Run]
    BY <1>1, RunFields DEF TypeOK
  <2>3. PICK n : run' = [run EXCEPT ![x] = n] /\ (n.state = "success" => Post(x) /\ run[x].unread = {})
    <3> DEFINE Kept(n) == /\ run' = [run EXCEPT ![x] = n]
                          /\ n.state = "success" => Post(x) /\ run[x].unread = {}
    <3>1. CASE Rerun(x)
      <4> DEFINE n == [NoRun EXCEPT !.state = "queued", !.created = run[x].created,
                                    !.dry = run[x].dry]
      <4>1. n.state = "queued" /\ run' = [run EXCEPT ![x] = n]
        BY <3>1 DEF Rerun, NoRun
      <4> HIDE DEF n
      <4> QED BY <4>1
    <3>2. CASE \E dry \in BOOLEAN : Dispatch(x, dry)
      <4>1. PICK dry \in BOOLEAN : Dispatch(x, dry)
        BY <3>2
      <4> DEFINE n == [NoRun EXCEPT !.state = "queued", !.created = now, !.dry = dry]
      <4>2. n.state = "queued" /\ run' = [run EXCEPT ![x] = n]
        BY <4>1 DEF Dispatch, NoRun
      <4> HIDE DEF n
      <4> QED BY <4>2
    <3>3. CASE \E override \in Overrides : Start(x, override)
      <4>1. PICK override \in Overrides : Start(x, override)
        BY <3>3
      <4> DEFINE n == [run[x] EXCEPT !.state = "reading", !.first = Watermarks \ {x} = {},
                                     !.since = Resolved(WindowStart(x), override)]
      <4>2. n.state = "reading"
        BY <2>2 DEF Run
      <4>3. run' = [run EXCEPT ![x] = n]
        BY <4>1 DEF Start
      <4> HIDE DEF n
      <4> QED BY <4>2, <4>3
    <3>4. CASE ReadPage(x)
      <4> DEFINE rest == IF LastPage(x) THEN NextRepo(x) ELSE [run[x] EXCEPT !.page = @ + 1]
                 n    == [rest EXCEPT !.found = @ \union Wanted(x)]
      <4>1. run[x].state = "reading" /\ run' = [run EXCEPT ![x] = n]
        BY <3>4 DEF ReadPage, Reading
      <4>2. n.state = run[x].state
        BY <2>2 DEF Run, NextRepo
      <4> HIDE DEF n
      <4> QED BY <4>1, <4>2
    <3>5. CASE Unread(x)
      <4> DEFINE n == [NextRepo(x) EXCEPT !.unread = @ \union {RepoList[run[x].repo]},
                                          !.found = {p \in @ : RepoOf[p] # RepoList[run[x].repo]}]
      <4>1. run[x].state = "reading" /\ run' = [run EXCEPT ![x] = n]
        BY <3>5 DEF Unread, Reading
      <4>2. n.state = run[x].state
        BY <2>2 DEF Run, NextRepo
      <4> HIDE DEF n
      <4> QED BY <4>1, <4>2
    <3>6. CASE Post(x)
      <4> DEFINE n == Over(x, Verdict(x))
      <4>1. run' = [run EXCEPT ![x] = n] /\ n.state = Verdict(x)
        BY <3>6 DEF Post, Over, NoRun
      <4>2. Verdict(x) = "success" => run[x].unread = {}
        BY DEF Verdict
      <4> HIDE DEF n
      <4> QED BY <3>6, <4>1, <4>2
    <3>7. CASE Dies(x)
      <4> DEFINE n == Over(x, "failure")
      <4>1. run' = [run EXCEPT ![x] = n] /\ n.state = "failure"
        BY <3>7 DEF Dies, Over, NoRun
      <4> HIDE DEF n
      <4> QED BY <4>1
    <3> QED BY <2>1, <3>1, <3>2, <3>3, <3>4, <3>5, <3>6, <3>7 DEF Steps
  <2> QED BY <2>2, <2>3
<1>3. \A p \in Pulls : Met(run[r], slipped[r], p)
  BY <1>1, <1>2, EndIsExact DEF Post
<1> QED BY <1>1, <1>3 DEF PagesAreWhole

\* "A merge reported never is the failure this whole ticket exists to prevent":
\* however runs overlap, fail or are run again, whatever was merged before a
\* watermark was told to #hive, or a report said that its time is not covered, or
\* it moved past a reader between two pages.
THEOREM EveryMergeIsAccountedHolds == Spec => []EveryMergeIsAccounted
<1>1. DigestInv => EveryMergeIsAccounted
  BY DEF DigestInv, WatermarksAreAnchored, Accounted, EveryMergeIsAccounted, Watermarks, Posted
<1> QED BY <1>1, DigestInvHolds, PTL

\* merged_pulls_since: "exact here".  A run that comes to its end has found, in
\* every repository, the merges from its window's start up to its own creation,
\* but for those that moved past it between two pages, and nothing older.
THEOREM ReportsAreExactHolds == Spec => ReportsAreExact
<1>1. ASSUME DigestInv, [Next]_vars, NEW r \in Runs,
             run[r].state = "reading", run'[r].state = "success"
      PROVE  /\ \A p \in Pulls : mergedAt[p] # 0 /\ mergedAt[p] >= run[r].since
                    /\ mergedAt[p] < run[r].created => p \in run[r].found \union slipped[r]
             /\ \A p \in run[r].found : mergedAt[p] >= run[r].since
  <2>1. /\ TypeOK /\ \A p \in Pulls : Met(run[r], slipped[r], p)
        /\ \A p \in run[r].found : run[r].since <= mergedAt[p]
    BY <1>1, EndsFindTheirWindow
  <2>2. run[r].since \in Int /\ run[r].found \subseteq Pulls /\ \A p \in Pulls : mergedAt[p] \in Int
    BY <2>1, DigestAssumption DEF TypeOK, Run, Times
  <2> QED BY <2>1, <2>2 DEF Met, Due
<1>2. DigestInv /\ [Next]_vars =>
        [\A r \in Runs :
           run[r].state = "reading" /\ run'[r].state = "success" =>
              /\ \A p \in Pulls : mergedAt[p] # 0 /\ mergedAt[p] >= run[r].since
                    /\ mergedAt[p] < run[r].created => p \in run[r].found \union slipped[r]
              /\ \A p \in run[r].found : mergedAt[p] >= run[r].since]_vars
  BY <1>1
<1> QED BY <1>2, DigestInvHolds, PTL DEF ReportsAreExact, Spec

=============================================================================
