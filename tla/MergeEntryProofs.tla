-------------------------- MODULE MergeEntryProofs --------------------------
(***************************************************************************)
(* What an entry of the digest claims, for pulls of any size, any cap of   *)
(* the listings and any number of deployment records: the types, and the   *)
(* three promises of merge_digest.py about the span, the price and the     *)
(* note of deployments.                                                    *)
(*                                                                         *)
(* None of the promises is inductive by itself.  EntryInv adds what is     *)
(* known on the way: the walk is only ever entered for a rebased pull that *)
(* was listed whole, nothing is priced before its span is settled, and the *)
(* pages of deployment records that were turned held nothing that settles  *)
(* the question.                                                           *)
(***************************************************************************)
EXTENDS MergeEntry, WellFoundedInduction, TLAPS

-----------------------------------------------------------------------------
(* Operators of the model.                                                 *)

\* A set of numbers that is not empty has a least one.
LEMMA LeastExists ==
    ASSUME NEW S \in SUBSET Nat, S # {}
    PROVE  \E x \in S : \A y \in S : x <= y
<1> DEFINE R == {ss \in Nat \X Nat : ss[1] < ss[2]}
<1>1. IsWellFoundedOn(R, Nat)
  BY NatLessThanWellFounded DEF OpToRel
<1> HIDE DEF R
<1>2. PICK x \in S : \A y \in S : <<y, x>> \notin R
  BY <1>1, WFMin
<1>3. ASSUME NEW y \in S PROVE x <= y
  <2>1. x \in Nat /\ y \in Nat
    OBVIOUS
  <2>2. <<y, x>> \notin R
    BY <1>2
  <2>3. ~(y < x)
    BY <2>1, <2>2, SMT DEF R
  <2> QED BY <2>1, <2>3
<1> QED BY <1>3

\* Settling finds an entry of the page that settles, if there is one.
LEMMA SettlingFinds ==
    ASSUME NEW d \in Seq(Records)
    PROVE  /\ Settling(d) = 0 => \A i \in 1..Len(d) : d[i] \notin {"shipped", "unreadable"}
           /\ Settling(d) # 0 => Settling(d) \in 1..Len(d)
<1> DEFINE I == {i \in 1..Len(d) : d[i] \in {"shipped", "unreadable"}}
<1>1. Settling(d) = IF I # {} THEN Min(I) ELSE 0
  BY DEF Settling, SelectInSeq
<1>2. I \in SUBSET Nat
  OBVIOUS
<1>3. I # {} => Min(I) \in I
  BY <1>2, LeastExists DEF Min
<1> QED BY <1>1, <1>3


\* A page of the records: the entries of the listing at its places, as many as
\* there are, and never more than a page holds.
LEMMA PageOfRecords ==
    ASSUME pull.deployed \in Seq(Records), page \in Nat \ {0}
    PROVE  LET before == (page - 1) * RecordsPage
           IN  /\ before \in Nat
               /\ OnPage \in Seq(Records)
               /\ Len(OnPage) <= RecordsPage
               /\ Len(OnPage) < RecordsPage => Len(pull.deployed) <= before + Len(OnPage)
               /\ OnPage # <<>> => before + Len(OnPage) <= Len(pull.deployed)
               /\ \A i \in 1..Len(OnPage) : OnPage[i] = pull.deployed[before + i]
<1> DEFINE before == (page - 1) * RecordsPage
           all    == pull.deployed
           first  == before + 1
           last   == first + RecordsPage - 1
           end    == IF last > Len(all) THEN Len(all) ELSE last
<1>1. RecordsPage \in Nat /\ RecordsPage > 0
  BY EntryAssumption
<1>2. before \in Nat
  <2>1. page - 1 \in Nat
    OBVIOUS
  <2>2. \A a, b \in Nat : a * b \in Nat
    OBVIOUS
  <2> QED BY <1>1, <2>1, <2>2
<1>3. OnPage = SubSeq(all, first, end)
  BY DEF OnPage
<1> HIDE DEF before
<1>4. Len(all) \in Nat /\ end \in Int /\ end <= Len(all) /\ end < first + RecordsPage
  BY <1>1, <1>2
<1>5. CASE end < first
  <2>1. SubSeq(all, first, end) = <<>>
    BY <1>2, <1>4, <1>5
  <2>2. Len(all) <= before
    BY <1>1, <1>2, <1>4, <1>5
  <2>3. OnPage = <<>>
    BY <1>3, <2>1
  <2>4. Len(OnPage) = 0 /\ OnPage \in Seq(Records)
    BY <2>3
  <2>5. before + Len(OnPage) = before
    BY <1>2, <2>4
  <2> QED BY <1>1, <1>2, <2>2, <2>3, <2>4, <2>5 DEF before
<1>6. CASE first <= end
  <2>1. OnPage \in Seq(Records) /\ Len(OnPage) = end - first + 1
    BY <1>2, <1>3, <1>4, <1>6
  <2>2. \A i \in 1..Len(OnPage) : OnPage[i] = all[before + i]
    BY <1>2, <1>3, <1>4, <1>6
  <2>3. end < last => end = Len(all)
    BY <1>1, <1>2, <1>4
  <2>4. Len(OnPage) <= RecordsPage /\ before + Len(OnPage) <= Len(all)
    BY <1>1, <1>2, <1>4, <2>1
  <2>5. Len(OnPage) < RecordsPage => Len(all) <= before + Len(OnPage)
    BY <1>1, <1>2, <1>4, <2>1, <2>3
  <2> QED BY <1>2, <2>1, <2>2, <2>4, <2>5 DEF before
<1> QED BY <1>1, <1>2, <1>4, <1>5, <1>6

\* The places of the next page follow those of this one.
LEMMA NextPageFollows ==
    ASSUME page \in Nat \ {0}
    PROVE  ((page + 1) - 1) * RecordsPage = (page - 1) * RecordsPage + RecordsPage
<1>1. \A a, b \in Nat : (a + 1) * b = a * b + b
  OBVIOUS
<1>2. page - 1 \in Nat /\ RecordsPage \in Nat /\ (page + 1) - 1 = (page - 1) + 1
  BY EntryAssumption
<1> QED BY <1>1, <1>2

-----------------------------------------------------------------------------
(* The inductive invariant.                                                *)

Unspanned == {"idle", "commit", "commits", "walk"}

\* The pull is one of those the digest is given.
PullIsKnown ==
    /\ pull \in [strategy : Strategies, own : Seq(Identities), below : Seq(Identities),
                 reported : BOOLEAN, probed : BOOLEAN, deployed : Seq(Records)]
    /\ Len(pull.own) <= MaxCommits
    /\ at # "idle" => Len(pull.own) > 0
    /\ \A i, j \in DOMAIN pull.deployed :
          i < j /\ pull.deployed[i] = "older" => pull.deployed[j] = "older"

\* The commits are compared only for a pull of several that made no merge
\* commit; the walk goes down the commits of a rebased pull, listed whole.
WalkIsWhole ==
    /\ at = "commits" => pull.strategy # "merge" /\ Len(pull.own) > 1
    /\ at = "walk" => pull.strategy = "rebase" /\ Len(Listed(pull)) = Len(pull.own)

\* "Clean" is said after a measurement only, and only of a span that was one.
CleanIsMeasured ==
    /\ at \in Unspanned \union {"measure"} => tier = ""
    /\ at \in {"deployments", "done"} /\ tier = "clean" =>
          /\ ~span.undetermined
          /\ git.ready /\ git.revert # "conflicts" /\ git.dependents # "unknown"

\* The pages that were turned hold nothing that settles, and no older record.
TurnedPagesAreQuiet ==
    /\ at = "deployments" =>
          \A i \in DOMAIN pull.deployed :
             i <= (page - 1) * RecordsPage =>
                pull.deployed[i] \notin {"older", "shipped", "unreadable"}
    /\ at \in Unspanned \union {"measure"} => page = 1

EntryInv ==
    /\ EntryTypeOK /\ PullIsKnown /\ WalkIsWhole /\ SpanIsWhole
    /\ CleanIsMeasured /\ TurnedPagesAreQuiet /\ ShippedIsTold

-----------------------------------------------------------------------------
(* The steps.                                                              *)

\* The pulls the digest may be given.
LEMMA SubjectsAreKnown ==
    ASSUME NEW p \in Subjects
    PROVE  /\ p \in [strategy : Strategies, own : Seq(Identities), below : Seq(Identities),
                     reported : BOOLEAN, probed : BOOLEAN, deployed : Seq(Records)]
           /\ Len(p.own) \in 1..MaxCommits
           /\ \A i, j \in DOMAIN p.deployed :
                 i < j /\ p.deployed[i] = "older" => p.deployed[j] = "older"
<1>1. \A S, n : n \in Nat =>
         \A s \in BoundedSeq(S, n) : s \in Seq(S) /\ Len(s) \in 0..n
  <2>1. ASSUME NEW S, NEW n \in Nat, NEW s \in BoundedSeq(S, n)
        PROVE  s \in Seq(S) /\ Len(s) \in 0..n
    <3>1. PICK m \in 0..n : s \in [1..m -> S]
      BY <2>1 DEF BoundedSeq, SeqOf
    <3> QED BY <3>1
  <2> QED BY <2>1
<1>2. /\ p.own \in BoundedSeq(Identities, MaxCommits) /\ p.own # <<>>
      /\ p.below \in BoundedSeq(Identities, MaxBelow)
      /\ p.deployed \in BoundedSeq(Records, MaxRecords)
      /\ \A i, j \in DOMAIN p.deployed :
            i < j /\ p.deployed[i] = "older" => p.deployed[j] = "older"
      /\ p.strategy \in Strategies /\ p.reported \in BOOLEAN /\ p.probed \in BOOLEAN
  BY DEF Subjects, Histories
<1>3. /\ p.own \in Seq(Identities) /\ Len(p.own) \in 0..MaxCommits
      /\ p.below \in Seq(Identities) /\ p.deployed \in Seq(Records)
  BY <1>1, <1>2, EntryAssumption
<1>4. Len(p.own) # 0
  BY <1>2, <1>3
<1>5. p = [strategy |-> p.strategy, own |-> p.own, below |-> p.below,
           reported |-> p.reported, probed |-> p.probed, deployed |-> p.deployed]
  BY DEF Subjects
<1>6. p \in [strategy : Strategies, own : Seq(Identities), below : Seq(Identities),
             reported : BOOLEAN, probed : BOOLEAN, deployed : Seq(Records)]
  BY <1>2, <1>3, <1>5
<1> QED BY <1>2, <1>3, <1>4, <1>6, EntryAssumption

LEMMA TakeKeeps == EntryInv /\ Take => EntryInv'
<1> SUFFICES ASSUME EntryInv, Take PROVE EntryInv'
  OBVIOUS
<1> USE DEF EntryInv, Take
<1>1. /\ pull' \in [strategy : Strategies, own : Seq(Identities), below : Seq(Identities),
                    reported : BOOLEAN, probed : BOOLEAN, deployed : Seq(Records)]
      /\ Len(pull'.own) \in 1..MaxCommits
      /\ \A i, j \in DOMAIN pull'.deployed :
            i < j /\ pull'.deployed[i] = "older" => pull'.deployed[j] = "older"
  BY SubjectsAreKnown
<1>2. PullIsKnown'
  BY <1>1, EntryAssumption DEF PullIsKnown
<1>3. EntryTypeOK'
  BY <1>1 DEF EntryTypeOK
<1>4. WalkIsWhole' /\ SpanIsWhole' /\ ShippedIsTold'
  BY DEF WalkIsWhole, SpanIsWhole, ShippedIsTold
<1>5. CleanIsMeasured' /\ TurnedPagesAreQuiet'
  BY DEF CleanIsMeasured, TurnedPagesAreQuiet, Unspanned
<1> QED BY <1>2, <1>3, <1>4, <1>5

\* A span that is settled before anything was measured keeps the invariant if
\* it is refused or whole.
LEMMA SpannedKeeps ==
    ASSUME EntryInv, NEW s \in Spans, Spanned(s), at \in Unspanned \ {"idle"},
           s.undetermined \/ ((s.merge <=> pull.strategy = "merge") /\ s.count = Landed(pull))
    PROVE  EntryInv'
<1> USE DEF EntryInv, Spanned
<1>1. at' \in {"measure", "done"} /\ UNCHANGED <<pull, index, git, page, note>> /\ span' = s
  OBVIOUS
<1>2. tier' \in Tiers
  BY DEF EntryTypeOK, Tiers
<1>3. PullIsKnown'
  BY <1>1 DEF PullIsKnown, Unspanned
<1>4. EntryTypeOK'
  BY <1>1, <1>2 DEF EntryTypeOK
<1>5. WalkIsWhole' /\ SpanIsWhole'
  BY <1>1 DEF WalkIsWhole, SpanIsWhole, Landed
<1>6. CleanIsMeasured'
  BY <1>1 DEF CleanIsMeasured, Unspanned
<1>7. TurnedPagesAreQuiet'
  BY <1>1 DEF TurnedPagesAreQuiet, Unspanned
<1>8. ShippedIsTold'
  <2>1. at' = "done" => ~pull'.probed
    BY <1>1
  <2> QED BY <2>1 DEF ShippedIsTold
<1> QED BY <1>3, <1>4, <1>5, <1>6, <1>7, <1>8

\* A step of merge_span that settles nothing yet.
LEMMA ReadingOnKeeps ==
    ASSUME EntryInv, UNCHANGED <<pull, span, git, page, tier, note>>,
           at \in Unspanned \ {"idle"}, at' \in Unspanned \ {"idle"},
           index' \in 0..MaxCommits, WalkIsWhole'
    PROVE  EntryInv'
<1> USE DEF EntryInv, Unspanned
<1>1. EntryTypeOK'
  BY DEF EntryTypeOK
<1>2. PullIsKnown'
  BY DEF PullIsKnown
<1>3. SpanIsWhole' /\ CleanIsMeasured' /\ TurnedPagesAreQuiet' /\ ShippedIsTold'
  BY DEF SpanIsWhole, CleanIsMeasured, TurnedPagesAreQuiet, ShippedIsTold
<1> QED BY <1>1, <1>2, <1>3

LEMMA ReadCommitKeeps == EntryInv /\ ReadCommit => EntryInv'
<1> SUFFICES ASSUME EntryInv, ReadCommit PROVE EntryInv'
  OBVIOUS
<1>1. at = "commit" /\ at \in Unspanned \ {"idle"}
  BY DEF ReadCommit, Unspanned
<1>2. pull.strategy \in Strategies /\ Len(pull.own) \in Nat /\ Len(pull.own) > 0
  BY <1>1 DEF EntryInv, PullIsKnown
<1>3. Undetermined \in Spans /\ Span(1, TRUE) \in Spans /\ Span(1, FALSE) \in Spans
  BY DEF Undetermined, Span, Spans
<1>4. CASE Spanned(Undetermined)
  BY <1>1, <1>3, <1>4, SpannedKeeps DEF Undetermined
<1>5. CASE pull.strategy = "merge" /\ Spanned(Span(1, TRUE))
  BY <1>1, <1>3, <1>5, SpannedKeeps DEF Span, Landed
<1>6. CASE pull.strategy # "merge" /\ Len(pull.own) = 1 /\ Spanned(Span(1, FALSE))
  BY <1>1, <1>3, <1>6, SpannedKeeps DEF Span, Landed
<1>7. CASE /\ pull.strategy # "merge" /\ Len(pull.own) > 1 /\ at' = "commits"
           /\ UNCHANGED <<pull, index, span, git, page, tier, note>>
  <2>1. WalkIsWhole'
    BY <1>7 DEF WalkIsWhole
  <2>2. index' \in 0..MaxCommits /\ at' \in Unspanned \ {"idle"}
    BY <1>7 DEF EntryInv, EntryTypeOK, Unspanned
  <2> QED BY <1>1, <1>7, <2>1, <2>2, ReadingOnKeeps
<1> QED BY <1>4, <1>5, <1>6, <1>7 DEF ReadCommit

\* A squashed pull of several commits is on the branch as one that GitHub made;
\* a rebased one ends with its own last commit.
LEMMA TopOfTheChain ==
    ASSUME PullIsKnown, pull.strategy # "merge", Len(pull.own) > 1
    PROVE  /\ pull.strategy = "squash" => Chain(pull)[1] # Last(pull.own)
           /\ pull.strategy = "rebase" => Chain(pull)[1] = Last(pull.own)
<1>1. /\ pull.own \in Seq(Identities) /\ pull.below \in Seq(Identities)
      /\ Len(pull.own) \in Nat
  BY DEF PullIsKnown
<1>2. Last(pull.own) = pull.own[Len(pull.own)] /\ Last(pull.own) \in Identities
  BY <1>1 DEF Last
<1>3. ASSUME pull.strategy = "squash" PROVE Chain(pull)[1] # Last(pull.own)
  <2>1. Chain(pull) = <<0>> \o pull.below
    <3>1. pull.strategy # "rebase"
      BY <1>3
    <3>2. ~(Len(pull.own) = 1)
      <4>1. \A n \in Nat : n > 1 => n # 1
        OBVIOUS
      <4> QED BY <1>1, <4>1, Zenon
    <3> QED BY <3>1, <3>2, Zenon DEF Chain
  <2>2. Chain(pull)[1] = 0
    BY <1>1, <2>1
  <2> QED BY <1>2, <2>2, EntryAssumption
<1>4. ASSUME pull.strategy = "rebase" PROVE Chain(pull)[1] = Last(pull.own)
  <2>1. Chain(pull) = Reverse(pull.own) \o pull.below
    BY <1>4 DEF Chain
  <2>2. /\ Reverse(pull.own) \in Seq(Identities) /\ Len(Reverse(pull.own)) = Len(pull.own)
        /\ Reverse(pull.own)[1] = pull.own[Len(pull.own)]
    BY <1>1 DEF Reverse
  <2>3. \A s, t \in Seq(Identities) : Len(s) > 0 => (s \o t)[1] = s[1]
    OBVIOUS
  <2>4. Len(Reverse(pull.own)) > 0
    BY <1>1, <2>2
  <2>5. (Reverse(pull.own) \o pull.below)[1] = Reverse(pull.own)[1]
    BY <1>1, <2>2, <2>3, <2>4, Zenon
  <2>6. Chain(pull)[1] = Reverse(pull.own)[1]
    BY <2>1, <2>5, Zenon
  <2> QED BY <1>2, <2>2, <2>6
<1> QED BY <1>3, <1>4

LEMMA ReadCommitsKeeps == EntryInv /\ ReadCommits => EntryInv'
<1> SUFFICES ASSUME EntryInv, ReadCommits PROVE EntryInv'
  OBVIOUS
<1> DEFINE own == Listed(pull)
<1>1. at = "commits" /\ at \in Unspanned \ {"idle"}
  BY DEF ReadCommits, Unspanned
<1>2. pull.strategy # "merge" /\ Len(pull.own) > 1
  BY <1>1 DEF EntryInv, WalkIsWhole
<1>3. pull.own \in Seq(Identities) /\ Len(pull.own) \in 0..MaxCommits /\ pull.strategy \in Strategies
  BY EntryAssumption DEF EntryInv, PullIsKnown
<1>4. Undetermined \in Spans /\ Span(1, FALSE) \in Spans
  BY DEF Undetermined, Span, Spans
<1>5. Len(own) = Len(pull.own) => own = pull.own
  BY <1>3, EntryAssumption DEF Listed
<1>6. CASE Spanned(Undetermined)
  BY <1>1, <1>4, <1>6, SpannedKeeps DEF Undetermined
<1>7. CASE Len(own) = Len(pull.own) /\ Chain(pull)[1] # Last(own) /\ Spanned(Span(1, FALSE))
  <2>1. pull.strategy # "rebase"
    BY <1>2, <1>5, <1>7, TopOfTheChain DEF EntryInv
  <2> QED BY <1>1, <1>2, <1>4, <1>7, <2>1, SpannedKeeps DEF Span, Landed
<1>8. CASE /\ Len(own) = Len(pull.own) /\ Chain(pull)[1] = Last(own)
           /\ at' = "walk" /\ index' = Len(own) - 1
           /\ UNCHANGED <<pull, span, git, page, tier, note>>
  <2>1. pull.strategy = "rebase"
    BY <1>2, <1>3, <1>5, <1>8, TopOfTheChain DEF EntryInv, Strategies
  <2>2. WalkIsWhole'
    BY <1>8, <2>1 DEF WalkIsWhole, Listed
  <2>3. index' \in 0..MaxCommits
    BY <1>2, <1>3, <1>8, EntryAssumption
  <2> QED BY <1>1, <1>8, <2>2, <2>3, ReadingOnKeeps DEF Unspanned
<1> QED BY <1>6, <1>7, <1>8 DEF ReadCommits

LEMMA WalkKeeps == EntryInv /\ Walk => EntryInv'
<1> SUFFICES ASSUME EntryInv, Walk PROVE EntryInv'
  OBVIOUS
<1>1. at = "walk" /\ at \in Unspanned \ {"idle"}
  BY DEF Walk, Unspanned
<1>2. pull.strategy = "rebase" /\ Len(Listed(pull)) = Len(pull.own)
  BY <1>1 DEF EntryInv, WalkIsWhole
<1>3. Len(pull.own) \in Nat /\ index \in 0..MaxCommits
  BY DEF EntryInv, EntryTypeOK, PullIsKnown
<1>4. CASE Spanned(Undetermined)
  <2>1. Undetermined \in Spans
    BY DEF Undetermined, Spans
  <2> QED BY <1>1, <1>4, <2>1, SpannedKeeps DEF Undetermined
<1>5. CASE Spanned(Span(Len(Listed(pull)), FALSE))
  <2>1. Span(Len(Listed(pull)), FALSE) \in Spans
    BY <1>2, <1>3 DEF Span, Spans
  <2> QED BY <1>1, <1>2, <1>5, <2>1, SpannedKeeps DEF Span, Landed
<1>6. CASE /\ index > 0 /\ index' = index - 1
           /\ UNCHANGED <<at, pull, span, git, page, tier, note>>
  <2>1. index' \in 0..MaxCommits
    BY <1>3, <1>6, EntryAssumption
  <2>2. WalkIsWhole'
    BY <1>6 DEF EntryInv, WalkIsWhole, Listed
  <2> QED BY <1>1, <1>6, <2>1, <2>2, ReadingOnKeeps
<1> QED BY <1>4, <1>5, <1>6 DEF Walk

LEMMA MeasureKeeps == EntryInv /\ Measure => EntryInv'
<1> SUFFICES ASSUME EntryInv, Measure PROVE EntryInv'
  OBVIOUS
<1>1. at = "measure" /\ at' = "deployments" /\ UNCHANGED <<pull, index, span, page, note>>
  BY DEF Measure
<1> DEFINE Earned == /\ ~span.undetermined /\ git'.ready
                     /\ git'.revert # "conflicts" /\ git'.dependents # "unknown"
<1>2. git' \in Answers /\ tier' \in Tiers /\ (tier' = "clean" => Earned)
  <2>1. CASE tier' = "unmeasured" /\ UNCHANGED git
    BY <2>1 DEF EntryInv, EntryTypeOK, Tiers
  <2>2. ASSUME NEW a \in Answers, ~span.undetermined, git' = a, tier' = Cost(a)
        PROVE  git' \in Answers /\ tier' \in Tiers /\ (tier' = "clean" => Earned)
    BY <2>2 DEF Cost, Answers, Tiers
  <2> QED BY <2>1, <2>2 DEF Measure
<1> HIDE DEF Earned
<1>3. EntryTypeOK'
  BY <1>1, <1>2 DEF EntryInv, EntryTypeOK
<1>4. PullIsKnown'
  BY <1>1 DEF EntryInv, PullIsKnown
<1>5. WalkIsWhole' /\ ShippedIsTold'
  BY <1>1 DEF WalkIsWhole, ShippedIsTold
<1>6. SpanIsWhole'
  BY <1>1 DEF EntryInv, SpanIsWhole, Landed
<1>7. CleanIsMeasured'
  BY <1>1, <1>2 DEF CleanIsMeasured, Unspanned, Earned
<1>8. TurnedPagesAreQuiet'
  <2>1. page' = 1 /\ DOMAIN pull'.deployed = 1..Len(pull'.deployed) /\ (1 - 1) * RecordsPage = 0
    BY <1>1, EntryAssumption DEF EntryInv, TurnedPagesAreQuiet, PullIsKnown
  <2>2. \A i \in DOMAIN pull'.deployed : ~(i <= (page' - 1) * RecordsPage)
    BY <2>1
  <2> QED BY <1>1, <2>2 DEF TurnedPagesAreQuiet, Unspanned
<1> QED BY <1>3, <1>4, <1>5, <1>6, <1>7, <1>8 DEF EntryInv

LEMMA GitFailsKeeps == EntryInv /\ GitFails => EntryInv'
<1> SUFFICES ASSUME EntryInv, GitFails PROVE EntryInv'
  OBVIOUS
<1> USE DEF EntryInv, GitFails
<1>1. EntryTypeOK' /\ PullIsKnown' /\ WalkIsWhole'
  BY DEF EntryTypeOK, PullIsKnown, WalkIsWhole
<1>2. SpanIsWhole'
  BY DEF SpanIsWhole, Landed
<1>3. CleanIsMeasured' /\ TurnedPagesAreQuiet' /\ ShippedIsTold'
  BY DEF CleanIsMeasured, TurnedPagesAreQuiet, ShippedIsTold, Unspanned
<1> QED BY <1>1, <1>2, <1>3

\* The entry ends with a note that tells of a merge in production.
LEMMA NotedKeeps ==
    ASSUME EntryInv, at = "deployments", NEW n \in Notes, Noted(n),
           Contains(pull.deployed, "shipped") => n \in {"deployed", "unknown"}
    PROVE  EntryInv'
<1> USE DEF EntryInv, Noted
<1>1. EntryTypeOK'
  BY DEF EntryTypeOK, Tiers
<1>2. PullIsKnown' /\ WalkIsWhole'
  BY DEF PullIsKnown, WalkIsWhole
<1>3. SpanIsWhole'
  BY DEF SpanIsWhole, Landed, Unspanned
<1>4. CleanIsMeasured' /\ TurnedPagesAreQuiet'
  BY DEF CleanIsMeasured, TurnedPagesAreQuiet, Unspanned
<1>5. ShippedIsTold'
  BY DEF ShippedIsTold
<1> QED BY <1>1, <1>2, <1>3, <1>4, <1>5

\* What a page says of the whole listing: if nothing on it settles the question
\* and it is the last, or it is empty, nothing shipped; if it is not the last,
\* the next one begins behind quiet records.
LEMMA PagesTell ==
    ASSUME EntryInv, at = "deployments"
    PROVE  LET records == OnPage
           IN  /\ records = <<>> => ~Contains(pull.deployed, "shipped")
               /\ records # <<>> /\ Settling(records) = 0 /\ LastRecords(records) =>
                     ~Contains(pull.deployed, "shipped")
               /\ records # <<>> /\ Settling(records) = 0 /\ ~LastRecords(records) =>
                     \A i \in DOMAIN pull.deployed :
                        i <= ((page + 1) - 1) * RecordsPage =>
                           pull.deployed[i] \notin {"older", "shipped", "unreadable"}
<1> DEFINE records == OnPage
           all     == pull.deployed
           before  == (page - 1) * RecordsPage
<1>1. /\ all \in Seq(Records) /\ page \in Nat \ {0} /\ Len(all) \in Nat
      /\ DOMAIN all = 1..Len(all)
  BY DEF EntryInv, EntryTypeOK
<1>2. /\ before \in Nat
      /\ records \in Seq(Records) /\ Len(records) \in Nat
      /\ Len(records) <= RecordsPage
      /\ Len(records) < RecordsPage => Len(all) <= before + Len(records)
      /\ records # <<>> => before + Len(records) <= Len(all)
      /\ \A i \in 1..Len(records) : records[i] = all[before + i]
  BY <1>1, PageOfRecords
<1>3. RecordsPage \in Nat /\ RecordsPage > 0
  BY EntryAssumption
<1>4. \A i \in 1..Len(all) : i <= before => all[i] \notin {"older", "shipped", "unreadable"}
  BY <1>1 DEF EntryInv, TurnedPagesAreQuiet
<1>5. \A i, j \in 1..Len(all) : i < j /\ all[i] = "older" => all[j] = "older"
  BY <1>1 DEF EntryInv, PullIsKnown
<1>6. ((page + 1) - 1) * RecordsPage = before + RecordsPage
  BY <1>1, NextPageFollows
<1>7. Settling(records) = 0 =>
         \A i \in 1..Len(records) : records[i] \notin {"shipped", "unreadable"}
  BY <1>2, SettlingFinds
<1> HIDE DEF records, all, before
<1>8. Settling(records) = 0 =>
         \A i \in 1..Len(all) : i <= before + Len(records) => all[i] \notin {"shipped", "unreadable"}
  <2> SUFFICES ASSUME Settling(records) = 0, NEW i \in 1..Len(all), i <= before + Len(records)
               PROVE  all[i] \notin {"shipped", "unreadable"}
    OBVIOUS
  <2>1. CASE i <= before
    BY <1>4, <2>1
  <2>2. CASE i > before
    <3>1. i - before \in 1..Len(records) /\ before + (i - before) = i
      BY <1>1, <1>2, <2>2
    <3> QED BY <1>2, <1>7, <3>1
  <2> QED BY <1>1, <1>2, <2>1, <2>2
<1>9. ASSUME records = <<>> PROVE ~Contains(all, "shipped")
  <2>1. Len(records) = 0
    BY <1>9
  <2>2. Len(all) <= before
    BY <1>1, <1>2, <1>3, <2>1
  <2> QED BY <1>1, <1>2, <1>4, <2>2 DEF Contains
<1>10. ASSUME records # <<>>, Settling(records) = 0, LastRecords(records)
       PROVE  ~Contains(all, "shipped")
  <2>1. CASE Len(records) < RecordsPage
    BY <1>1, <1>2, <1>8, <1>10, <2>1 DEF Contains
  <2>2. CASE Contains(records, "older")
    <3>1. PICK k \in 1..Len(records) : records[k] = "older"
      BY <2>2 DEF Contains
    <3>2. before + k \in 1..Len(all) /\ all[before + k] = "older" /\ before + k <= before + Len(records)
      BY <1>1, <1>2, <1>10, <3>1
    <3>3. ASSUME NEW i \in 1..Len(all) PROVE all[i] # "shipped"
      <4>1. CASE i <= before + k
        BY <1>1, <1>2, <1>8, <1>10, <3>2, <4>1
      <4>2. CASE i > before + k
        BY <1>5, <3>2, <4>2
      <4> QED BY <1>1, <1>2, <3>2, <4>1, <4>2
    <3> QED BY <3>3 DEF Contains
  <2> QED BY <1>10, <2>1, <2>2 DEF LastRecords
<1>11. ASSUME records # <<>>, Settling(records) = 0, ~LastRecords(records)
       PROVE  \A i \in 1..Len(all) :
                 i <= before + RecordsPage => all[i] \notin {"older", "shipped", "unreadable"}
  <2>1. Len(records) = RecordsPage /\ ~Contains(records, "older")
    BY <1>2, <1>3, <1>11 DEF LastRecords
  <2> SUFFICES ASSUME NEW i \in 1..Len(all), i <= before + RecordsPage
               PROVE  all[i] \notin {"older", "shipped", "unreadable"}
    OBVIOUS
  <2>2. CASE i <= before
    BY <1>4, <2>2
  <2>3. CASE i > before
    <3>1. i - before \in 1..Len(records) /\ before + (i - before) = i
      BY <1>1, <1>2, <1>3, <2>1, <2>3
    <3>2. all[i] # "older"
      BY <1>2, <2>1, <3>1 DEF Contains
    <3> QED BY <1>8, <1>11, <2>1, <3>2
  <2> QED BY <1>1, <1>2, <2>2, <2>3
<1> QED BY <1>1, <1>6, <1>9, <1>10, <1>11 DEF records, all

LEMMA ReadDeploymentsKeeps == EntryInv /\ ReadDeployments => EntryInv'
<1> SUFFICES ASSUME EntryInv, ReadDeployments PROVE EntryInv'
  OBVIOUS
<1> DEFINE records == OnPage
           first   == Settling(records)
<1>1. at = "deployments"
  BY DEF ReadDeployments
<1>2. "unknown" \in Notes /\ "unpublished" \in Notes /\ "" \in Notes /\ "deployed" \in Notes
  BY DEF Notes
<1> HIDE DEF records, first
<1>3. CASE Noted("unknown")
  BY <1>1, <1>2, <1>3, NotedKeeps
<1>4. CASE records = <<>> /\ Noted(IF page = 1 THEN "unpublished" ELSE "")
  <2>1. ~Contains(pull.deployed, "shipped")
    BY <1>1, <1>4, PagesTell DEF records
  <2> QED BY <1>1, <1>2, <1>4, <2>1, NotedKeeps
<1>5. CASE Noted(IF records[first] = "shipped" THEN "deployed" ELSE "unknown")
  BY <1>1, <1>2, <1>5, NotedKeeps
<1>6. CASE records # <<>> /\ first = 0 /\ LastRecords(records) /\ Noted("")
  <2>1. ~Contains(pull.deployed, "shipped")
    BY <1>1, <1>6, PagesTell DEF records, first
  <2> QED BY <1>1, <1>2, <1>6, <2>1, NotedKeeps
<1>7. CASE /\ records # <<>> /\ first = 0 /\ ~LastRecords(records)
           /\ page' = page + 1 /\ UNCHANGED <<at, pull, index, span, git, tier, note>>
  <2>1. \A i \in DOMAIN pull.deployed :
           i <= (page' - 1) * RecordsPage =>
              pull.deployed[i] \notin {"older", "shipped", "unreadable"}
    BY <1>1, <1>7, PagesTell DEF records, first
  <2>2. TurnedPagesAreQuiet'
    BY <1>1, <1>7, <2>1 DEF TurnedPagesAreQuiet, Unspanned
  <2>3. page' \in Nat \ {0}
    BY <1>7 DEF EntryInv, EntryTypeOK
  <2>5. EntryTypeOK'
    BY <1>7, <2>3 DEF EntryInv, EntryTypeOK
  <2>6. PullIsKnown' /\ WalkIsWhole'
    BY <1>1, <1>7 DEF EntryInv, PullIsKnown, WalkIsWhole
  <2>4. SpanIsWhole' /\ CleanIsMeasured' /\ ShippedIsTold'
    BY <1>1, <1>7 DEF EntryInv, SpanIsWhole, Landed, CleanIsMeasured, ShippedIsTold, Unspanned
  <2> QED BY <2>2, <2>4, <2>5, <2>6 DEF EntryInv
<1> QED BY <1>3, <1>4, <1>5, <1>6, <1>7 DEF ReadDeployments, records, first

LEMMA EntryInvHolds == EntrySpec => []EntryInv
<1>1. EntryInit => EntryInv
  <2> SUFFICES ASSUME EntryInit PROVE EntryInv
    OBVIOUS
  <2>1. /\ at = "idle" /\ index = 0 /\ span = Undetermined /\ git = NoAnswer /\ page = 1
        /\ tier = "" /\ note = "" /\ pull = NoSubject
    BY DEF EntryInit
  <2>2. /\ \A S : <<>> \in Seq(S)
        /\ Len(<<>>) = 0
        /\ DOMAIN <<>> = {}
    OBVIOUS
  <2>3. pull.own = <<>> /\ pull.deployed = <<>>
    BY <2>1, Zenon DEF NoSubject
  <2>4. 0 \in 0..MaxCommits /\ 0 <= MaxCommits
    BY EntryAssumption
  <2>5. EntryTypeOK
    <3>1. span \in Spans /\ git \in Answers
      BY <2>1 DEF Undetermined, Spans, NoAnswer, Answers, Reverts
    <3>2. pull.own \in Seq(Identities) /\ pull.deployed \in Seq(Records)
      BY <2>2, <2>3, Zenon
    <3>3. 1 \in Nat \ {0} /\ "" \in Tiers /\ "" \in Notes
      BY DEF Tiers, Notes
    <3>4. at \in {"idle", "commit", "commits", "walk", "measure", "deployments", "done", "failed"}
      BY <2>1
    <3> QED BY <2>1, <2>4, <3>1, <3>2, <3>3, <3>4, Zenon DEF EntryTypeOK
  <2>6. PullIsKnown
    <3>1. pull \in [strategy : Strategies, own : Seq(Identities), below : Seq(Identities),
                    reported : BOOLEAN, probed : BOOLEAN, deployed : Seq(Records)]
      BY <2>1, <2>2, Zenon DEF NoSubject, Strategies
    <3>2. Len(pull.own) <= MaxCommits /\ DOMAIN pull.deployed = {}
      BY <2>2, <2>3, <2>4, Zenon
    <3> QED BY <2>1, <3>1, <3>2, Zenon DEF PullIsKnown
  <2>7. WalkIsWhole /\ SpanIsWhole /\ CleanIsMeasured /\ TurnedPagesAreQuiet /\ ShippedIsTold
    BY <2>1 DEF WalkIsWhole, SpanIsWhole, CleanIsMeasured, TurnedPagesAreQuiet, ShippedIsTold,
                Unspanned
  <2> QED BY <2>5, <2>6, <2>7 DEF EntryInv
<1>2. EntryInv /\ [EntryNext]_entryVars => EntryInv'
  <2>1. ASSUME EntryInv, UNCHANGED entryVars PROVE EntryInv'
    <3>1. EntryTypeOK' /\ PullIsKnown'
      BY <2>1 DEF EntryInv, entryVars, EntryTypeOK, PullIsKnown
    <3>2. WalkIsWhole' /\ SpanIsWhole'
      BY <2>1 DEF EntryInv, entryVars, WalkIsWhole, Listed, SpanIsWhole, Landed
    <3>3. CleanIsMeasured' /\ TurnedPagesAreQuiet' /\ ShippedIsTold'
      BY <2>1 DEF EntryInv, entryVars, CleanIsMeasured, TurnedPagesAreQuiet, ShippedIsTold
    <3> QED BY <3>1, <3>2, <3>3 DEF EntryInv
  <2> QED BY <2>1, TakeKeeps, ReadCommitKeeps, ReadCommitsKeeps, WalkKeeps, MeasureKeeps,
             GitFailsKeeps, ReadDeploymentsKeeps DEF EntryNext
<1> QED BY <1>1, <1>2, PTL DEF EntrySpec

-----------------------------------------------------------------------------
(* The theorems.                                                           *)

\* The state of an entry stays in its types: the walk never leaves the listed
\* commits, and every price, note and answer is one of those there are.
THEOREM EntryTypeCorrect == EntrySpec => []EntryTypeOK
<1>1. EntryInv => EntryTypeOK
  BY DEF EntryInv
<1> QED BY <1>1, EntryInvHolds, PTL

\* merge_span: a span is everything the merge put on the branch, or it is
\* refused; whatever was listed, and however many commits there are.
THEOREM SpanIsWholeHolds == EntrySpec => []SpanIsWhole
<1>1. EntryInv => SpanIsWhole
  BY DEF EntryInv
<1> QED BY <1>1, EntryInvHolds, PTL

\* RevertProbe: an entry that says clean has reverted the whole of what landed,
\* without conflicts, and has counted what came after it.
THEOREM CheapIsEarnedHolds == EntrySpec => []CheapIsEarned
<1>1. EntryInv => CheapIsEarned
  BY DEF EntryInv, SpanIsWhole, CleanIsMeasured, CheapIsEarned, Unspanned
<1> QED BY <1>1, EntryInvHolds, PTL

\* deployment_note: however many records there are, and wherever on its pages
\* the covering one is, an entry that was probed tells that its merge shipped.
THEOREM ShippedIsToldHolds == EntrySpec => []ShippedIsTold
<1>1. EntryInv => ShippedIsTold
  BY DEF EntryInv
<1> QED BY <1>1, EntryInvHolds, PTL

=============================================================================
