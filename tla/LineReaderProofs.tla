-------------------------- MODULE LineReaderProofs --------------------------
(***************************************************************************)
(* What LineReader promises holds for files, spans and chunks of every     *)
(* size.  The induction is over the pieces: ReaderInv says what a consumer *)
(* that has got the first At bytes of the file knows of their lines, and   *)
(* what the generator still has in hand.                                   *)
(***************************************************************************)
EXTENDS LineReader, FiniteSetTheorems, TLAPS

-----------------------------------------------------------------------------
ReaderTypeOK ==
    /\ task \in Tasks /\ file \in Seq(Bytes)
    /\ span \in [first : Nat \ {0}, last : Nat \ {0}] /\ deepest \in Nat \ {0}
    /\ span.first <= span.last /\ span.last <= deepest
    /\ size \in Nat \ {0} /\ read \in 0..Len(file)
    /\ held \in Seq(Bytes) /\ chunk \in Seq(Bytes)
    /\ number \in Nat /\ unended \in BOOLEAN /\ taken \in Seq(Bytes) /\ over \in BOOLEAN
    /\ task = "idle" => read = 0 /\ held = <<>> /\ chunk = <<>> /\ taken = <<>>
                        /\ ~unended /\ ~over

\* How many bytes the consumer has got.
At == read - Len(held) - Len(chunk)

\* Then come the bytes held back, a line but for its last byte, then the rest of the read.
Window ==
    /\ At \in Nat
    /\ held = SubSeq(file, At + 1, At + Len(held))
    /\ chunk = SubSeq(file, At + Len(held) + 1, read)
    /\ held # <<>> =>
         /\ file[At + Len(held)] = "cr"
         /\ \A i \in (At + 1)..(At + Len(held) - 1) : i \notin LineEnds(file)

\* How many lines end in the first n bytes.
EndsIn(n) == {e \in LineEnds(file) : e <= n}
Ended(n) == Cardinality(EndsIn(n))

\* What the consumers know when they have got n bytes.
CountedTo(n) ==
    /\ number = Ended(n)
    /\ number <= deepest
    /\ unended <=> (n > 0 /\ n \notin LineEnds(file))
    /\ unended => number < deepest

TakenTo(n) ==
    /\ ~over => number = 1 + Ended(n)
    /\ \E a \in 1..(n + 1), b \in 0..n :
          /\ taken = SubSeq(file, a, b)
          /\ \A i \in 1..n : LineOf(i) \in span.first..span.last <=> i \in a..b
          /\ ~over /\ number < span.first => a = n + 1
          /\ ~over /\ number <= span.last => b = n

Read(n) ==
    /\ over => n = Len(file) \/ Ended(n) >= deepest
    /\ ~over => Ended(n) < deepest
    /\ task = "count" => CountedTo(n)
    /\ task = "take" => TakenTo(n)

ReaderInv == ReaderTypeOK /\ Window /\ Read(At)

-----------------------------------------------------------------------------
(* Sequences and minima.                                                   *)

LEMMA MinOfTwo ==
    ASSUME NEW a \in Int, NEW b \in Int
    PROVE  Min({a, b}) = IF a <= b THEN a ELSE b
BY DEF Min

\* A part of a sequence, element by element.
LEMMA PartIs ==
    ASSUME NEW S, NEW s \in Seq(S), NEW a \in Nat, NEW b \in a..Len(s)
    PROVE  /\ SubSeq(s, a + 1, b) \in Seq(S)
           /\ Len(SubSeq(s, a + 1, b)) = b - a
           /\ \A i \in 1..(b - a) : SubSeq(s, a + 1, b)[i] = s[a + i]
OBVIOUS

\* Parts that meet make one part.
LEMMA PartsMeet ==
    ASSUME NEW S, NEW s \in Seq(S), NEW a \in Nat, NEW b \in a..Len(s), NEW c \in b..Len(s)
    PROVE  SubSeq(s, a + 1, b) \o SubSeq(s, b + 1, c) = SubSeq(s, a + 1, c)
OBVIOUS

\* A part of a part.
LEMMA PartOfPart ==
    ASSUME NEW S, NEW s \in Seq(S), NEW a \in Nat, NEW b \in Nat, a <= b, b <= Len(s),
           NEW c \in Nat, NEW d \in Nat, c <= d, d <= b - a
    PROVE  SubSeq(SubSeq(s, a + 1, b), c + 1, d) = SubSeq(s, a + c + 1, a + d)
OBVIOUS

\* The lines of a part of a file end where they end in the file, but for its last byte.
LEMMA EndsOfPart ==
    ASSUME NEW s \in Seq(Bytes), NEW a \in Nat, NEW b \in a..Len(s), NEW i \in 1..(b - a)
    PROVE  LET c == SubSeq(s, a + 1, b) IN
           /\ c[i] = s[a + i]
           /\ i < b - a => (i \in LineEnds(c) <=> a + i \in LineEnds(s))
           /\ c[i] = "lf" => i \in LineEnds(c) /\ a + i \in LineEnds(s)
           /\ c[i] = "x" => i \notin LineEnds(c) /\ a + i \notin LineEnds(s)
<1> DEFINE c == SubSeq(s, a + 1, b)
<1>1. /\ c \in Seq(Bytes) /\ Len(c) = b - a /\ DOMAIN c = 1..(b - a)
      /\ \A j \in 1..(b - a) : c[j] = s[a + j]
  BY PartIs
<1> HIDE DEF c
<1>2. i < b - a => c[i + 1] = s[a + i + 1]
  BY <1>1
<1>3. a + i \in DOMAIN s /\ (i < b - a => a + i # Len(s))
  OBVIOUS
<1> SUFFICES /\ c[i] = s[a + i]
             /\ i < b - a => (i \in LineEnds(c) <=> a + i \in LineEnds(s))
             /\ c[i] = "lf" => i \in LineEnds(c) /\ a + i \in LineEnds(s)
             /\ c[i] = "x" => i \notin LineEnds(c) /\ a + i \notin LineEnds(s)
  BY DEF c
<1> QED BY <1>1, <1>2, <1>3 DEF LineEnds

-----------------------------------------------------------------------------
(* Counting lines.                                                         *)

LEMMA EndsAreCounted ==
    ASSUME file \in Seq(Bytes), NEW n \in Int
    PROVE  IsFiniteSet(EndsIn(n)) /\ Ended(n) \in Nat
<1>1. Len(file) \in Int /\ EndsIn(n) \in SUBSET (1..Len(file))
  BY DEF EndsIn, LineEnds
<1>2. IsFiniteSet(1..Len(file))
  BY <1>1, FS_Interval
<1>3. IsFiniteSet(EndsIn(n))
  BY <1>1, <1>2, FS_Subset
<1> QED BY <1>3, FS_CardinalityType DEF Ended

LEMMA EndsGrow ==
    ASSUME file \in Seq(Bytes), NEW n \in Int, NEW m \in Int, n <= m
    PROVE  Ended(n) <= Ended(m)
<1>1. EndsIn(n) \in SUBSET EndsIn(m)
  BY DEF EndsIn, LineEnds
<1>2. IsFiniteSet(EndsIn(m))
  BY EndsAreCounted
<1> QED BY <1>1, <1>2, FS_Subset DEF Ended

LEMMA NothingEnded ==
    ASSUME file \in Seq(Bytes)
    PROVE  Ended(0) = 0
<1>1. EndsIn(0) = {}
  BY DEF EndsIn, LineEnds
<1> QED BY <1>1, FS_EmptySet DEF Ended

\* The line of a byte is told by the ends before it.
LEMMA LineOfIs ==
    ASSUME file \in Seq(Bytes), NEW i \in Int
    PROVE  LineOf(i) = 1 + Ended(i - 1)
<1>1. {e \in LineEnds(file) : e < i} = EndsIn(i - 1)
  BY DEF EndsIn, LineEnds
<1> QED BY <1>1 DEF LineOf, Ended

\* A piece: bytes n + 1 to m, of which only the last may end a line.
IsPiece(n, m) ==
    /\ n \in Nat /\ m \in (n + 1)..Len(file)
    /\ \A i \in (n + 1)..(m - 1) : i \notin LineEnds(file)

LEMMA PieceIsOfOneLine ==
    ASSUME file \in Seq(Bytes), NEW n, NEW m, IsPiece(n, m)
    PROVE  /\ \A i \in (n + 1)..m : LineOf(i) = 1 + Ended(n)
           /\ Ended(m) = IF m \in LineEnds(file) THEN Ended(n) + 1 ELSE Ended(n)
<1>1. n \in Int /\ m \in Int
  BY DEF IsPiece
<1>2. ASSUME NEW i \in (n + 1)..m PROVE LineOf(i) = 1 + Ended(n)
  <2>1. EndsIn(i - 1) = EndsIn(n)
    BY <1>1 DEF EndsIn, LineEnds, IsPiece
  <2> QED BY <2>1, <1>1, LineOfIs DEF Ended
<1>3. CASE m \notin LineEnds(file)
  <2>1. EndsIn(m) = EndsIn(n)
    BY <1>1, <1>3 DEF EndsIn, LineEnds, IsPiece
  <2> QED BY <2>1, <1>2, <1>3 DEF Ended
<1>4. CASE m \in LineEnds(file)
  <2>1. EndsIn(m) = EndsIn(n) \union {m} /\ m \notin EndsIn(n)
    BY <1>1, <1>4 DEF EndsIn, LineEnds, IsPiece
  <2>2. IsFiniteSet(EndsIn(n))
    BY <1>1, EndsAreCounted
  <2>3. Cardinality(EndsIn(n) \union {m}) = Cardinality(EndsIn(n)) + 1
    BY <2>1, <2>2, FS_AddElement
  <2> QED BY <2>1, <2>3, <1>2, <1>4 DEF Ended
<1> QED BY <1>3, <1>4

-----------------------------------------------------------------------------
(* The consumers.                                                          *)

\* What does not change what a consumer knows.
Same == UNCHANGED <<task, file, span, deepest>>

\* A piece counted.
LEMMA CountedOn ==
    ASSUME ReaderTypeOK, ~over, Same,
           NEW n, NEW m, IsPiece(n, m), CountedTo(n), Ended(n) < deepest,
           NEW ends \in BOOLEAN, ends <=> m \in LineEnds(file), Counted(ends)
    PROVE  /\ CountedTo(m)'
           /\ over' => (Ended(m) >= deepest)'
           /\ ~over' => (Ended(m) < deepest)'
           /\ number' \in Nat /\ unended' \in BOOLEAN /\ over' \in BOOLEAN
           /\ taken' \in Seq(Bytes)
<1>1. Ended(m) = (IF ends THEN Ended(n) + 1 ELSE Ended(n)) /\ Ended(n) \in Nat
  <2>1. n \in Int
    BY DEF IsPiece
  <2> QED BY <2>1, PieceIsOfOneLine, EndsAreCounted DEF ReaderTypeOK
<1>2. m \in Nat /\ m > 0
  BY DEF IsPiece, ReaderTypeOK
<1>3. LineEnds(file)' = LineEnds(file) /\ Ended(m)' = Ended(m)
  BY DEF Same, Ended, EndsIn, LineEnds
<1>4. number = Ended(n) /\ deepest \in Nat /\ deepest' = deepest /\ taken \in Seq(Bytes)
  BY DEF CountedTo, ReaderTypeOK, Same
<1>5. /\ unended' \in BOOLEAN /\ over' \in BOOLEAN /\ taken' = taken
      /\ unended' <=> ~ends
      /\ number' = (IF ends THEN number + 1 ELSE number)
      /\ over' <=> ends /\ number + 1 >= deepest
  BY DEF Counted
<1>6. number' = Ended(m) /\ number' <= deepest /\ (unended' => number' < deepest)
  <2>1. CASE ends
    <3>1. number' = Ended(n) + 1 /\ Ended(m) = Ended(n) + 1
      BY <2>1, <1>1, <1>4, <1>5
    <3>2. number' <= deepest
      BY <3>1, <1>1, <1>4
    <3>3. ~unended'
      BY <2>1, <1>5
    <3> QED BY <3>1, <3>2, <3>3
  <2>2. CASE ~ends
    <3>1. number' = Ended(n) /\ Ended(m) = Ended(n)
      BY <2>2, <1>1, <1>4, <1>5
    <3>2. number' < deepest
      BY <3>1
    <3> QED BY <3>1, <3>2, <1>1, <1>4
  <2> QED BY <2>1, <2>2
<1>7. unended' <=> (m > 0 /\ m \notin LineEnds(file))
  BY <1>2, <1>5
<1>8. CountedTo(m)'
  BY <1>3, <1>4, <1>6, <1>7 DEF CountedTo
<1>9. over' <=> Ended(m) >= deepest
  BY <1>1, <1>4, <1>5
<1>10. number' \in Nat
  BY <1>1, <1>4, <1>5
<1> QED BY <1>1, <1>3, <1>4, <1>5, <1>8, <1>9, <1>10

\* A piece taken or passed over.
LEMMA TakenOn ==
    ASSUME ReaderTypeOK, ~over, Same,
           NEW n, NEW m, IsPiece(n, m), TakenTo(n), Ended(n) < deepest,
           NEW ends \in BOOLEAN, ends <=> m \in LineEnds(file),
           Taken(SubSeq(file, n + 1, m), ends)
    PROVE  /\ TakenTo(m)'
           /\ over' => (Ended(m) >= deepest)'
           /\ ~over' => (Ended(m) < deepest)'
           /\ number' \in Nat /\ unended' \in BOOLEAN /\ over' \in BOOLEAN
           /\ taken' \in Seq(Bytes)
<1> DEFINE In(i) == LineOf(i) \in span.first..span.last
           piece == SubSeq(file, n + 1, m)
<1>1. Ended(m) = (IF ends THEN Ended(n) + 1 ELSE Ended(n)) /\ Ended(n) \in Nat
  <2>1. n \in Int
    BY DEF IsPiece
  <2> QED BY <2>1, PieceIsOfOneLine, EndsAreCounted DEF ReaderTypeOK
<1>2. n \in Nat /\ m \in Nat /\ n < m /\ m <= Len(file) /\ n \in Int
  BY DEF IsPiece, ReaderTypeOK
<1>3. Ended(m)' = Ended(m) /\ \A i : LineOf(i)' = LineOf(i)
  BY DEF Same, Ended, EndsIn, LineEnds, LineOf
<1>4. number = 1 + Ended(n) /\ number <= deepest /\ number \in Nat
  BY <1>1 DEF TakenTo, ReaderTypeOK
<1>5. \A i \in (n + 1)..m : In(i) <=> number \in span.first..span.last
  BY <1>4, PieceIsOfOneLine DEF ReaderTypeOK
<1>6. piece \in Seq(Bytes)
  BY <1>2, PartIs DEF ReaderTypeOK
<1>7. /\ span.first \in Nat \ {0} /\ span.last \in Nat \ {0}
      /\ span.first <= span.last /\ span.last <= deepest
      /\ deepest \in Nat /\ taken \in Seq(Bytes) /\ file \in Seq(Bytes)
  BY DEF ReaderTypeOK
<1>8. /\ over' \in BOOLEAN
      /\ over' <=> ends /\ number >= deepest
      /\ number' = (IF ends /\ number < deepest THEN number + 1 ELSE number)
      /\ taken' = (IF number \in span.first..span.last THEN taken \o piece ELSE taken)
      /\ unended' = unended
  BY DEF Taken
<1>9. PICK a \in 1..(n + 1), b \in 0..n :
        /\ taken = SubSeq(file, a, b)
        /\ \A i \in 1..n : In(i) <=> i \in a..b
        /\ ~over /\ number < span.first => a = n + 1
        /\ ~over /\ number <= span.last => b = n
  BY DEF TakenTo
<1> HIDE DEF In, piece
<1> DEFINE Spans(c, d) ==
             /\ taken' = SubSeq(file, c, d)
             /\ \A i \in 1..m : In(i) <=> i \in c..d
             /\ ~over' /\ number' < span.first => c = m + 1
             /\ ~over' /\ number' <= span.last => d = m
<1>10. \E c \in 1..(m + 1), d \in 0..m : Spans(c, d)
  <2>1. CASE number < span.first
    <3>1. taken' = SubSeq(file, m + 1, m)
      BY <2>1, <1>9, <1>8, <1>7, <1>4, <1>2
    <3>2. \A i \in 1..m : In(i) <=> i \in (m + 1)..m
      BY <2>1, <1>9, <1>5, <1>7, <1>4, <1>2
    <3>3. Spans(m + 1, m)
      BY <3>1, <3>2
    <3> HIDE DEF Spans
    <3>4. m + 1 \in 1..(m + 1) /\ m \in 0..m
      BY <1>2
    <3> QED BY <3>3, <3>4
  <2>2. CASE number \in span.first..span.last
    <3>1. b = n /\ a - 1 \in Nat /\ a - 1 <= n /\ a \in 1..(m + 1) /\ m \in 0..m
      BY <2>2, <1>9, <1>7, <1>4, <1>2
    <3>2. SubSeq(file, (a - 1) + 1, n) \o SubSeq(file, n + 1, m) = SubSeq(file, (a - 1) + 1, m)
      BY <3>1, <1>2, <1>7, PartsMeet
    <3>3. taken' = SubSeq(file, a, m)
      <4>1. (a - 1) + 1 = a
        OBVIOUS
      <4> QED BY <4>1, <3>1, <3>2, <2>2, <1>9, <1>8 DEF piece
    <3>4. \A i \in 1..m : In(i) <=> i \in a..m
      BY <3>1, <2>2, <1>9, <1>5, <1>2
    <3>5. ~(number' < span.first)
      BY <2>2, <1>8, <1>4, <1>7
    <3>6. Spans(a, m)
      BY <3>3, <3>4, <3>5
    <3> HIDE DEF Spans
    <3> QED BY <3>1, <3>6
  <2>3. CASE number > span.last
    <3>1. taken' = SubSeq(file, a, b)
      BY <2>3, <1>9, <1>8, <1>7, <1>4
    <3>2. \A i \in 1..m : In(i) <=> i \in a..b
      BY <2>3, <1>9, <1>5, <1>7, <1>4, <1>2
    <3>3. ~(number' <= span.last) /\ ~(number' < span.first)
      BY <2>3, <1>8, <1>4, <1>7
    <3>4. Spans(a, b) /\ a \in 1..(m + 1) /\ b \in 0..m
      BY <3>1, <3>2, <3>3, <1>2
    <3> HIDE DEF Spans
    <3> QED BY <3>4
  <2> HIDE DEF Spans
  <2> QED BY <2>1, <2>2, <2>3, <1>4, <1>7
<1>11. ~over' => number' = 1 + Ended(m)
  BY <1>1, <1>4, <1>7, <1>8
<1>12. TakenTo(m)'
  BY <1>10, <1>11, <1>3 DEF TakenTo, In, Same
<1>13. taken' \in Seq(Bytes)
  BY <1>6, <1>7, <1>8
<1> QED BY <1>1, <1>3, <1>4, <1>7, <1>8, <1>12, <1>13 DEF ReaderTypeOK, Same

\* Either way the consumer knows more when it has got a piece.
LEMMA YieldOn ==
    ASSUME ReaderTypeOK, Asked,
           NEW n, NEW m, IsPiece(n, m), Read(n),
           NEW ends \in BOOLEAN, ends <=> m \in LineEnds(file),
           Yield(SubSeq(file, n + 1, m), ends)
    PROVE  /\ Read(m)'
           /\ number' \in Nat /\ unended' \in BOOLEAN /\ over' \in BOOLEAN
           /\ taken' \in Seq(Bytes)
<1>1. ~over /\ Same /\ task' = task
  BY DEF Asked, Same
<1>2. Ended(n) < deepest
  BY <1>1 DEF Read
<1>3. CASE task = "count" /\ Counted(ends)
  BY <1>1, <1>2, <1>3, CountedOn DEF Read
<1>4. CASE task = "take" /\ Taken(SubSeq(file, n + 1, m), ends)
  BY <1>1, <1>2, <1>4, TakenOn DEF Read
<1> QED BY <1>3, <1>4 DEF Yield

\* Nothing yielded, nothing learned.
LEMMA ReadStands ==
    ASSUME NEW n, Read(n), UNCHANGED consumerVars, UNCHANGED <<task, file, span, deepest>>
    PROVE  Read(n)'
BY DEF Read, CountedTo, TakenTo, Ended, EndsIn, LineEnds, LineOf, consumerVars

-----------------------------------------------------------------------------
(* The generator.                                                          *)

LEMMA OpenHolds ==
    ASSUME ReaderAssumption, ReaderInv, Open
    PROVE  ReaderInv'
<1>1. /\ task' \in Tasks /\ task' # "idle"
      /\ file' \in Seq(Bytes) /\ size' \in Nat \ {0}
      /\ read' = 0 /\ held' = <<>> /\ chunk' = <<>>
      /\ taken' = <<>> /\ unended' = FALSE /\ over' = FALSE
      /\ number' = (IF task' = "take" THEN 1 ELSE 0)
  <2>1. file' \in Seq(Bytes)
    BY DEF Open, BoundedSeq, SeqOf, ReaderAssumption
  <2> QED BY <2>1 DEF Open, ReaderInv, ReaderTypeOK, ReaderAssumption
<1>2. /\ deepest' \in Nat \ {0}
      /\ span' \in [first : Nat \ {0}, last : Nat \ {0}]
      /\ span'.first <= span'.last /\ span'.last <= deepest'
  <2>1. deepest' \in 1..(MaxBytes + 1)
    BY DEF Open
  <2>2. PICK last \in 1..deepest' :
            \E first \in 1..last : span' = [first |-> first, last |-> last]
    BY DEF Open
  <2>3. PICK first \in 1..last : span' = [first |-> first, last |-> last]
    BY <2>2
  <2> QED BY <2>1, <2>2, <2>3 DEF ReaderAssumption
<1>3. ReaderTypeOK'
  <2>1. read' \in 0..Len(file') /\ number' \in Nat
    BY <1>1
  <2>2. held' \in Seq(Bytes) /\ chunk' \in Seq(Bytes) /\ taken' \in Seq(Bytes)
    BY <1>1
  <2> QED BY <1>1, <1>2, <2>1, <2>2 DEF ReaderTypeOK
<1>4. At' = 0
  <2>1. read' = 0 /\ Len(held') = 0 /\ Len(chunk') = 0
    BY <1>1
  <2>2. At' = read' - Len(held') - Len(chunk')
    BY DEF At
  <2> QED BY <2>1, <2>2
<1>5. Window'
  BY <1>1, <1>4 DEF Window
<1>6. (Ended(0) = 0)'
  <2>1. EndsIn(0)' = {}
    BY <1>1 DEF EndsIn, LineEnds
  <2> QED BY <2>1, FS_EmptySet DEF Ended
<1>7. Read(0)'
  <2>1. CountedTo(0)' \/ task' # "count"
    BY <1>1, <1>2, <1>6 DEF CountedTo
  <2>2. TakenTo(0)' \/ task' # "take"
    <3>1. taken' = SubSeq(file, 1, 0)'
      BY <1>1
    <3>2. \E a \in 1..1, b \in 0..0 : taken' = SubSeq(file, a, b)' /\ a = 1 /\ b = 0
      BY <3>1
    <3> QED BY <3>2, <1>1, <1>6 DEF TakenTo
  <2> QED BY <2>1, <2>2, <1>1, <1>2, <1>6 DEF Read
<1> QED BY <1>3, <1>4, <1>5, <1>7 DEF ReaderInv

LEMMA ReadChunkHolds ==
    ASSUME ReaderInv, ReadChunk
    PROVE  ReaderInv'
<1>1. /\ chunk = <<>> /\ read < Len(file) /\ chunk' = SubSeq(file, read + 1, read')
      /\ UNCHANGED <<task, file, span, deepest, size, held>> /\ UNCHANGED consumerVars
      /\ task # "idle" /\ ~over
  BY DEF ReadChunk, Asked, consumerVars
<1>2. file \in Seq(Bytes) /\ read \in Nat /\ held \in Seq(Bytes) /\ size \in Nat \ {0}
  BY DEF ReaderInv, ReaderTypeOK
<1>3. read' \in (read + 1)..Len(file)
  <2>1. read' = IF read + size <= Len(file) THEN read + size ELSE Len(file)
    BY <1>2, MinOfTwo DEF ReadChunk
  <2> QED BY <2>1, <1>1, <1>2
<1>4. chunk' \in Seq(Bytes) /\ Len(chunk') = read' - read
  BY <1>1, <1>2, <1>3, PartIs
<1>5. At' = At /\ read = At + Len(held) /\ At \in Nat
  BY <1>1, <1>2, <1>3, <1>4 DEF At, ReaderInv, Window
<1>6. ReaderTypeOK'
  <2>1. read' \in 0..Len(file) /\ task' # "idle"
    BY <1>1, <1>2, <1>3
  <2> QED BY <1>1, <1>4, <2>1 DEF ReaderInv, ReaderTypeOK, consumerVars
<1>7. Window'
  BY <1>1, <1>5 DEF ReaderInv, Window
<1>8. Read(At)'
  <2>1. PICK n : n = At
    OBVIOUS
  <2>2. Read(n)'
    BY <1>1, <2>1, ReadStands DEF ReaderInv
  <2> QED BY <1>5, <2>1, <2>2
<1> QED BY <1>6, <1>7, <1>8 DEF ReaderInv

\* What is held back, and the \n that belongs to it or not.
LEMMA YieldHeldHolds ==
    ASSUME ReaderInv, YieldHeld
    PROVE  ReaderInv'
<1>1. /\ held # <<>> /\ chunk # <<>> /\ held' = <<>> /\ read' = read
      /\ UNCHANGED <<task, file, span, deepest, size>>
      /\ task # "idle" /\ ~over
  BY DEF YieldHeld, Asked
<1>2. /\ file \in Seq(Bytes) /\ read \in 0..Len(file)
      /\ held \in Seq(Bytes) /\ chunk \in Seq(Bytes)
  BY DEF ReaderInv, ReaderTypeOK
<1>3. PICK n, h : n = At /\ h = n + Len(held)
  OBVIOUS
<1>4. /\ n \in Nat /\ h \in Nat /\ n < h /\ h < read /\ read = h + Len(chunk)
      /\ Len(held) = h - n
  BY <1>1, <1>2, <1>3 DEF ReaderInv, Window, At
<1>5. /\ held = SubSeq(file, n + 1, h) /\ chunk = SubSeq(file, h + 1, read)
      /\ file[h] = "cr" /\ \A i \in (n + 1)..(h - 1) : i \notin LineEnds(file)
  BY <1>1, <1>3 DEF ReaderInv, Window
<1>6. Head(chunk) = file[h + 1]
  <2>1. \A i \in 1..(read - h) : SubSeq(file, h + 1, read)[i] = file[h + i]
    BY <1>2, <1>4, PartIs
  <2> QED BY <2>1, <1>2, <1>4, <1>5
<1>7. CASE Head(chunk) = "lf"
  <2>1. chunk' = Tail(chunk) /\ Yield(Append(held, "lf"), TRUE)
    BY <1>7 DEF YieldHeld
  <2>2. IsPiece(n, h + 1) /\ h + 1 \in LineEnds(file)
    BY <1>2, <1>4, <1>5, <1>6, <1>7 DEF IsPiece, LineEnds
  <2>3. Append(held, "lf") = SubSeq(file, n + 1, h + 1)
    BY <1>2, <1>4, <1>5, <1>6, <1>7
  <2>4. chunk' = SubSeq(file, h + 2, read) /\ chunk' \in Seq(Bytes)
        /\ Len(chunk') = Len(chunk) - 1
    BY <2>1, <1>1, <1>2, <1>4, <1>5
  <2>5. /\ Read(h + 1)'
        /\ number' \in Nat /\ unended' \in BOOLEAN /\ over' \in BOOLEAN
        /\ taken' \in Seq(Bytes)
    BY <2>1, <2>2, <2>3, <1>3, YieldOn DEF ReaderInv, YieldHeld
  <2>6. At' = h + 1
    <3>1. At' = read' - Len(held') - Len(chunk')
      BY DEF At
    <3>2. Len(held') = 0 /\ Len(chunk') = read - h - 1 /\ read' = read
      BY <2>4, <1>1, <1>4
    <3> QED BY <3>1, <3>2, <1>2, <1>4
  <2>7. Window'
    BY <2>4, <2>6, <1>1, <1>4 DEF Window
  <2>8. ReaderTypeOK'
    BY <2>4, <2>5, <1>1, <1>2 DEF ReaderInv, ReaderTypeOK
  <2> QED BY <2>5, <2>6, <2>7, <2>8 DEF ReaderInv
<1>8. CASE Head(chunk) # "lf"
  <2>1. chunk' = chunk /\ Yield(held, TRUE)
    BY <1>8 DEF YieldHeld
  <2>2. IsPiece(n, h) /\ h \in LineEnds(file)
    BY <1>2, <1>4, <1>5, <1>6, <1>8 DEF IsPiece, LineEnds
  <2>3. /\ Read(h)'
        /\ number' \in Nat /\ unended' \in BOOLEAN /\ over' \in BOOLEAN
        /\ taken' \in Seq(Bytes)
    BY <2>1, <2>2, <1>3, <1>5, YieldOn DEF ReaderInv, YieldHeld
  <2>4. At' = h
    BY <2>1, <1>1, <1>2, <1>4 DEF At
  <2>5. Window'
    BY <2>1, <2>4, <1>1, <1>4, <1>5 DEF Window
  <2>6. ReaderTypeOK'
    BY <2>1, <2>3, <1>1, <1>2 DEF ReaderInv, ReaderTypeOK
  <2> QED BY <2>3, <2>4, <2>5, <2>6 DEF ReaderInv
<1> QED BY <1>7, <1>8

\* The first line of what is in hand: all of it, or held back.
LEMMA YieldLineHolds ==
    ASSUME ReaderInv, YieldLine
    PROVE  ReaderInv'
<1>1. /\ held = <<>> /\ read' = read
      /\ UNCHANGED <<task, file, span, deepest, size>>
      /\ task # "idle" /\ ~over
  BY DEF YieldLine, Asked
<1>2. /\ file \in Seq(Bytes) /\ read \in 0..Len(file) /\ chunk \in Seq(Bytes)
  BY DEF ReaderInv, ReaderTypeOK
<1>3. PICK n : n = At
  OBVIOUS
<1>4. n \in Nat /\ read = n + Len(chunk) /\ chunk = SubSeq(file, n + 1, read)
  BY <1>1, <1>2, <1>3 DEF ReaderInv, Window, At
<1>5. PICK k \in DOMAIN chunk :
        /\ FirstLine(chunk, k)
        /\ chunk' = SubSeq(chunk, k + 1, Len(chunk))
        /\ \/ HeldBack(k) /\ held' = chunk /\ UNCHANGED consumerVars
           \/ /\ ~HeldBack(k)
              /\ UNCHANGED held
              /\ Yield(SubSeq(chunk, 1, k), k \in LineEnds(chunk))
  BY DEF YieldLine
<1>6. k \in 1..(read - n) /\ Len(chunk) = read - n
  BY <1>2, <1>4
<1>7. IsPiece(n, n + k)
  <2>1. ASSUME NEW i \in (n + 1)..(n + k - 1) PROVE i \notin LineEnds(file)
    <3>1. i - n \in 1..(k - 1) /\ i - n \in 1..(read - n) /\ i - n < read - n /\ n + (i - n) = i
      BY <1>4, <1>6
    <3>2. i - n \notin LineEnds(chunk)
      BY <3>1, <1>5 DEF FirstLine
    <3>3. read \in n..Len(file) /\ read - n \in Nat
      BY <1>2, <1>4
    <3>4. i - n < read - n =>
            (i - n \in LineEnds(SubSeq(file, n + 1, read)) <=> n + (i - n) \in LineEnds(file))
      BY <3>1, <3>3, <1>2, <1>4, EndsOfPart
    <3> QED BY <3>1, <3>2, <3>4, <1>4
  <2> QED BY <2>1, <1>2, <1>4, <1>6 DEF IsPiece
<1>8. /\ chunk' = SubSeq(file, n + k + 1, read) /\ chunk' \in Seq(Bytes)
      /\ Len(chunk') = read - n - k
  <2>1. chunk' = SubSeq(file, n + k + 1, n + (read - n))
    <3>1. n \in Nat /\ k \in Nat /\ read \in Nat /\ read - n \in Nat
          /\ n <= read /\ read <= Len(file) /\ k <= read - n
      BY <1>2, <1>4, <1>6
    <3>2. PICK m \in Nat, j \in Nat, b \in Nat, d \in Nat :
             m = n /\ j = k /\ b = read /\ d = read - n
      BY <3>1
    <3>3. m <= b /\ b <= Len(file) /\ j <= d /\ d <= b - m /\ file \in Seq(Bytes)
      BY <3>1, <3>2, <1>2
    <3>4. SubSeq(SubSeq(file, m + 1, b), j + 1, d) = SubSeq(file, m + j + 1, m + d)
      BY <3>3, PartOfPart
    <3> QED BY <3>2, <3>4, <1>4, <1>5, <1>6
  <2>2. chunk' = SubSeq(file, (n + k) + 1, read)
    BY <2>1, <1>2, <1>4, <1>6
  <2>3. chunk' \in Seq(Bytes) /\ Len(chunk') = read - (n + k)
    <3>1. n + k \in Nat /\ read \in (n + k)..Len(file)
      BY <1>2, <1>4, <1>6
    <3> QED BY <3>1, <2>2, <1>2, PartIs
  <2> QED BY <2>2, <2>3, <1>4, <1>6
<1>9. CASE HeldBack(k) /\ held' = chunk /\ UNCHANGED consumerVars
  <2>1. k = read - n /\ n + k = read /\ file[n + k] = "cr"
    BY <1>2, <1>4, <1>6, <1>9, EndsOfPart DEF HeldBack
  <2>2. At' = n
    BY <2>1, <1>1, <1>2, <1>4, <1>6, <1>8, <1>9 DEF At
  <2>3. Window'
    <3>1. held' = SubSeq(file, n + 1, n + Len(held'))
      BY <2>1, <1>4, <1>6, <1>9
    <3>2. chunk' = SubSeq(file, n + Len(held') + 1, read)
      BY <2>1, <1>6, <1>8, <1>9
    <3>3. \A i \in (n + 1)..(n + Len(held') - 1) : i \notin LineEnds(file)
      BY <2>1, <1>6, <1>7, <1>9 DEF IsPiece
    <3>4. file[n + Len(held')] = "cr"
      BY <2>1, <1>6, <1>9
    <3> QED BY <3>1, <3>2, <3>3, <3>4, <2>2, <1>1, <1>4 DEF Window
  <2>4. Read(n)'
    BY <1>1, <1>3, <1>9, ReadStands DEF ReaderInv
  <2>5. ReaderTypeOK'
    BY <1>1, <1>2, <1>8, <1>9 DEF ReaderInv, ReaderTypeOK, consumerVars
  <2> QED BY <2>2, <2>3, <2>4, <2>5 DEF ReaderInv
<1>10. CASE ~HeldBack(k) /\ held' = held /\ Yield(SubSeq(chunk, 1, k), k \in LineEnds(chunk))
  <2>1. PICK ends \in BOOLEAN : ends = (k \in LineEnds(chunk))
    <3>1. CASE k \in LineEnds(chunk)
      <4>1. TRUE = (k \in LineEnds(chunk))
        BY <3>1
      <4> QED BY <4>1, Zenon
    <3>2. CASE k \notin LineEnds(chunk)
      <4>1. FALSE = (k \in LineEnds(chunk))
        BY <3>2
      <4> QED BY <4>1, Zenon
    <3> QED BY <3>1, <3>2
  <2>2. ends <=> n + k \in LineEnds(file)
    <3> DEFINE part == SubSeq(file, n + 1, read)
    <3>3. /\ k < read - n => (k \in LineEnds(part) <=> n + k \in LineEnds(file))
          /\ part[k] = "lf" => k \in LineEnds(part) /\ n + k \in LineEnds(file)
          /\ part[k] = "x" => k \notin LineEnds(part) /\ n + k \notin LineEnds(file)
      <4>1. read \in n..Len(file)
        BY <1>2, <1>4
      <4> QED BY <4>1, <1>2, <1>4, <1>6, EndsOfPart
    <3>4. part = chunk
      BY <1>4
    <3> HIDE DEF part
    <3>1. CASE k < read - n
      BY <3>1, <3>3, <3>4, <2>1
    <3>2. CASE k = read - n
      <4>1. chunk[k] = "lf" \/ chunk[k] = "x"
        BY <3>2, <1>2, <1>6, <1>10 DEF HeldBack, Bytes
      <4> QED BY <4>1, <3>3, <3>4, <2>1
    <3> QED BY <3>1, <3>2, <1>4, <1>6
  <2>3. SubSeq(chunk, 1, k) = SubSeq(file, n + 1, n + k)
    <3>1. SubSeq(chunk, 0 + 1, k) = SubSeq(file, n + 0 + 1, n + k)
      BY <1>2, <1>4, <1>6, PartOfPart
    <3> QED BY <3>1, <1>4
  <2>4. /\ Read(n + k)'
        /\ number' \in Nat /\ unended' \in BOOLEAN /\ over' \in BOOLEAN
        /\ taken' \in Seq(Bytes)
    BY <2>1, <2>2, <2>3, <1>3, <1>7, <1>10, YieldOn DEF ReaderInv, YieldLine
  <2>5. At' = n + k
    BY <1>1, <1>2, <1>4, <1>6, <1>8, <1>10 DEF At
  <2>6. Window'
    <3>1. held' = <<>> /\ Len(held') = 0 /\ read' = read
      BY <1>1, <1>10
    <3>2. held' = SubSeq(file', (n + k) + 1, (n + k) + Len(held'))
      BY <3>1, <1>4, <1>6
    <3>3. chunk' = SubSeq(file', (n + k) + Len(held') + 1, read')
      <4>1. (n + k) + Len(held') + 1 = n + k + 1
        BY <3>1, <1>2, <1>4, <1>6
      <4>2. file' = file
        BY <1>1
      <4> QED BY <4>1, <4>2, <3>1, <1>8
    <3>4. n + k \in Nat
      BY <1>2, <1>4, <1>6
    <3> QED BY <3>1, <3>2, <3>3, <3>4, <2>5 DEF Window
  <2>7. ReaderTypeOK'
    BY <2>4, <1>1, <1>2, <1>8, <1>10 DEF ReaderInv, ReaderTypeOK
  <2> QED BY <2>4, <2>5, <2>6, <2>7 DEF ReaderInv
<1> QED BY <1>5, <1>9, <1>10

\* What is held back at the end of the file is its last line.
LEMMA YieldLeftHolds ==
    ASSUME ReaderInv, YieldLeft
    PROVE  ReaderInv'
<1>1. /\ held # <<>> /\ chunk = <<>> /\ held' = <<>> /\ chunk' = chunk
      /\ read = Len(file) /\ read' = read /\ Yield(held, TRUE)
      /\ UNCHANGED <<task, file, span, deepest, size>>
      /\ task # "idle" /\ ~over
  BY DEF YieldLeft, Asked
<1>2. /\ file \in Seq(Bytes) /\ held \in Seq(Bytes) /\ chunk \in Seq(Bytes)
  BY DEF ReaderInv, ReaderTypeOK
<1>3. PICK n, h : n = At /\ h = n + Len(held)
  OBVIOUS
<1>4. n \in Nat /\ h \in Nat /\ n < h /\ h = Len(file)
  BY <1>1, <1>2, <1>3 DEF ReaderInv, Window, At
<1>5. /\ held = SubSeq(file, n + 1, h) /\ file[h] = "cr"
      /\ \A i \in (n + 1)..(h - 1) : i \notin LineEnds(file)
  BY <1>1, <1>3 DEF ReaderInv, Window
<1>6. IsPiece(n, h) /\ h \in LineEnds(file)
  BY <1>2, <1>4, <1>5 DEF IsPiece, LineEnds
<1>7. /\ Read(h)'
      /\ number' \in Nat /\ unended' \in BOOLEAN /\ over' \in BOOLEAN
      /\ taken' \in Seq(Bytes)
  BY <1>1, <1>3, <1>5, <1>6, YieldOn DEF ReaderInv, YieldLeft
<1>8. At' = h
  <2>1. At' = read' - Len(held') - Len(chunk')
    BY DEF At
  <2>2. Len(held') = 0 /\ Len(chunk') = 0 /\ read' = h
    BY <1>1, <1>4
  <2> QED BY <2>1, <2>2, <1>4
<1>9. Window'
  <2>1. /\ held' = SubSeq(file', h + 1, h + Len(held'))
        /\ chunk' = SubSeq(file', h + Len(held') + 1, read')
    BY <1>1, <1>4
  <2> QED BY <2>1, <1>1, <1>4, <1>8 DEF Window
<1>10. ReaderTypeOK'
  BY <1>1, <1>2, <1>7 DEF ReaderInv, ReaderTypeOK
<1> QED BY <1>7, <1>8, <1>9, <1>10 DEF ReaderInv

LEMMA ReadEndHolds ==
    ASSUME ReaderInv, ReadEnd
    PROVE  ReaderInv'
<1>1. /\ held = <<>> /\ chunk = <<>> /\ read = Len(file) /\ over' = TRUE
      /\ UNCHANGED <<task, file, span, deepest, size, read, held, chunk, number, unended, taken>>
      /\ task # "idle" /\ ~over
  BY DEF ReadEnd, Asked
<1>2. PICK n : n = At
  OBVIOUS
<1>3. n = Len(file) /\ Read(n)
  <2>1. Len(held) = 0 /\ Len(chunk) = 0 /\ Len(file) \in Nat
    BY <1>1 DEF ReaderInv, ReaderTypeOK
  <2> QED BY <2>1, <1>1, <1>2 DEF At, ReaderInv
<1>4. Read(n)'
  <2>1. task = "count" => CountedTo(n)'
    BY <1>1, <1>3 DEF Read, CountedTo, Ended, EndsIn, LineEnds
  <2>2. task = "take" => TakenTo(n)'
    <3>1. /\ Ended(n)' = Ended(n) /\ \A i : LineOf(i)' = LineOf(i)
          /\ UNCHANGED <<span, number, taken, file>> /\ over' = TRUE /\ ~over
      BY <1>1 DEF Ended, EndsIn, LineEnds, LineOf
    <3>2. task = "take" =>
            \E a \in 1..(n + 1), b \in 0..n :
              /\ taken = SubSeq(file, a, b)
              /\ \A i \in 1..n : LineOf(i) \in span.first..span.last <=> i \in a..b
      BY <1>3 DEF Read, TakenTo
    <3> QED BY <3>1, <3>2 DEF TakenTo
  <2> QED BY <2>1, <2>2, <1>1, <1>3 DEF Read
<1>5. At' = n
  BY <1>1, <1>2 DEF At
<1>6. Window' /\ ReaderTypeOK'
  BY <1>1 DEF ReaderInv, Window, At, ReaderTypeOK, LineEnds
<1> QED BY <1>4, <1>5, <1>6 DEF ReaderInv

LEMMA ReaderStands ==
    ASSUME ReaderInv, UNCHANGED fileVars
    PROVE  ReaderInv'
<1>1. UNCHANGED <<task, file, span, deepest, size, read, held, chunk>>
      /\ UNCHANGED <<number, unended, taken, over>>
  BY DEF fileVars
<1>2. PICK n : n = At
  OBVIOUS
<1>3. Read(n)'
  BY <1>1, <1>2, ReadStands DEF ReaderInv, consumerVars
<1>4. At' = n
  BY <1>1, <1>2 DEF At
<1>5. Window' /\ ReaderTypeOK'
  BY <1>1 DEF ReaderInv, Window, At, ReaderTypeOK, LineEnds
<1> QED BY <1>3, <1>4, <1>5 DEF ReaderInv

LEMMA ReaderStarts ==
    ASSUME ReaderInit
    PROVE  ReaderInv
<1>1. ReaderTypeOK
  <2>1. /\ span = [first |-> 1, last |-> 1] /\ deepest = 1 /\ size = 1 /\ number = 0
        /\ file = <<>> /\ held = <<>> /\ chunk = <<>> /\ taken = <<>>
        /\ task = "idle" /\ read = 0 /\ unended = FALSE /\ over = FALSE
    BY DEF ReaderInit
  <2>2. /\ file \in Seq(Bytes) /\ held \in Seq(Bytes) /\ chunk \in Seq(Bytes)
        /\ taken \in Seq(Bytes)
    BY <2>1
  <2>3. read \in 0..Len(file) /\ task \in Tasks
    BY <2>1 DEF Tasks
  <2>4. /\ span \in [first : Nat \ {0}, last : Nat \ {0}] /\ deepest \in Nat \ {0}
        /\ span.first <= span.last /\ span.last <= deepest /\ size \in Nat \ {0}
        /\ number \in Nat
    BY <2>1
  <2> QED BY <2>1, <2>2, <2>3, <2>4 DEF ReaderTypeOK
<1>2. At = 0
  <2>1. read = 0 /\ Len(held) = 0 /\ Len(chunk) = 0
    BY DEF ReaderInit
  <2> QED BY <2>1 DEF At
<1>3. Window
  BY <1>2 DEF ReaderInit, Window
<1>4. Read(At)
  <2>1. Ended(0) = 0
    BY <1>1, NothingEnded DEF ReaderTypeOK
  <2> QED BY <1>2, <2>1 DEF ReaderInit, Read
<1> QED BY <1>1, <1>3, <1>4 DEF ReaderInv

-----------------------------------------------------------------------------
(* The theorems.                                                           *)

\* ReaderInv is inductive.
THEOREM ReaderIsRight == ReaderSpec => []ReaderInv
<1>1. ReaderInit => ReaderInv
  BY ReaderStarts
<1>2. ReaderInv /\ [ReaderNext]_fileVars => ReaderInv'
  BY ReaderAssumption, OpenHolds, ReadChunkHolds, YieldHeldHolds, YieldLineHolds,
     YieldLeftHolds, ReadEndHolds, ReaderStands DEF ReaderNext
<1> QED BY <1>1, <1>2, PTL DEF ReaderSpec

\* _count_lines_upto counts the lines of the file as far as its limit.
THEOREM CountsRight == ReaderSpec => []CountIsRight
<1>1. ReaderInv => CountIsRight
  <2> SUFFICES ASSUME ReaderInv, over, task = "count"
               PROVE  Count = Min({deepest, LineCount})
    BY DEF CountIsRight
  <2>1. /\ file \in Seq(Bytes) /\ deepest \in Nat \ {0} /\ number \in Nat /\ Len(file) \in Nat
        /\ unended \in BOOLEAN /\ held \in Seq(Bytes) /\ chunk \in Seq(Bytes)
        /\ read \in 0..Len(file)
    BY DEF ReaderInv, ReaderTypeOK
  <2>2. PICK n, l : n = At /\ l = Len(file)
    OBVIOUS
  <2>3. n \in Nat /\ l \in Nat /\ n <= l
    BY <2>1, <2>2 DEF At, ReaderInv, Window
  <2>4. /\ number = Ended(n) /\ number <= deepest
        /\ unended <=> (n > 0 /\ n \notin LineEnds(file))
        /\ unended => number < deepest
        /\ n = l \/ Ended(n) >= deepest
    BY <2>2 DEF ReaderInv, Read, CountedTo
  <2>5. /\ Ended(n) \in Nat /\ Ended(l) \in Nat /\ Ended(l - 1) \in Nat
        /\ Ended(n) <= Ended(l)
    <3>1. n \in Int /\ l \in Int /\ l - 1 \in Int
      BY <2>3
    <3> QED BY <3>1, <2>1, <2>3, EndsAreCounted, EndsGrow
  <2>6. LineCount = IF l = 0 THEN 0 ELSE 1 + Ended(l - 1)
    BY <2>1, <2>2, LineOfIs DEF LineCount
  <2>7. l > 0 => Ended(l) = IF l \in LineEnds(file) THEN Ended(l - 1) + 1 ELSE Ended(l - 1)
    <3>1. l > 0 => IsPiece(l - 1, l)
      BY <2>2, <2>3 DEF IsPiece
    <3> QED BY <3>1, <2>1, PieceIsOfOneLine
  <2>8. Ended(0) = 0
    BY <2>1, NothingEnded
  <2>9. Min({deepest, LineCount}) = IF deepest <= LineCount THEN deepest ELSE LineCount
    BY <2>1, <2>5, <2>6, MinOfTwo
  <2>10. CASE Ended(n) >= deepest
    <3>1. number = deepest /\ ~unended
      BY <2>10, <2>1, <2>4, <2>5
    <3>2. deepest <= LineCount
      BY <2>10, <2>1, <2>3, <2>5, <2>6, <2>7, <2>8
    <3> QED BY <3>1, <3>2, <2>9 DEF Count
  <2>11. CASE n = l
    <3>1. CASE l = 0
      <4>1. number = 0 /\ ~unended /\ LineCount = 0
        BY <3>1, <2>11, <2>4, <2>6, <2>8
      <4> QED BY <4>1, <2>1, <2>9 DEF Count
    <3>2. CASE l > 0 /\ l \in LineEnds(file)
      <4>1. ~unended /\ number = LineCount
        BY <3>2, <2>3, <2>4, <2>5, <2>6, <2>7, <2>11
      <4> QED BY <4>1, <2>1, <2>4, <2>9 DEF Count
    <3>3. CASE l > 0 /\ l \notin LineEnds(file)
      <4>1. unended /\ number + 1 = LineCount /\ LineCount <= deepest
        BY <3>3, <2>1, <2>3, <2>4, <2>5, <2>6, <2>7, <2>11
      <4> QED BY <4>1, <2>1, <2>9 DEF Count
    <3> QED BY <3>1, <3>2, <3>3, <2>3
  <2> QED BY <2>4, <2>10, <2>11
<1> QED BY <1>1, ReaderIsRight, PTL

\* _span_bytes extracts the span, and nothing else.
THEOREM TakesTheSpan == ReaderSpec => []SpanIsExact
<1>1. ReaderInv => SpanIsExact
  <2> SUFFICES ASSUME ReaderInv, over, task = "take"
               PROVE  \E a \in 1..(Len(file) + 1), b \in 0..Len(file) :
                        /\ taken = SubSeq(file, a, b)
                        /\ \A i \in DOMAIN file : LineOf(i) \in span.first..span.last <=> i \in a..b
    BY DEF SpanIsExact
  <2>1. /\ file \in Seq(Bytes) /\ deepest \in Nat /\ Len(file) \in Nat
        /\ held \in Seq(Bytes) /\ chunk \in Seq(Bytes) /\ read \in 0..Len(file)
        /\ span.first \in Nat /\ span.last \in Nat /\ span.last <= deepest
    BY DEF ReaderInv, ReaderTypeOK
  <2>2. PICK n : n = At
    OBVIOUS
  <2>3. n \in Nat /\ n <= Len(file)
    BY <2>1, <2>2 DEF At, ReaderInv, Window
  <2>4. n = Len(file) \/ Ended(n) >= deepest
    BY <2>2 DEF ReaderInv, Read
  <2>5. PICK a \in 1..(n + 1), b \in 0..n :
          /\ taken = SubSeq(file, a, b)
          /\ \A i \in 1..n : LineOf(i) \in span.first..span.last <=> i \in a..b
    BY <2>2 DEF ReaderInv, Read, TakenTo
  <2>6. ASSUME NEW i \in DOMAIN file, i > n
        PROVE  LineOf(i) \notin span.first..span.last /\ i \notin a..b
    <3>1. i \in Int /\ i - 1 \in Int /\ n <= i - 1 /\ i <= Len(file)
      BY <2>1, <2>3, <2>6
    <3>2. LineOf(i) = 1 + Ended(i - 1) /\ Ended(n) <= Ended(i - 1)
          /\ Ended(n) \in Nat /\ Ended(i - 1) \in Nat
      BY <3>1, <2>1, <2>3, LineOfIs, EndsGrow, EndsAreCounted
    <3>3. Ended(n) >= deepest
      BY <3>1, <2>3, <2>4, <2>6
    <3>4. LineOf(i) > span.last
      BY <3>2, <3>3, <2>1
    <3>5. LineOf(i) \notin span.first..span.last
      BY <3>2, <3>4, <2>1
    <3>6. i \notin a..b
      BY <3>1, <2>3, <2>6
    <3> QED BY <3>5, <3>6
  <2>7. \A i \in DOMAIN file : LineOf(i) \in span.first..span.last <=> i \in a..b
    BY <2>1, <2>3, <2>5, <2>6
  <2>8. a \in 1..(Len(file) + 1) /\ b \in 0..Len(file)
    BY <2>1, <2>3
  <2> QED BY <2>5, <2>7, <2>8
<1> QED BY <1>1, ReaderIsRight, PTL

\* A read is made only for a line that is still missing.
THEOREM ReadsNoFurther == ReaderSpec => NothingIsReadAfterTheSpan
<1>1. ReaderInv /\ [ReaderNext]_fileVars =>
        [read' > read =>
           Cardinality({i \in LineEnds(SubSeq(file, 1, read)) : i < read \/ file[i] = "lf"})
             < deepest]_fileVars
  <2> SUFFICES ASSUME ReaderInv, ReaderNext, read' > read
               PROVE  Cardinality({i \in LineEnds(SubSeq(file, 1, read)) :
                                     i < read \/ file[i] = "lf"}) < deepest
    OBVIOUS
  <2> DEFINE known == {i \in LineEnds(SubSeq(file, 1, read)) : i < read \/ file[i] = "lf"}
  <2>1. /\ file \in Seq(Bytes) /\ deepest \in Nat /\ read \in 0..Len(file)
        /\ held \in Seq(Bytes) /\ read \in Nat
    BY DEF ReaderInv, ReaderTypeOK
  <2>2. ReadChunk
    <3>1. read' # read
      BY <2>1
    <3> QED BY <3>1 DEF ReaderNext, Open, YieldHeld, YieldLine, YieldLeft, ReadEnd
  <2>3. chunk = <<>> /\ ~over
    BY <2>2 DEF ReadChunk, Asked
  <2>4. PICK n : n = At
    OBVIOUS
  <2>5. n \in Nat /\ read = n + Len(held) /\ Len(held) \in Nat
    BY <2>1, <2>3, <2>4 DEF At, ReaderInv, Window
  <2>6. /\ held # <<>> => /\ file[read] = "cr"
                          /\ \A i \in (n + 1)..(read - 1) : i \notin LineEnds(file)
        /\ held = <<>> => read = n
    BY <2>1, <2>4, <2>5 DEF ReaderInv, Window
  <2>7. Ended(n) < deepest /\ IsFiniteSet(EndsIn(n)) /\ Ended(n) \in Nat
    BY <2>1, <2>3, <2>4, <2>5, EndsAreCounted DEF ReaderInv, Read
  <2>8. known \in SUBSET EndsIn(n)
    <3> SUFFICES ASSUME NEW i \in known PROVE i \in EndsIn(n)
      OBVIOUS
    <3>1. i \in 1..read /\ i \in LineEnds(SubSeq(file, 0 + 1, read)) /\ (i < read \/ file[i] = "lf")
      BY <2>1 DEF LineEnds
    <3>2. i \in LineEnds(file)
      BY <3>1, <2>1, EndsOfPart DEF LineEnds
    <3>3. i <= n
      BY <3>1, <3>2, <2>5, <2>6
    <3> QED BY <3>2, <3>3 DEF EndsIn
  <2>9. IsFiniteSet(known) /\ Cardinality(known) <= Ended(n)
    BY <2>7, <2>8, FS_Subset DEF Ended
  <2>10. Cardinality(known) \in Nat
    BY <2>9, FS_CardinalityType
  <2> QED BY <2>1, <2>7, <2>9, <2>10
<1> QED BY <1>1, ReaderIsRight, PTL DEF ReaderSpec, NothingIsReadAfterTheSpan
=============================================================================
