---------------------------- MODULE LineReader ----------------------------
(***************************************************************************)
(* The streaming reader of `slice': _iter_line_pieces of cli.py and its    *)
(* two consumers, _count_lines_upto, which validates the spans of a path,  *)
(* and _span_bytes, which extracts them.  The file is read in chunks;      *)
(* lines end in \n, \r\n or a bare \r, any of which may straddle two       *)
(* reads.  A step reads a chunk, or hands the consumer one piece.          *)
(***************************************************************************)
EXTENDS Integers, SequencesExt, FiniteSetsExt

CONSTANTS
    MaxBytes,   \* bound: the length of a file
    Chunks      \* _READ_CHUNK

ASSUME ReaderAssumption == MaxBytes \in Nat /\ Chunks \subseteq Nat \ {0}

VARIABLES
    task,      \* what the reader is used for
    file,      \* the bytes on disk: text, \r or \n
    span,      \* one of the spans asked for
    deepest,   \* the last line of any span of this path: the limit of a count
    size,      \* of a chunk
    read,      \* how many bytes were read
    held,      \* a line that a read cut off at its \r: the next may begin with \n
    chunk,     \* the part of the read in hand that was not yielded yet
    number,    \* the line being read, or the lines counted
    unended,   \* the last piece counted did not end its line
    taken,     \* the span's bytes so far
    over       \* the stream ended or was closed

consumerVars == <<number, unended, taken, over>>
fileVars ==
    <<task, file, span, deepest, size, read, held, chunk, number, unended, taken, over>>

-----------------------------------------------------------------------------
Bytes == {"x", "cr", "lf"}
Tasks == {"idle", "count", "take"}

\* Where lines end, as bytes.splitlines(keepends=True) has it.
LineEnds(s) ==
    {i \in DOMAIN s : s[i] = "lf" \/ (s[i] = "cr" /\ (i = Len(s) \/ s[i + 1] # "lf"))}

\* The first of s.splitlines(keepends=True) is the first n bytes of s.
FirstLine(s, n) ==
    /\ n \in DOMAIN s
    /\ n \in LineEnds(s) \/ n = Len(s)
    /\ \A i \in 1..(n - 1) : i \notin LineEnds(s)

\* The line of the file that byte i is in.
LineOf(i) == 1 + Cardinality({e \in LineEnds(file) : e < i})

LineCount == IF file = <<>> THEN 0 ELSE LineOf(Len(file))

-----------------------------------------------------------------------------
(* The consumers: what they make of one more piece, which ends its line or *)
(* does not.  To be over is to break: the stream is closed.                *)

\* _count_lines_upto.
Counted(ends) ==
    /\ unended' = ~ends
    /\ number' = IF ends THEN number + 1 ELSE number
    /\ over' = (ends /\ number + 1 >= deepest)
    /\ UNCHANGED taken

\* _span_bytes.  Slip: the line after the deepest is pulled, too.
TakenSlip(piece, ends) ==
    /\ taken' = IF number \in span.first..span.last THEN taken \o piece ELSE taken
    /\ over' = (ends /\ number > deepest)
    /\ number' = IF ends /\ number <= deepest THEN number + 1 ELSE number
    /\ UNCHANGED unended

Taken(piece, ends) ==
    /\ taken' = IF number \in span.first..span.last THEN taken \o piece ELSE taken
    /\ over' = (ends /\ number >= deepest)
    /\ number' = IF ends /\ number < deepest THEN number + 1 ELSE number
    /\ UNCHANGED unended

\* yield piece, ends
Yield(piece, ends) ==
    \/ task = "count" /\ Counted(ends)
    \/ task = "take" /\ Taken(piece, ends)

-----------------------------------------------------------------------------
ReaderInit ==
    /\ task = "idle" /\ file = <<>> /\ span = [first |-> 1, last |-> 1] /\ deepest = 1
    /\ size = 1 /\ read = 0 /\ held = <<>> /\ chunk = <<>>
    /\ number = 0 /\ unended = FALSE /\ taken = <<>> /\ over = FALSE

\* The spans of a path: validated (count), or extracted (take) in one pass.
Open ==
    /\ task = "idle" /\ task' \in Tasks \ {"idle"}
    /\ file' \in BoundedSeq(Bytes, MaxBytes) /\ size' \in Chunks
    /\ deepest' \in 1..(MaxBytes + 1)
    /\ \E last \in 1..deepest' : \E first \in 1..last :
          span' = [first |-> first, last |-> last]
    /\ number' = IF task' = "take" THEN 1 ELSE 0
    /\ UNCHANGED <<read, held, chunk, unended, taken, over>>

\* The consumer asks for more: the generator goes on.
Asked == task # "idle" /\ ~over /\ UNCHANGED <<task, file, span, deepest, size>>

\* while chunk := fh.read(_READ_CHUNK)
ReadChunk ==
    /\ Asked /\ chunk = <<>> /\ read < Len(file)
    /\ read' = Min({read + size, Len(file)})
    /\ chunk' = SubSeq(file, read + 1, read')
    /\ UNCHANGED <<held, consumerVars>>

\* if held: what was held back is yielded, with the \n that belongs to it.
YieldHeld ==
    /\ Asked /\ held # <<>> /\ chunk # <<>>
    /\ held' = <<>>
    /\ \/ /\ Head(chunk) = "lf"
          /\ chunk' = Tail(chunk) /\ Yield(Append(held, "lf"), TRUE)
       \/ /\ Head(chunk) # "lf"
          /\ UNCHANGED chunk /\ Yield(held, TRUE)
    /\ UNCHANGED read

\* A \r that ends a read is held back.  Slip: it ends its line at once.
HeldBackSlip(n) == FALSE
HeldBack(n) == n = Len(chunk) /\ chunk[n] = "cr"

\* for line in lines: one of chunk.splitlines(), the last of which may be
\* held back or have no end.
YieldLine ==
    /\ Asked /\ held = <<>>
    /\ \E n \in DOMAIN chunk :
          /\ FirstLine(chunk, n)
          /\ chunk' = SubSeq(chunk, n + 1, Len(chunk))
          /\ \/ HeldBack(n) /\ held' = chunk /\ UNCHANGED consumerVars
             \/ /\ ~HeldBack(n)
                /\ UNCHANGED held
                /\ Yield(SubSeq(chunk, 1, n), n \in LineEnds(chunk))
    /\ UNCHANGED read

\* At the end of the file a held \r ends its line.  Slip: it is forgotten.
YieldLeftSlip ==
    /\ Asked /\ held # <<>> /\ chunk = <<>> /\ read = Len(file)
    /\ held' = <<>>
    /\ UNCHANGED <<read, chunk, consumerVars>>

YieldLeft ==
    /\ Asked /\ held # <<>> /\ chunk = <<>> /\ read = Len(file)
    /\ held' = <<>> /\ Yield(held, TRUE)
    /\ UNCHANGED <<read, chunk>>

\* The generator returns.
ReadEnd ==
    /\ Asked /\ held = <<>> /\ chunk = <<>> /\ read = Len(file)
    /\ over' = TRUE
    /\ UNCHANGED <<read, held, chunk, number, unended, taken>>

ReaderNext == Open \/ ReadChunk \/ YieldHeld \/ YieldLine \/ YieldLeft \/ ReadEnd

ReaderSpec == ReaderInit /\ [][ReaderNext]_fileVars

\* What _count_lines_upto returns.
Count == IF unended THEN number + 1 ELSE number

-----------------------------------------------------------------------------
(* Properties, against the lines of the whole file.                        *)

\* _owned_slice compares the count with each span's end: the count is the file's
\* length as far as the limit, whatever the reads cut in two.
CountIsRight == over /\ task = "count" => Count = Min({deepest, LineCount})

\* _span_bytes: the extracted bytes are a stretch of the file, those of its bytes
\* that are in the span's lines, terminators included.
SpanIsExact ==
    over /\ task = "take" =>
        \E a \in 1..(Len(file) + 1), b \in 0..Len(file) :
           /\ taken = SubSeq(file, a, b)
           /\ \A i \in DOMAIN file : LineOf(i) \in span.first..span.last <=> i \in a..b

\* "A one-line span from a large log costs a line, not the log": nothing is read
\* once the deepest line's terminator is known to be one.
NothingIsReadAfterTheSpan ==
    [][read' > read =>
         Cardinality({i \in LineEnds(SubSeq(file, 1, read)) : i < read \/ file[i] = "lf"})
           < deepest]_fileVars

=============================================================================
