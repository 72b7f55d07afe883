------------------------------- MODULE PageReader -------------------------------
(***************************************************************************)
(* read_file: a file is read page by page, and a line that is too long      *)
(* window by window, by an agent that follows the hints of every result.    *)
(* A file is a sequence of bytes: one-byte characters, the lead and the     *)
(* trail of a two-byte character, carriage return and newline.              *)
(***************************************************************************)
EXTENDS Naturals, Sequences, SequencesExt, FiniteSets

CONSTANTS
    MaxLineBytes,   \* of a line in a page
    ReadLimitBytes, \* of a page, and of a window
    MarkerBytes,    \* what the notice of a cut line adds to a page
    Limits,         \* values of the limit argument tried, 0 for none
    MaxFile         \* bound on the bytes of the file

VARIABLES
    file,       \* the lines on disk
    got,        \* line number -> bytes received for it
    hints,      \* continuations a result has asked for: [line, offset]
    next,       \* line to read from, 0 when no page is left
    failed      \* a read was refused or not decodable

pageVars == <<file, got, hints, next, failed>>

Bytes == {"a", "lead", "trail", "cr", "nl"}

-----------------------------------------------------------------------------
(* Lines, each with whether a newline ends it.                             *)

SplitLines(f) ==
    LET ends == {i \in 1..Len(f) : f[i] = "nl"}
        firsts == {1} \cup {i + 1 : i \in ends}
        From(k) == CHOOSE i \in firsts : Cardinality({j \in firsts : j < i}) = k - 1
        To(i) == CHOOSE j \in i..(Len(f) + 1) : (j > Len(f) \/ f[j] = "nl") /\ \A l \in i..(j - 1) : f[l] # "nl"
        count == Cardinality({i \in firsts : i <= Len(f)})
    IN [k \in 1..count |-> [bytes |-> SubSeq(f, From(k), To(From(k)) - 1), nl |-> To(From(k)) <= Len(f)]]
LineBytes(k) == file[k].bytes
Terminated(k) == file[k].nl

ValidUtf8(b) == \A i \in 1..Len(b) : /\ b[i] = "lead" <=> i < Len(b) /\ b[i + 1] = "trail"
                                     /\ b[i] = "trail" => i > 1 /\ b[i - 1] = "lead"
Strip(k) == Terminated(k) /\ LineBytes(k) # <<>> /\ Last(LineBytes(k)) = "cr"
TotalBytes(k) == Len(LineBytes(k)) - (IF Strip(k) THEN 1 ELSE 0)

\* read_bounded_line: a window of a line, cut back to whole characters.
Missing == [st |-> "eof"]
Bad == [st |-> "invalid"]
Misaligned == [st |-> "misaligned"]
CutAnywhere(w) == w
CutBack(w) == IF w # <<>> /\ Last(w) = "lead" THEN Front(w) ELSE w
Retained(k, skip, limit) ==
    LET b == LineBytes(k)
        w == SubSeq(b, skip + 1, IF skip + limit < Len(b) THEN skip + limit ELSE Len(b))
    IN IF Strip(k) /\ skip + Len(w) = Len(b) /\ w # <<>> THEN Front(w) ELSE w
BoundedLine(k, skip, limit) ==
    IF k > Len(file) THEN Missing
    ELSE IF ~ValidUtf8(LineBytes(k)) THEN Bad
    ELSE LET w == Retained(k, skip, limit)
         IN IF w # <<>> /\ w[1] = "trail" THEN Misaligned
            ELSE [st |-> "line", text |-> CutBack(w), total |-> TotalBytes(k)]

Peek(k) == BoundedLine(k, 0, 0)

-----------------------------------------------------------------------------
(* A page: whole lines, each with its prefix, within the budget.            *)

Line(k) == BoundedLine(k, 0, MaxLineBytes)
IsCut(k) == Line(k).total > Len(Line(k).text)
\* Bytes a page of n lines has used; the marker of a cut line counts.
Used(start, n) ==
    FoldLeft(LAMBDA sum, k : sum + Len(Line(k).text) + (IF IsCut(k) THEN MarkerBytes ELSE 0),
             0, [i \in 1..n |-> start + i - 1])
\* The i-th line goes on the page: the first one always does.
Fits(start, limit, i) ==
    LET k == start + i - 1
    IN /\ Line(k).st = "line"
       /\ limit = 0 \/ i <= limit
       /\ i = 1 \/ Used(start, i - 1) + Len(Line(k).text) <= ReadLimitBytes
PageLines(start, limit) ==
    CHOOSE n \in 0..MaxFile : (\A i \in 1..n : Fits(start, limit, i)) /\ ~Fits(start, limit, n + 1)
\* What the reader meets behind the page, or in it.
After(start, n) ==
    IF \E k \in 1..(start + n) : Peek(k) = Bad THEN "invalid"
    ELSE IF Peek(start + n) = Missing THEN "end" ELSE "more"

NextAfterCut(start, n) == start + n + (IF n > 0 /\ IsCut(start + n - 1) THEN 1 ELSE 0)
NextLine(start, n) == start + n

Received(k, text) == [got EXCEPT ![k] = @ \o text]

PageInit ==
    /\ file \in {SplitLines(f) : f \in BoundedSeq(Bytes, MaxFile)}
    /\ got = [k \in 1..(MaxFile + 1) |-> <<>>]
    /\ hints = {} /\ next = 1 /\ failed = FALSE

ReadPage ==
    /\ next > 0 /\ ~failed
    /\ \E limit \in Limits :
          LET n == PageLines(next, limit)
              page == next..(next + n - 1)
          IN IF After(next, n) = "invalid" THEN failed' = TRUE /\ UNCHANGED <<got, hints, next>>
             ELSE /\ got' = [k \in DOMAIN got |-> IF k \in page THEN got[k] \o Line(k).text ELSE got[k]]
                  /\ hints' = hints \cup {[line |-> k, offset |-> Len(Line(k).text)] : k \in {l \in page : IsCut(l)}}
                  /\ next' = IF After(next, n) = "more" THEN NextLine(next, n) ELSE 0
                  /\ UNCHANGED failed
    /\ UNCHANGED file

\* The line after the continued one is looked at as well.
ResumeAt(hint, text) == hint.offset + Len(text)
Continue ==
    /\ ~failed
    /\ \E hint \in hints :
          LET w == BoundedLine(hint.line, hint.offset, ReadLimitBytes)
          IN IF w.st # "line" \/ (\E k \in 1..hint.line : Peek(k) = Bad) \/ Peek(hint.line + 1) = Bad
             THEN failed' = TRUE /\ UNCHANGED <<got, hints>>
             ELSE /\ got' = Received(hint.line, w.text)
                  /\ hints' = (hints \ {hint}) \cup
                        (IF w.total > ResumeAt(hint, w.text)
                         THEN {[line |-> hint.line, offset |-> ResumeAt(hint, w.text)]} ELSE {})
                  /\ UNCHANGED failed
    /\ UNCHANGED <<file, next>>

PageNext == ReadPage \/ Continue
PageSpec == PageInit /\ [][PageNext]_pageVars /\ WF_pageVars(PageNext)

-----------------------------------------------------------------------------
\* The pages and windows an agent gets by following every hint are the file:
\* each line once, whole, without its terminator, whatever limits were used
\* and wherever the budgets cut (read_file.rs, ReadFileOutput).
PagesTileTheFile ==
    next = 0 /\ hints = {} /\ ~failed =>
        /\ \A k \in 1..Len(file) : got[k] = SubSeq(LineBytes(k), 1, TotalBytes(k))
        /\ \A k \in (Len(file) + 1)..(MaxFile + 1) : got[k] = <<>>

\* A hint the tool gave is never refused: only bytes that are not UTF-8 make a
\* read fail (line_offset, TruncatedLine::resume_offset).
HintsAreGood == failed => \E k \in 1..Len(file) : ~ValidUtf8(LineBytes(k))

\* Following hints comes to an end: every page and window brings something.
ReadingEnds == <>(failed \/ (next = 0 /\ hints = {}))

=============================================================================
