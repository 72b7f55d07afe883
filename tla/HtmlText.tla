-------------------------------- MODULE HtmlText --------------------------------
(***************************************************************************)
(* html_text: the reducer that turns the tokens of a page into prose. The   *)
(* tokenizer (html5ever) is external: it hands over one token after the     *)
(* other, and after a start tag whose body is not markup nothing but text   *)
(* until the matching end tag. Text is a sequence of letters, spaces,       *)
(* newlines and no-break spaces; what the reducer adds are marks.           *)
(***************************************************************************)
EXTENDS Naturals, Sequences, SequencesExt, FiniteSets

CONSTANTS
    Texts,      \* character tokens
    Elements,   \* elements that may occur
    Hrefs,      \* targets of links and bases, "none" for a missing attribute
    MaxTokens   \* bound on the tokens of a page

VARIABLES
    buffer,       \* TextWriter::buffer
    links,        \* open links, the last one innermost
    base,         \* the URL relative targets resolve against, and whether it was declared
    preformatted, \* depth of <pre>
    discarded,    \* depth of elements that stay out of the prose
    raw,          \* the element whose body the tokenizer reads as text
    tokens,       \* tokens so far
    open,         \* history: discarded elements the page has open
    ideal         \* history: the letters a reader of the page sees, and the gaps

htmlVars == <<buffer, links, base, preformatted, discarded, raw, tokens, open, ideal>>

-----------------------------------------------------------------------------
(* What an element contributes.                                             *)

RawBody == {"script", "style", "textarea"}
Discarded == RawBody \cup {"template"}
Blocks == {"p", "heading", "li", "pre", "blockquote", "br", "block"}
Spaces == {"sp", "nl", "nbsp"}

-----------------------------------------------------------------------------
(* TextWriter: what is appended to the buffer.                              *)

EndsWith(b, suffix) == IsSuffix(suffix, b)
EndsWithSpace(b) == b # <<>> /\ Last(b) \in Spaces
NewLine(b) == IF b = <<>> \/ EndsWith(b, <<"nl">>) THEN b ELSE Append(b, "nl")
BlankLine(b) == IF b = <<>> \/ EndsWith(b, <<"nl", "nl">>) THEN b ELSE Append(NewLine(b), "nl")
CellBoundary(b) == IF b = <<>> \/ EndsWith(b, <<"nl">>) \/ EndsWith(b, <<"sp", "|", "sp">>) THEN b
                   ELSE b \o <<"sp", "|", "sp">>
OneSpace(b) == IF b = <<>> \/ EndsWithSpace(b) THEN b ELSE Append(b, "sp")

Open(b, e) ==
    CASE e = "heading" -> BlankLine(b) \o <<"#", "sp">>
      [] e = "p" -> BlankLine(b)
      [] e = "li" -> NewLine(b) \o <<"-", "sp">>
      [] e = "pre" -> BlankLine(b) \o <<"fence", "nl">>
      [] e = "blockquote" -> BlankLine(b) \o <<">", "sp">>
      [] e \in {"br", "block"} -> NewLine(b)
      [] e = "cell" -> CellBoundary(b)
      [] OTHER -> b
Close(b, e) ==
    CASE e \in {"heading", "p", "blockquote"} -> BlankLine(b)
      [] e = "pre" -> BlankLine(NewLine(b) \o <<"fence", "nl">>)
      [] e \in {"li", "block"} -> NewLine(b)
      [] OTHER -> b

\* collapse_inline: a run of spaces is one space, at the ends too.
Collapsed(text) ==
    LET kept == {i \in 1..Len(text) : text[i] \in Spaces => i = 1 \/ text[i - 1] \notin Spaces}
        Nth(k) == CHOOSE i \in kept : Cardinality({j \in kept : j < i}) = k - 1
    IN [k \in 1..Cardinality(kept) |-> IF text[Nth(k)] \in Spaces THEN "sp" ELSE text[Nth(k)]]
PlainSpaces(text) == [i \in 1..Len(text) |-> IF text[i] = "nbsp" THEN "sp" ELSE text[i]]
DroppedGap(b) == b
KeptGap(b) == OneSpace(b)
PushText(b, text, pre) ==
    IF text = <<>> THEN b
    ELSE IF pre THEN b \o PlainSpaces(text)
    ELSE IF Range(text) \subseteq Spaces THEN KeptGap(b)
    ELSE LET c == Collapsed(text)
         IN b \o (IF (b = <<>> \/ EndsWithSpace(b)) /\ Head(c) = "sp" THEN Tail(c) ELSE c)

\* resolve: no target, a bare fragment or another scheme leads nowhere.
ResolvedLink(href) == IF href \in {"none", "fragment", "mailto"} THEN <<>> ELSE <<base.url, href>>

\* normalize: no spaces at the end of a line, no blank line at either end of
\* the text and at most one in a row.
Normalized(b) ==
    LET Letter(i) == b[i] \notin Spaces
        kept == {i \in 1..Len(b) :
                    \/ Letter(i)
                    \/ b[i] \in {"sp", "nbsp"} /\ \E j \in (i + 1)..Len(b) : Letter(j) /\ \A l \in i..j : b[l] # "nl"
                    \/ /\ b[i] = "nl" /\ \E j \in (i + 1)..Len(b) : Letter(j)
                       /\ \E j \in 1..(i - 1) : Letter(j)
                                                /\ Cardinality({l \in j..(i - 1) : b[l] = "nl"}) < 2
                                                /\ \A l \in (j + 1)..i : ~Letter(l)}
        Nth(k) == CHOOSE i \in kept : Cardinality({j \in kept : j < i}) = k - 1
    IN [k \in 1..Cardinality(kept) |-> b[Nth(k)]]

-----------------------------------------------------------------------------
(* Reducer: one token.                                                      *)

HtmlInit == /\ buffer = <<>> /\ links = <<>> /\ base = [url |-> "page", declared |-> FALSE]
            /\ preformatted = 0 /\ discarded = 0 /\ raw = "none" /\ tokens = 0
            /\ open = 0 /\ ideal = <<>>

DepthByFlag(depth, ending, selfClosing) ==
    IF selfClosing THEN depth ELSE IF ending THEN (IF depth > 0 THEN depth - 1 ELSE 0) ELSE depth + 1
Depth(depth, ending, selfClosing) ==
    IF ending THEN (IF depth > 0 THEN depth - 1 ELSE 0) ELSE IF selfClosing THEN depth ELSE depth + 1

Token == tokens < MaxTokens /\ tokens' = tokens + 1

Characters(text) ==
    /\ Token
    /\ buffer' = IF discarded = 0 THEN PushText(buffer, text, preformatted > 0) ELSE buffer
    /\ ideal' = IF open = 0 THEN ideal \o text ELSE ideal
    /\ UNCHANGED <<links, base, preformatted, discarded, raw, open>>

\* Inside a discarded element only the depth moves.
Swallowed(e, ending, selfClosing) ==
    /\ discarded > 0
    /\ discarded' = IF e \in Discarded THEN Depth(discarded, ending, selfClosing) ELSE discarded
    /\ UNCHANGED <<buffer, links, base, preformatted>>

StartTag(e, selfClosing, href) ==
    /\ Token /\ raw = "none"
    /\ \/ Swallowed(e, FALSE, selfClosing) /\ UNCHANGED <<raw, ideal>>
       \/ /\ discarded = 0
          /\ preformatted' = IF e = "pre" THEN Depth(preformatted, FALSE, selfClosing) ELSE preformatted
          /\ discarded' = IF e \in Discarded THEN Depth(discarded, FALSE, selfClosing) ELSE discarded
          /\ raw' = IF e \in RawBody /\ ~selfClosing THEN e ELSE raw
          /\ links' = IF e = "a" THEN Append(links, ResolvedLink(href)) ELSE links
          /\ base' = IF e = "base" /\ href \notin {"none", "mailto"} /\ ~base.declared
                     THEN [url |-> href, declared |-> TRUE] ELSE base
          /\ buffer' = Open(buffer, e)
          /\ ideal' = IF e \in Blocks \cup {"cell"} THEN Append(ideal, "sp") ELSE ideal
    /\ open' = IF e \in Discarded /\ ~selfClosing THEN open + 1 ELSE open

EndTag(e, selfClosing) ==
    /\ Token /\ raw \in {"none", e}
    /\ \/ Swallowed(e, TRUE, selfClosing) /\ UNCHANGED ideal
       \/ /\ discarded = 0
          /\ preformatted' = IF e = "pre" THEN Depth(preformatted, TRUE, selfClosing) ELSE preformatted
          /\ links' = IF e = "a" /\ links # <<>> THEN Front(links) ELSE links
          /\ buffer' = IF e = "a" /\ links # <<>> /\ Last(links) # <<>>
                       THEN buffer \o <<"sp", "(link)">> ELSE Close(buffer, e)
          /\ ideal' = IF \/ e \in Blocks \ {"br"}
                         \/ e = "a" /\ links # <<>> /\ Last(links) # <<>>
                      THEN Append(ideal, "sp") ELSE ideal
          /\ UNCHANGED <<base, discarded>>
    /\ raw' = "none"
    /\ open' = IF e \in Discarded /\ open > 0 THEN open - 1 ELSE open

HtmlNext ==
    \/ \E text \in Texts : Characters(text)
    \/ \E e \in Elements, selfClosing \in BOOLEAN, href \in Hrefs :
          (href = "none" \/ e \in {"a", "base"}) /\ StartTag(e, selfClosing, href)
    \/ \E e \in Elements, selfClosing \in BOOLEAN : EndTag(e, selfClosing)
HtmlSpec == HtmlInit /\ [][HtmlNext]_htmlVars

-----------------------------------------------------------------------------
(* Properties.                                                              *)

\* The words of a text: its maximal runs of letters.
Words(text) ==
    LET Heads == {i \in 1..Len(text) : text[i] \in {"x", "y"} /\ (i = 1 \/ text[i - 1] \notin {"x", "y"})}
        Ends == {i \in 1..Len(text) : text[i] \in {"x", "y"} /\ (i = Len(text) \/ text[i + 1] \notin {"x", "y"})}
        Nth(set, k) == CHOOSE i \in set : Cardinality({j \in set : j < i}) = k - 1
    IN [k \in 1..Cardinality(Heads) |-> SubSeq(text, Nth(Heads, k), Nth(Ends, k))]

\* The prose has exactly the words of the page: markup alone never splits or
\* joins a word, spaces and blocks between two words keep them apart, nothing
\* of a discarded element comes through and nothing after it is lost, however
\* the elements nest and whichever of them are never closed.
WordsSurvive == Words(Normalized(buffer)) = Words(ideal)
=============================================================================
