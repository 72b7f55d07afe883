--------------------------------- MODULE Globs ---------------------------------
(***************************************************************************)
(* The two pattern languages of the harness.  A path pattern is a sequence  *)
(* of segments, "**" among them standing for any run of names; a command    *)
(* pattern is one flat text, where "*" stands for any run of characters and *)
(* "?" for one.  A permission rule that restricts one name follows it to    *)
(* any depth.                                                              *)
(***************************************************************************)
EXTENDS Naturals, Sequences, FiniteSets, SequencesExt

\* A mismatch after a "*" moves on in the text without giving back what the
\* characters after the "*" had taken.
MatchWithoutReturn(pattern, text) ==
    LET on[p \in 1..Len(pattern) + 1, t \in 1..Len(text) + 1, star \in 0..Len(pattern)] ==
            IF t > Len(text) THEN \A k \in p..Len(pattern) : pattern[k] = "*"
            ELSE IF p <= Len(pattern) /\ pattern[p] \in {"?", text[t]} THEN on[p + 1, t + 1, star]
            ELSE IF p <= Len(pattern) /\ pattern[p] = "*" THEN on[p + 1, t, p]
            ELSE star # 0 /\ on[star + 1, t + 1, star]
    IN on[1, 1, 0]

\* The loop of segment_match: the text is taken greedily, and a mismatch goes
\* back to the last "*", which then takes one character more.
CommandMatch(pattern, text) ==
    LET from[p \in 1..Len(pattern) + 1, t \in 1..Len(text) + 1, star \in 0..Len(pattern), taken \in 0..Len(text) + 1] ==
            IF t > Len(text) THEN \A k \in p..Len(pattern) : pattern[k] = "*"
            ELSE IF p <= Len(pattern) /\ pattern[p] \in {"?", text[t]} THEN from[p + 1, t + 1, star, taken]
            ELSE IF p <= Len(pattern) /\ pattern[p] = "*" THEN from[p + 1, t, p, t]
            ELSE star # 0 /\ from[star + 1, taken + 1, star, taken + 1]
    IN from[1, 1, 0, 0]

\* Within a path a segment's wildcards are told apart only as "any name".
SegmentMatch(pattern, name) == pattern = "*" \/ pattern = name

\* The table glob_match fills row by row: which prefixes of the path the first
\* i segments of the pattern match.
GlobMatch(pattern, path) ==
    LET row[i \in 0..Len(pattern)] ==
            IF i = 0 THEN {0}
            ELSE IF pattern[i] = "**" THEN {k \in 0..Len(path) : \E j \in row[i - 1] : j <= k}
            ELSE {k \in 1..Len(path) : k - 1 \in row[i - 1] /\ SegmentMatch(pattern[i], path[k])}
    IN Len(path) \in row[Len(pattern)]

\* One literal name, or one followed by "**", also matches at any depth when
\* the rule restricts.
SingleName(selector) ==
    LET named == IF Last(selector) = "**" THEN Front(selector) ELSE selector
    IN Len(named) = 1 /\ named[1] \notin {"*", "**"}
NestedFormEverywhere(selector, effect) == IF SingleName(selector) THEN {<<"**">> \o selector} ELSE {}
NestedForm(selector, effect) == IF effect = "Allow" THEN {} ELSE NestedFormEverywhere(selector, effect)

=============================================================================
