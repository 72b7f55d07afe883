--------------------------------- MODULE Summary ---------------------------------
(***************************************************************************)
(* The continuity summary of one session, pass after pass: a request is     *)
(* bound to the durable range and the artifacts of the prefix it replaces   *)
(* and to the summary before it, the model answers and may be asked once    *)
(* more, and only an answer that passes every gate takes the prefix' place. *)
(* A source that is refused costs the session its persistence authority, and *)
(* with it every later compaction.  Which prefix is chosen, the anchor, the *)
(* commit and the life without authority are in the modules ContextProtocol *)
(* and SessionDurability.                                                   *)
(***************************************************************************)
EXTENDS Naturals, Sequences, SequencesExt, FiniteSets

CONSTANTS
    Contents,   \* contents large enough to be stored as artifacts
    Forged,      \* a reference no artifact has
    NoArtifact,  \* a message without one
    MaxRefs,     \* MAX_ARTIFACT_REFS
    Flaws,       \* defects of an answer beyond its range and references
    MaxFacts     \* bound on the journal

ASSUME ForgedIsForged == Forged \notin Contents

VARIABLES
    head,       \* facts in the journal
    context,    \* the active messages: [from, to, refs, content]
    active,     \* range and references of the active summary, or NoSummary
    request,    \* the summary request in progress, or NoSummary
    tries,    \* "none", "first" or "correction"
    usage,      \* responses received for this request, and those accounted for
    refusal     \* why the last request ended without a summary

summaryVars == <<head, context, active, request, tries, usage, refusal>>

NoSummary == [from |-> 0, to |-> 0, refs |-> {}]

-----------------------------------------------------------------------------
(* Binding a request.                                                       *)

ValidRange(from, to) == from > 0 /\ to >= from
LeastOf(set) == CHOOSE n \in set : \A m \in set : n <= m
MostOf(set) == CHOOSE n \in set : \A m \in set : m <= n
SourceRange(k) == [from |-> LeastOf({context[i].from : i \in 1..k}), to |-> MostOf({context[i].to : i \in 1..k})]

\* References the prefix already carries, and the artifacts this pass stored.
OnlyThisPass(k, stored) == {context[i].content : i \in stored \cap (1..k)}
AllowedRefs(k, stored) == {context[i].content : i \in stored \cap (1..k)} \cup UNION {context[i].refs : i \in 1..k}

\* validate_previous_summary: the summary before must stand under the new
\* request as it stood under its own.
PreviousStands(previous, from, to, allowed) ==
    previous # NoSummary => /\ previous.to <= to
                       /\ previous.refs \subseteq allowed
                       /\ from <= previous.from
\* The projection of the active summary leads the context and is not part of
\* the source: the request carries the summary itself.
SourceMessages(k) == (IF active = NoSummary THEN 1 ELSE 2)..k

Refusal(k, from, to, allowed) ==
    IF ~ValidRange(from, to) THEN "range"
    ELSE IF Cardinality(allowed) > MaxRefs THEN "too_many"
    ELSE IF SourceMessages(k) = {} THEN "empty"
    ELSE IF ~PreviousStands(active, from, to, allowed) THEN "previous"
    ELSE "none"

\* SummarySource errors invalidate persistence authority, and a session
\* without it is not compacted.
HasAuthority == refusal \notin {"range", "too_many", "empty", "previous"}

-----------------------------------------------------------------------------
(* Judging an answer: [flaw, from, to, refs], refs a sequence.              *)

\* parse_and_validate: size, decoding, version, bounds, range, text, references.
Decodes(a) == a.flaw # "decode"
WithinBounds(a) == a.flaw # "bounds" /\ Len(a.refs) <= MaxRefs
SaysSomething(a) == a.flaw # "blank"
EndMatches(a) == a.to = request.to
RangeMatches(a) == a.from = request.from /\ a.to = request.to
RefsAllowed(a) == /\ \A i, j \in 1..Len(a.refs) : a.refs[i] = a.refs[j] => i = j
                  /\ Range(a.refs) \subseteq request.allowed
Passes(a) == Decodes(a) /\ WithinBounds(a) /\ RangeMatches(a) /\ SaysSomething(a) /\ RefsAllowed(a)

Answers == [flaw : Flaws \cup {"none"}, from : request.from..(request.from + 1), to : {request.to - 1, request.to},
            refs : {<<>>} \cup {<<r>> : r \in Contents \cup {Forged}} \cup {<<r, s>> : r, s \in Contents}]

-----------------------------------------------------------------------------

SummaryInit == /\ head = 1 /\ context = <<[from |-> 1, to |-> 1, refs |-> {}, content |-> NoArtifact]>>
               /\ active = NoSummary /\ request = NoSummary /\ tries = "none"
               /\ usage = [received |-> 0, reported |-> 0] /\ refusal = "none"

\* The session goes on: a message becomes a fact.
Converse(content) ==
    /\ tries = "none" /\ HasAuthority /\ head < MaxFacts
    /\ head' = head + 1
    /\ context' = Append(context, [from |-> head + 1, to |-> head + 1, refs |-> {}, content |-> content])
    /\ UNCHANGED <<active, request, tries, usage, refusal>>

\* Artifacts of some messages are stored, each a fact of its own, and the
\* prefix before the protected tail is bound.
Issue(k, stored) ==
    /\ tries = "none" /\ HasAuthority
    /\ k \in 1..(Len(context) - 1)
    /\ stored \subseteq {i \in 1..k : context[i].content # NoArtifact}
    /\ head + Cardinality(stored) <= MaxFacts
    /\ head' = head + Cardinality(stored)
    /\ LET range == SourceRange(k)
           allowed == AllowedRefs(k, stored)
           why == Refusal(k, range.from, range.to, allowed)
       IN /\ refusal' = why
          /\ IF why = "none"
             THEN /\ request' = [from |-> range.from, to |-> range.to, allowed |-> allowed, prefix |-> k]
                  /\ tries' = "first"
                  /\ usage' = [received |-> 0, reported |-> 0]
             ELSE UNCHANGED <<request, tries, usage>>
    /\ UNCHANGED <<context, active>>

Over(why, reported) ==
    /\ request' = NoSummary /\ tries' = "none" /\ refusal' = why
    /\ usage' = [received |-> usage.received + 1, reported |-> reported]
    /\ UNCHANGED <<head, context, active>>

\* Usage of the rejected first response is added to that of the correction.
LastOnly == 1
Aggregated == IF tries = "correction" THEN usage.received + 1 ELSE 1

\* A response that is not one text block, or whose text is refused: once more
\* from the same data, then no further.
Rejected ==
    IF tries = "first"
    THEN /\ tries' = "correction" /\ usage' = [usage EXCEPT !.received = @ + 1]
         /\ UNCHANGED <<head, context, active, request, refusal>>
    ELSE Over("answer", Aggregated)
WrongShape == tries # "none" /\ Rejected
Answer(a) ==
    /\ tries # "none"
    /\ IF ~Passes(a) THEN Rejected
       ELSE LET refs == Range(a.refs)
            IN /\ active' = [from |-> a.from, to |-> a.to, refs |-> refs]
               /\ context' = <<[from |-> a.from, to |-> a.to, refs |-> refs, content |-> NoArtifact]>>
                             \o SubSeq(context, request.prefix + 1, Len(context))
               /\ request' = NoSummary /\ tries' = "none" /\ refusal' = "none"
               /\ usage' = [received |-> usage.received + 1, reported |-> Aggregated]
               /\ UNCHANGED head

\* The provider fails or the caller cancels; what was received stays known.
ModelFails ==
    /\ tries # "none"
    /\ request' = NoSummary /\ tries' = "none" /\ refusal' = "model"
    /\ usage' = [usage EXCEPT !.reported = IF tries = "correction" THEN usage.received ELSE 0]
    /\ UNCHANGED <<head, context, active>>

SummaryNext ==
    \/ \E content \in Contents \cup {NoArtifact} : Converse(content)
    \/ \E k \in 1..Len(context) : \E stored \in SUBSET (1..k) : Issue(k, stored)
    \/ WrongShape
    \/ tries # "none" /\ \E a \in Answers : Answer(a)
    \/ ModelFails
SummarySpec == SummaryInit /\ [][SummaryNext]_summaryVars

-----------------------------------------------------------------------------
(* Properties.                                                              *)

\* Summaries of summaries stay anchored: every message of the history is in
\* the context or in the range of the summary there, the first message covers
\* the active summary, and the summary names only contents of its own range.
SummariesStayAnchored ==
    /\ context[1].from = 1
    /\ \A i \in 1..(Len(context) - 1) : context[i].to < context[i + 1].from
    /\ active # NoSummary => /\ context[1].from = active.from /\ context[1].to = active.to
                        /\ context[1].refs = active.refs
    /\ Forged \notin UNION {context[i].refs : i \in 1..Len(context)}

\* Whatever model answers come in between, a summary that was accepted once
\* keeps the next from being asked for in one case only: when it is itself all
\* there is in the prefix.  Its range and its references never do.
NextCanBeAsked ==
    /\ refusal \notin {"previous", "range"}
    /\ \A k \in 1..(Len(context) - 1) :
          LET why == Refusal(k, SourceRange(k).from, SourceRange(k).to, AllowedRefs(k, {}))
          IN why \in {"none", "too_many"} \/ (k = 1 /\ active # NoSummary /\ why = "empty")

\* Every response the provider was paid for is accounted for when a request
\* ends, whether it ends with a summary, two rejected answers, a failure
\* between them or a failure before the first.
UsageIsComplete == tries = "none" => usage.reported = usage.received

\* Summaries of summaries stay anchored in the history, none stands in the way
\* of the next unless there is nothing else to summarise, and every response
\* that was paid for is reported (bind_summary_source, from_parts,
\* generate_summary).
RecursionStands == SummariesStayAnchored /\ NextCanBeAsked /\ UsageIsComplete
=============================================================================
