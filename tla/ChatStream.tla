------------------------------- MODULE ChatStream -------------------------------
(***************************************************************************)
(* One streamed model call: RetryModel around the provider's connection,    *)
(* the decoder that cuts the body into lines, the assembler that folds the  *)
(* frames, and the terminal message.                                        *)
(*                                                                         *)
(* The provider composes an answer and streams it in fragments: text,       *)
(* reasoning, and the fragments of parallel tool calls interleaved in any   *)
(* order.  A string is a sequence of symbols, " " among them; the arguments *)
(* of a tool call are JSON when they are blank or both halves are there.    *)
(***************************************************************************)
EXTENDS Naturals, FiniteSets, Sequences, SequencesExt

CONSTANTS
    MaxRetries,  \* RetryPolicy::max_retries
    Indexes,     \* positions of parallel tool calls
    MaxText      \* bound on the text fragments of an answer

\* A call's index is a usize.
ASSUME StreamConstants == Indexes \subseteq Nat /\ MaxRetries \in Nat

VARIABLES
    provider,   \* "openai" or "deepseek"
    attempt,    \* retries made so far
    channel,    \* "connecting", "open" or "closed"
    sent,       \* what the provider has put into frames on this connection
    line,       \* the frame whose line is still incomplete in the decoder
    received,   \* the answer as far as its frames arrived in full
    asm,        \* the StreamAssembler
    shown,      \* the deltas yielded to the caller
    outcome     \* how the call ended

streamVars == <<provider, attempt, channel, sent, line, received, asm, shown, outcome>>

\* An answer: what one-shot completion would return in one piece.  A reasoning
\* field may be there and empty (reasoned, with no reasoning).
NoCall == [known |-> FALSE, args |-> <<>>]
EmptyAnswer == [text |-> <<>>, refusal |-> <<>>, reasoned |-> FALSE, reasoning |-> <<>>,
                calls |-> [i \in Indexes |-> NoCall], finished |-> FALSE]

Blank(s) == \A i \in DOMAIN s : s[i] = " "
Parses(args) == Blank(args) \/ args = <<"{", "}">>

\* Frames.
NoFrame == [kind |-> "none"]
TextFrame(s) == [kind |-> "text", s |-> s]
RefusalFrame(s) == [kind |-> "refusal", s |-> s]
ReasoningFrame(s) == [kind |-> "reasoning", s |-> s]
CallFrame(i, head, s) == [kind |-> "call", index |-> i, head |-> head, s |-> s]
FinishFrame == [kind |-> "finish"]
DoneFrame == [kind |-> "done"]
ErrorFrame == [kind |-> "error"]

AddFrame(answer, f) ==
    CASE f.kind = "text" -> [answer EXCEPT !.text = @ \o f.s]
      [] f.kind = "refusal" -> [answer EXCEPT !.refusal = @ \o f.s]
      [] f.kind = "reasoning" -> [answer EXCEPT !.reasoned = TRUE, !.reasoning = @ \o f.s]
      [] f.kind = "call" -> [answer EXCEPT !.calls[f.index] = [known |-> TRUE, args |-> @.args \o f.s]]
      [] f.kind = "finish" -> [answer EXCEPT !.finished = TRUE]
      [] OTHER -> answer

-----------------------------------------------------------------------------
(* The one-shot projection of an answer (TryFrom of either response).      *)

Ok(content) == [ok |-> TRUE, content |-> content]
Failed == [ok |-> FALSE, content |-> <<>>]
TextBlock(s) == IF s = <<>> THEN <<>> ELSE <<[kind |-> "text", s |-> s]>>
CallBlock(i, args) == [kind |-> "call", index |-> i, args |-> args]

Ascending(is) == [k \in 1..Cardinality(is) |-> CHOOSE i \in is : Cardinality({j \in is : j < i}) = k - 1]
CallsOf(answer) ==
    LET order == Ascending({i \in Indexes : answer.calls[i].known}) IN
    [k \in 1..Len(order) |-> CallBlock(order[k], answer.calls[order[k]].args)]

OneShot(answer) ==
    LET spoken == (IF Blank(answer.text) THEN <<>> ELSE answer.text) \o answer.refusal
        content == TextBlock(spoken) \o CallsOf(answer)
                   \o (IF answer.reasoned THEN <<[kind |-> "reasoning", s |-> answer.reasoning]>>
                       ELSE <<>>)
    IN IF content = <<>> \/ \E i \in Indexes : ~Parses(answer.calls[i].args)
       THEN Failed ELSE Ok(content)

-----------------------------------------------------------------------------
(* StreamAssembler.                                                        *)

EmptyAssembler == [text |-> <<>>, reasoning |-> <<>>, calls |-> <<>>]
NothingShown == [text |-> <<>>, reasoning |-> <<>>, starts |-> <<>>]

At(calls, i) == {k \in DOMAIN calls : calls[k].index = i}
NewCall(i) == [index |-> i, known |-> FALSE, args |-> <<>>, announced |-> FALSE]

\* Fragments accrue under their index; a call is announced once id and name
\* are known.
IngestCallByArrival(calls, f) ==
    IF f.head THEN Append(calls, [index |-> f.index, known |-> TRUE, args |-> f.s, announced |-> TRUE])
    ELSE [calls EXCEPT ![Len(calls)].args = @ \o f.s]
IngestCall(calls, f) ==
    LET grown == IF At(calls, f.index) = {} THEN Append(calls, NewCall(f.index)) ELSE calls
    IN [grown EXCEPT ![CHOOSE k \in At(grown, f.index) : \A l \in At(grown, f.index) : k <= l] =
            [index |-> @.index, known |-> @.known \/ f.head, args |-> @.args \o f.s,
             announced |-> @.announced \/ f.head]]
Announces(calls, f) == f.head /\ \A k \in At(calls, f.index) : ~calls[k].announced

Ingest(f) ==
    CASE f.kind \in {"text", "refusal"} ->
            /\ asm' = [asm EXCEPT !.text = @ \o f.s]
            /\ shown' = [shown EXCEPT !.text = @ \o f.s]
      [] f.kind = "reasoning" ->
            /\ asm' = [asm EXCEPT !.reasoning = @ \o f.s]
            /\ shown' = [shown EXCEPT !.reasoning = @ \o f.s]
      [] f.kind = "call" ->
            /\ asm' = [asm EXCEPT !.calls = IngestCall(@, f)]
            /\ shown' = [shown EXCEPT !.starts = IF Announces(asm.calls, f) THEN Append(@, f.index) ELSE @]
      [] OTHER -> UNCHANGED <<asm, shown>>

\* A stable sort by index: a call stands behind the Before ones.
Before(calls, k) ==
    {l \in DOMAIN calls : calls[l].index < calls[k].index \/ (calls[l].index = calls[k].index /\ l < k)}
ByIndex(calls) ==
    [n \in DOMAIN calls |-> calls[CHOOSE k \in DOMAIN calls : Cardinality(Before(calls, k)) = n - 1]]

FinishUnsorted(a) ==
    LET content == (IF Blank(a.text) THEN <<>> ELSE TextBlock(a.text))
                   \o [k \in DOMAIN a.calls |-> CallBlock(a.calls[k].index, a.calls[k].args)]
                   \o (IF a.reasoning = <<>> THEN <<>> ELSE <<[kind |-> "reasoning", s |-> a.reasoning]>>)
    IN IF content = <<>> \/ \E k \in DOMAIN a.calls : ~Parses(a.calls[k].args) THEN Failed ELSE Ok(content)
Finish(a) ==
    FinishUnsorted([a EXCEPT !.calls = ByIndex(@)])

-----------------------------------------------------------------------------
StreamInit ==
    /\ provider \in {"openai", "deepseek"}
    /\ attempt = 0 /\ channel = "connecting" /\ outcome = [kind |-> "pending"]
    /\ sent = EmptyAnswer /\ received = EmptyAnswer /\ line = NoFrame
    /\ asm = EmptyAssembler /\ shown = NothingShown

EndCall(o) == outcome' = o /\ channel' = "closed"
FailedCall == EndCall([kind |-> "failed"])

\* RetryModel::stream: the connection is established, or fails in a way that
\* may pass (timeout, 408, 429, 5xx) or in one that never will (other 4xx, a
\* body that is not an event stream).
Connect ==
    /\ channel = "connecting"
    /\ channel' = "open"
    /\ UNCHANGED <<provider, attempt, sent, line, received, asm, shown, outcome>>

ConnectFails(transient) ==
    /\ channel = "connecting"
    /\ IF transient /\ attempt < MaxRetries
       THEN attempt' = attempt + 1 /\ UNCHANGED <<channel, outcome>>
       ELSE FailedCall /\ UNCHANGED attempt
    /\ UNCHANGED <<provider, sent, line, received, asm, shown>>

\* The next frame of the provider's answer.  A call's id and name come in its
\* first fragment; a refusal replaces the text of an answer and is never blank;
\* only DeepSeek streams reasoning, in fragments that may be empty, and only
\* OpenAI refuses.
NextFrames(answer) ==
    IF answer.finished THEN {DoneFrame, ErrorFrame}
    ELSE {ErrorFrame, FinishFrame}
      \cup {TextFrame(<<s>>) : s \in IF Len(answer.text) < MaxText /\ answer.refusal = <<>>
                                     THEN {"a", " "} ELSE {}}
      \cup {RefusalFrame(s) : s \in IF provider = "openai" /\ answer.text = <<>> /\ Len(answer.refusal) < MaxText
                                    THEN {<<"r">>} ELSE {}}
      \cup {ReasoningFrame(s) : s \in IF provider = "deepseek" /\ answer.reasoning = <<>>
                                          THEN {<<>>, <<"z">>} ELSE {}}
      \cup UNION {IF answer.calls[i].known
                  THEN {CallFrame(i, FALSE, s) : s \in IF answer.calls[i].args = <<>> THEN {<<"{">>, <<" ">>}
                                                       ELSE IF answer.calls[i].args = <<"{">> THEN {<<"}">>} ELSE {}}
                  ELSE {CallFrame(i, TRUE, <<>>), CallFrame(i, TRUE, <<"{">>)} : i \in Indexes}

\* A complete line reaches the assembler; [DONE] ends the body; an error frame
\* ends the stream with an error.
Decode(f) ==
    /\ received' = AddFrame(received, f)
    /\ line' = NoFrame
    /\ CASE f.kind = "error" -> FailedCall /\ UNCHANGED <<asm, shown>>
         [] f.kind = "done" -> EndCall([kind |-> "finished", result |-> Finish(asm)]) /\ UNCHANGED <<asm, shown>>
         [] OTHER -> Ingest(f) /\ UNCHANGED <<channel, outcome>>

\* A network chunk: a whole line, the first part of one, or the rest of one.
WholeLine ==
    /\ channel = "open" /\ line = NoFrame
    /\ \E f \in NextFrames(sent) : sent' = AddFrame(sent, f) /\ Decode(f)
    /\ UNCHANGED <<provider, attempt>>

HalfLine ==
    /\ channel = "open" /\ line = NoFrame
    /\ \E f \in NextFrames(sent) : sent' = AddFrame(sent, f) /\ line' = f
    /\ UNCHANGED <<provider, attempt, channel, received, asm, shown, outcome>>

RestOfLine ==
    /\ channel = "open" /\ line # NoFrame
    /\ Decode(line)
    /\ UNCHANGED <<provider, attempt, sent>>

\* The connection fails after it was established: an item of the stream, which
\* RetryModel leaves alone.
BodyFailsRetried ==
    /\ channel = "open"
    /\ IF attempt < MaxRetries
       THEN /\ attempt' = attempt + 1 /\ channel' = "connecting" /\ UNCHANGED outcome
            /\ sent' = EmptyAnswer /\ received' = EmptyAnswer /\ line' = NoFrame /\ asm' = EmptyAssembler
       ELSE FailedCall /\ UNCHANGED <<attempt, sent, received, line, asm>>
    /\ UNCHANGED <<provider, shown>>
BodyFails ==
    /\ channel = "open"
    /\ FailedCall
    /\ UNCHANGED <<provider, attempt, sent, line, received, asm, shown>>

\* The body ends without [DONE]: what has arrived is the answer, and an
\* unfinished line is dropped.
BodyEnds ==
    /\ channel = "open"
    /\ EndCall([kind |-> "finished", result |-> Finish(asm)])
    /\ UNCHANGED <<provider, attempt, sent, line, received, asm, shown>>

StreamNext ==
    \/ Connect \/ \E transient \in BOOLEAN : ConnectFails(transient)
    \/ WholeLine \/ HalfLine \/ RestOfLine
    \/ BodyFails \/ BodyEnds

StreamSpec == StreamInit /\ [][StreamNext]_streamVars

-----------------------------------------------------------------------------
\* A reasoning field that is there and holds nothing.
EmptyReasoning(answer) == answer.reasoned /\ answer.reasoning = <<>>

\* However the answer was cut into fragments, frames and network chunks, and in
\* whatever order the fragments of parallel calls came, the terminal message is
\* the one the non-streaming path builds from the same answer, errors included.
\* The two differ over an empty reasoning field and over nothing else: DeepSeek's
\* one-shot path makes a block of it, and so accepts an answer that holds nothing
\* besides, where the stream takes the field as absent (StreamAssembler::finish,
\* TryFrom of both providers' responses).
TerminalIsOneShot ==
    outcome.kind = "finished" =>
        outcome.result = IF EmptyReasoning(received) THEN OneShot([received EXCEPT !.reasoned = FALSE])
                         ELSE OneShot(received)

\* The caller never sees an answer twice or a call announced twice: what was
\* rendered is what this one connection delivered in full (RetryModel::stream).
ShownOnce ==
    /\ shown.text = received.text \o received.refusal
    /\ shown.reasoning = received.reasoning
    /\ IsInjective(shown.starts)
    /\ Range(shown.starts) = {i \in Indexes : received.calls[i].known}

\* However an answer is cut up on its way, the message is the one the
\* non-streaming path builds, an empty reasoning field apart, and the caller saw
\* it once (StreamAssembler, RetryModel::stream).
StreamedIsOneShot == TerminalIsOneShot /\ ShownOnce

=============================================================================
