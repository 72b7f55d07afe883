----------------------------- MODULE ContextProtocol -----------------------------
(***************************************************************************)
(* What a conversation must look like to be compacted and to be sent: the   *)
(* grouping of tool exchanges, the protected tail, the human anchor, the    *)
(* split into a summarized prefix and a kept suffix, the token window that  *)
(* asks for it, and the projection of messages onto the two providers'      *)
(* wire formats.  Everything here is a function of a message sequence.      *)
(*                                                                         *)
(* A message is a role and its blocks; a block is text, reasoning, a tool   *)
(* call or a tool result.  cid is the provider's optional second call id    *)
(* ("none" when absent).                                                    *)
(***************************************************************************)
EXTENDS Integers, Sequences, SequencesExt

Text == [kind |-> "text", id |-> 0, cid |-> "none"]
Reasoning == [Text EXCEPT !.kind = "reasoning"]
Call(id, cid) == [kind |-> "call", id |-> id, cid |-> cid]
Result(id, cid) == [kind |-> "result", id |-> id, cid |-> cid]
Message(role, blocks) == [role |-> role, blocks |-> blocks]
UserText == Message("user", <<Text>>)

Blocks(m, kind) == SelectSeq(m.blocks, LAMBDA b : b.kind = kind)
Carries(m, kind) == \E i \in DOMAIN m.blocks : m.blocks[i].kind = kind
IdsIn(bs) == {bs[i].id : i \in DOMAIN bs}

-----------------------------------------------------------------------------
(* group_messages.  A group is a half-open range of messages.              *)

Invalid == -1

\* The index after the exchange that the assistant message at a opens, or
\* Invalid: results are consumed until each call is answered once, each by a
\* user message that carries results and nothing unknown, repeated or
\* contradicted.
ResultFits(calls, pending, r) ==
    /\ r.id \in pending
    /\ \A i \in DOMAIN calls :
          calls[i].id = r.id /\ calls[i].cid # "none" /\ r.cid # "none" => calls[i].cid = r.cid

TakeResults(calls, pending, m) ==
    FoldLeft(LAMBDA left, r : IF Invalid \in left \/ ~ResultFits(calls, left, r)
                              THEN {Invalid} ELSE left \ {r.id},
             pending, Blocks(m, "result"))

CloseExchange(ms, a) ==
    LET calls == Blocks(ms[a], "call")
        close[i \in 1..Len(ms) + 1, pending \in SUBSET (IdsIn(calls) \cup {Invalid})] ==
            IF pending = {} THEN i
            ELSE IF Invalid \in pending \/ i > Len(ms) THEN Invalid
            ELSE IF ms[i].role # "user" \/ ~Carries(ms[i], "result") THEN Invalid
            ELSE close[i + 1, TakeResults(calls, pending, ms[i])]
    IN IF ~IsInjective([i \in DOMAIN calls |-> calls[i].id]) THEN Invalid
       ELSE close[a + 1, IdsIn(calls)]

Group(from, next, exchange) == [from |-> from, next |-> next, exchange |-> exchange]

\* <<ok, groups>>
GroupMessages(ms) ==
    LET group[i \in 1..Len(ms) + 1] ==
            IF i > Len(ms) THEN <<TRUE, <<>>>>
            ELSE LET exchange == ms[i].role = "assistant" /\ Carries(ms[i], "call")
                     next == IF exchange THEN CloseExchange(ms, i)
                             ELSE IF ms[i].role = "user" /\ Carries(ms[i], "result") THEN Invalid
                             ELSE i + 1
                 IN IF next = Invalid THEN <<FALSE, <<>>>>
                    ELSE <<group[next][1], <<Group(i, next, exchange)>> \o group[next][2]>>
    IN group[1]

Canonical(ms) == GroupMessages(ms)[1]
GroupsOf(ms) == GroupMessages(ms)[2]

-----------------------------------------------------------------------------
(* select_protected_recent_tail: the suffix from the last exchange, extended *)
(* to the left while the estimates of whole groups fit the budget.          *)

LastExchange(groups) == SelectLastInSeq(groups, LAMBDA g : g.exchange)
MandatoryLast(groups) == Len(groups)
Mandatory(groups) == IF LastExchange(groups) # 0 THEN LastExchange(groups) ELSE Len(groups)

TailTokens(estimates, from) == FoldLeft(LAMBDA x, y : x + y, 0, SubSeq(estimates, from, Len(estimates)))

ProtectedStart(groups, estimates, budget) ==
    LET fits(k) == \A j \in k..Mandatory(groups) - 1 : TailTokens(estimates, j) <= budget
    IN CHOOSE k \in 1..Mandatory(groups) :
          /\ fits(k)
          /\ \A j \in 1..k - 1 : ~fits(j)

\* current_human_request_anchor: the latest human message, if the summary takes it.
Anchor(human, summarizedEnd) ==
    LET latest == CHOOSE i \in human \cup {0} : \A j \in human : j <= i
    IN IF human # {} /\ latest < summarizedEnd THEN latest ELSE 0

-----------------------------------------------------------------------------
(* The token window: the pressure level compares fractions, selection       *)
(* compares whole tokens.  A window gives its usable size and its ratios in *)
(* percent.                                                                 *)

\* validate_window, None as 0; validate_ratios.
UsableLimit(limit, reserved, margin) == IF limit > reserved + margin THEN limit - (reserved + margin) ELSE 0
ValidRatios(w) ==
    /\ 0 < w.target /\ w.target < w.soft /\ w.soft < w.hard /\ w.hard < 100
    /\ 0 < w.recent /\ w.recent < 100

BudgetLevel(tokens, w) ==
    IF tokens * 100 >= w.hard * w.usable THEN "hard"
    ELSE IF tokens * 100 >= w.soft * w.usable THEN "soft" ELSE "normal"

ReachedTarget(tokens, w) == tokens * 100 <= w.target * w.usable

RatioTokens(w, ratio) == (w.usable * ratio) \div 100
TargetTokens(w) == IF RatioTokens(w, w.target) = 0 THEN 1 ELSE RatioTokens(w, w.target)
SoftTokens(w) == RatioTokens(w, w.soft)
ValidLimits(w) == TargetTokens(w) < SoftTokens(w)

CandidateLoadTolerant(tokens, w) ==
    IF tokens <= TargetTokens(w) THEN "target_reached"
    ELSE IF tokens <= SoftTokens(w) THEN "below_soft" ELSE "requires_compaction"
CandidateLoad(tokens, w) ==
    IF tokens <= TargetTokens(w) THEN "target_reached"
    ELSE IF tokens < SoftTokens(w) THEN "below_soft" ELSE "requires_compaction"

\* select_prefix_tail, for a candidate whose groups are those of ms.
Select(ms, groups, start, human, load) ==
    IF load = "target_reached" \/ (start = 1 /\ load = "below_soft") THEN [kind |-> "deterministic"]
    ELSE IF start = 1 THEN [kind |-> "uncompressible"]
    ELSE [kind |-> "summarize",
          tail |-> SubSeq(ms, groups[start].from, Len(ms)),
          anchor |-> Anchor(human, groups[start].from)]

\* The context a summary leaves behind: the summary, the anchored request when
\* it was absorbed, and the kept tail.
Compacted(ms, selection) ==
    <<UserText>> \o (IF selection.anchor = 0 THEN <<>> ELSE <<ms[selection.anchor]>>) \o selection.tail

-----------------------------------------------------------------------------
(* The wire: From<Message> of both providers.                              *)

WireId(provider, b) ==
    IF provider = "openai" /\ b.cid # "none" THEN <<"call_id", b.cid>> ELSE <<"id", b.id>>

WireResults(provider, m) ==
    LET rs == Blocks(m, "result") IN
    [i \in DOMAIN rs |-> [role |-> "tool", ids |-> <<WireId(provider, rs[i])>>]]
WireText(m) == IF Carries(m, "text") THEN <<[role |-> "user", ids |-> <<>>]>> ELSE <<>>

\* Results before text, whatever their order in the message.
WireUserInOrder(provider, m) ==
    FlattenSeq([i \in DOMAIN m.blocks |->
        IF m.blocks[i].kind = "result"
        THEN <<[role |-> "tool", ids |-> <<WireId(provider, m.blocks[i])>>]>>
        ELSE <<[role |-> "user", ids |-> <<>>]>>])
WireUser(provider, m) == WireResults(provider, m) \o WireText(m)

WireAssistant(provider, m) ==
    LET calls == Blocks(m, "call") IN
    <<[role |-> "assistant", ids |-> [i \in DOMAIN calls |-> WireId(provider, calls[i])]]>>

WireMessage(provider, m) ==
    CASE m.role = "system" -> <<[role |-> "system", ids |-> <<>>]>>
      [] m.role = "user" -> WireUser(provider, m)
      [] OTHER -> WireAssistant(provider, m)

\* project_agent: system text first, harness state last, the messages between.
Request(provider, system, messages, state) ==
    FlattenSeq([i \in DOMAIN (system \o messages \o state) |->
                  WireMessage(provider, (system \o messages \o state)[i])])

\* What both APIs demand: after an assistant message with calls come its tool
\* messages, each call answered once, before anything else.
WirePaired(ws) ==
    \A i \in DOMAIN ws :
        /\ ws[i].role = "assistant" /\ ws[i].ids # <<>> =>
              \E n \in 1..Len(ws) - i :
                  /\ \A k \in i + 1..i + n : ws[k].role = "tool"
                  /\ i + n = Len(ws) \/ ws[i + n + 1].role # "tool"
                  /\ n = Len(ws[i].ids)
                  /\ ToSet(ws[i].ids) = {ws[k].ids[1] : k \in i + 1..i + n}
        /\ ws[i].role = "tool" => i > 1 /\ ws[i - 1].role \in {"tool", "assistant"}

-----------------------------------------------------------------------------
(* A history that grows message by message.                                *)

CONSTANTS
    Shapes,      \* the messages it may grow by
    MaxMessages, \* bound on its length
    Windows      \* token windows to try; every message costs one token

VARIABLE history

\* Only windows the configuration accepts.
Accepted == {w \in Windows : w.usable > 0 /\ ValidRatios(w)}

ProtocolInit == history = <<>>
Grow == Len(history) < MaxMessages /\ \E m \in Shapes : history' = Append(history, m)
ProtocolSpec == ProtocolInit /\ [][Grow]_history

HumanIn(ms) == {i \in DOMAIN ms : ms[i] = UserText}
Estimates(groups) == [g \in DOMAIN groups |-> groups[g].next - groups[g].from]
\* A call and its result differ in the second id (only one of them has it, when
\* grouping accepts the history).
SecondIdOneSided(ms) ==
    \E i, j \in DOMAIN ms : \E b \in DOMAIN ms[i].blocks, c \in DOMAIN ms[j].blocks :
        /\ ms[i].blocks[b].kind = "call" /\ ms[j].blocks[c].kind = "result"
        /\ ms[i].blocks[b].id = ms[j].blocks[c].id
        /\ ms[i].blocks[b].cid # ms[j].blocks[c].cid

\* Text beside a result that is not the last of its exchange.
TalksBetweenResults(ms) ==
    \E i \in DOMAIN ms : /\ i < Len(ms) /\ Carries(ms[i], "text") /\ Carries(ms[i], "result")
                        /\ Carries(ms[i + 1], "result")

\* A history the grouping accepts is one both providers accept: each call is
\* answered once and at once, even when a message mixes results and text
\* (group_messages, From<Message>).  Grouping has two gaps: a second id
\* that only the call or only the result has, so that OpenAI is sent two ids for
\* one call, and text between two results.  The runner writes neither: it copies
\* both ids into the result and gives each result a message of its own.
AcceptedIsReplayable ==
    Canonical(history) /\ history # <<>> /\ ~TalksBetweenResults(history) =>
        \A provider \in {"openai", "deepseek"} :
            \/ provider = "openai" /\ SecondIdOneSided(history)
            \/ WirePaired(Request(provider, <<Message("system", <<Text>>)>>, history, <<UserText>>))

\* Whatever the budget, the split cuts no exchange, keeps the latest one
\* verbatim and never loses the request being worked on, and what it leaves can
\* itself be grouped, split and sent again (select_protected_recent_tail,
\* select_prefix_tail, current_human_request_anchor).
SplitIsSafe ==
    LET groups == GroupsOf(history)
        human == HumanIn(history)
    IN Canonical(history) /\ history # <<>> =>
        \A w \in Accepted :
            LET start == ProtectedStart(groups, Estimates(groups), RatioTokens(w, w.recent))
                s == Select(history, groups, start, human, "requires_compaction")
            IN s.kind = "summarize" =>
                LET after == Compacted(history, s) IN
                /\ Canonical(after)
                /\ \A i \in DOMAIN history : Carries(history[i], "call") =>
                       i \in groups[start].from..Len(history)
                       \/ \E j \in i + 1..Len(history) : Carries(history[j], "call")
                /\ \A i \in human : (\A j \in human : j <= i) => \E k \in DOMAIN after : k > 1 /\ after[k] = history[i]
                /\ ~SecondIdOneSided(history) /\ ~TalksBetweenResults(history) =>
                       WirePaired(Request("openai", <<>>, after, <<>>))

\* Only a context under no pressure is kept without a summary: the rounded
\* token limits of selection never let through what the exact ratios call soft
\* or hard (selection_limits, CandidateLoad::classify, ContextBudget::level).
PressureIsRelieved ==
    LET groups == GroupsOf(history)
        tokens == Len(history)
    IN Canonical(history) /\ history # <<>> =>
        \A w \in Accepted : ValidLimits(w) =>
            LET start == ProtectedStart(groups, Estimates(groups), RatioTokens(w, w.recent))
                load == CandidateLoad(tokens, w)
                s == Select(history, groups, start, HumanIn(history), load)
            IN /\ s.kind = "deterministic" => BudgetLevel(tokens, w) = "normal" \/ tokens = 1
               /\ ReachedTarget(tokens, w) => load = "target_reached"

\* What compaction accepts both providers accept, what it makes of a context can
\* itself be grouped, split and sent again, and only a context under no pressure
\* is left as it is (group_messages, select_prefix_tail, CandidateLoad::classify).
ContextIsManaged == AcceptedIsReplayable /\ SplitIsSafe /\ PressureIsRelieved

=============================================================================
