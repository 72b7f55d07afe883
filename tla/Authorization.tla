----------------------------- MODULE Authorization -----------------------------
(***************************************************************************)
(* The authorization of tool calls: preparation, hook stabilization with    *)
(* input rewrites, policy resolution over static rules, session rules,      *)
(* hooks and the permission mode, the approval challenge with its optional  *)
(* persisted rule, and the execution of the receipt against a file system   *)
(* that other processes change meanwhile.  AgentLoop abstracts all of this  *)
(* to the outcomes it can have; here the decision itself is the subject.    *)
(*                                                                         *)
(* A check stands for one canonical permission target.  What an input's     *)
(* preparation resolves to depends on the world: on where its path leads.   *)
(***************************************************************************)
EXTENDS Naturals, FiniteSets

CONSTANTS
    Input, NoInput,  \* canonical inputs of the tool; no replacement
    World,           \* file-system states a path resolves in
    Check,           \* permission checks a preparation can emit
    Verdict,         \* [Input -> "ok" | "invalid" | "violates"]
    ChecksOf,        \* [Input -> [World -> nonempty SUBSET Check]]
    Default,         \* [Check -> "Allow" | "RequireApproval"]
    Kind,            \* [Check -> "read" | "edit" | "other"]
    StaticRule,      \* set of [id, check, effect, project]
    Trusted,         \* BOOLEAN: is the workspace trusted
    Modes,           \* permission modes the host may set
    Hook,            \* registered authorization hooks
    MayAllow, MayRewrite, MayAnswer, MayPersist,  \* their capabilities
    HookReplies,     \* [Hook -> set of [effect, replacement]]
    MaxRewrites,     \* MAX_REWRITES
    MaxGeneration,   \* u8::MAX
    MaxIterations,   \* MAX_AUTHORIZATION_ITERATIONS
    MaxRestarts,     \* MAX_AUTHORIZATION_RESTARTS
    MaxCalls,        \* bound on the calls of a history
    MaxRevision      \* bound on the mode switches of a history

Effects == {"Allow", "RequireApproval", "Deny"}
Good == {i \in Input : Verdict[i] = "ok"}

ASSUME AuthorizationAssumption ==
    /\ NoInput \notin Input
    /\ \A i \in Input : \A w \in World :
            ChecksOf[i][w] \subseteq Check /\ ChecksOf[i][w] # {}
    /\ Verdict \in [Input -> {"ok", "invalid", "violates"}]
    /\ Default \in [Check -> {"Allow", "RequireApproval"}]
    /\ \A r \in StaticRule : r.check \in Check /\ r.effect \in Effects
    /\ MayAllow \cup MayRewrite \cup MayAnswer \cup MayPersist \subseteq Hook
    /\ {MaxRewrites, MaxGeneration, MaxIterations, MaxRestarts, MaxCalls, MaxRevision} \subseteq Nat
    /\ MaxIterations > 0

ASSUME HookReplyAssumption ==
    \A h \in Hook : HookReplies[h] \subseteq
        [effect : Effects \cup {"none", "error"}, replacement : Input \cup {NoInput}]

VARIABLES
    pc,        \* where the call in progress stands
    prepared,  \* the request in hand: input, generation and checks
    hookc,     \* hook contributions of that generation
    rewrites,  \* inputs prepared and rewrites taken since authorization began
    iteration, \* iterations of the authorization loop
    restarts,  \* receipts found stale so far
    mode,      \* the session overlay: permission mode,
    rules,     \*   session rules,
    revision,  \*   and revision
    challenge, \* the open approval challenge
    receipt,   \* the overlay revision the execution receipt carries
    world,     \* the file system
    calls,     \* calls begun
    result,    \* how the last call ended
    granted,   \* history: approvals given to the authorization in progress
    refused    \* history: checks a user denied for the session

vars == <<pc, prepared, hookc, rewrites, iteration, restarts, mode, rules, revision,
          challenge, receipt, world, calls, result, granted, refused>>
session == <<mode, rules, revision, refused>>

-----------------------------------------------------------------------------
(* Policy resolution of one check.                                         *)

Contribution(cause, effect) == [cause |-> cause, effect |-> effect]

\* An untrusted workspace may restrict, never permit.
Effective(r) == Trusted \/ ~r.project \/ r.effect # "Allow"

ModeEffect(c) ==
    CASE mode = "acceptEdits" /\ Kind[c] = "edit" -> {"Allow"}
      [] mode = "plan" /\ Kind[c] # "read"        -> {"Deny"}
      [] mode = "bypass"                          -> {"Allow"}
      [] OTHER                                    -> {}

\* What bears on check c under the session rules ruleset.
Contributions(c, ruleset) ==
    {Contribution(<<"rule", r.id>>, r.effect) :
        r \in {r \in StaticRule : r.check = c /\ Effective(r)}}
    \cup {Contribution(<<"session", r.effect>>, r.effect) : r \in {r \in ruleset : r.check = c}}
    \cup {Contribution(<<"mode", mode>>, e) : e \in ModeEffect(c)}
    \cup hookc

Strictest(effects) ==
    IF "Deny" \in effects THEN "Deny"
    ELSE IF "RequireApproval" \in effects THEN "RequireApproval" ELSE "Allow"

ResolveCheck(c, ruleset) ==
    LET all    == Contributions(c, ruleset)
        effect == Strictest({x.effect : x \in all})
    IN  IF all = {}
        THEN [effect |-> Default[c], basis |-> "default",
              causes |-> IF Default[c] = "Allow" THEN {} ELSE {<<"profile_default", c>>}]
        ELSE [effect |-> effect, basis |-> "explicit",
              causes |-> {x.cause : x \in {x \in all : x.effect = effect}}]

CallEffect(resolution) == Strictest({resolution[c].effect : c \in DOMAIN resolution})
Resolution(ruleset) == [c \in prepared.checks |-> ResolveCheck(c, ruleset)]

-----------------------------------------------------------------------------
(* Hook outcomes, held to the capabilities a hook registered with.         *)

FailClosed == [effect |-> "Deny", replacement |-> NoInput]

ValidateOutcome(h, o) ==
    IF \/ o.effect = "error"
       \/ o.effect = "Allow" /\ h \notin MayAllow
       \/ o.replacement # NoInput /\ h \notin MayRewrite
    THEN FailClosed ELSE o

HookContributions(outcomes) ==
    {Contribution(<<"hook", h, prepared.generation, prepared.input, outcomes[h].effect>>,
                  outcomes[h].effect) : h \in {h \in Hook : outcomes[h].effect # "none"}}

\* Mutant: neither the limit nor the cycle check.
TakeRewriteUnchecked(i) == [taken |-> TRUE, next |-> rewrites]

\* A rewrite is taken at most MaxRewrites times, and never to an input this
\* authorization has already prepared.
TakeRewrite(i) ==
    IF rewrites.count >= MaxRewrites \/ i \in rewrites.seen
    THEN [taken |-> FALSE, next |-> rewrites]
    ELSE [taken |-> TRUE, next |-> [seen |-> rewrites.seen \cup {i}, count |-> rewrites.count + 1]]

-----------------------------------------------------------------------------
(* Approval challenges.                                                    *)

SessionRule(c, e) == [check |-> c, effect |-> e]

Pending(resolution) ==
    {c \in DOMAIN resolution : resolution[c].effect = "RequireApproval"}

\* Mutant: an Allow is offered whatever asked.
MutationOptionsWide(resolution) ==
    {SessionRule(c, e) : c \in Pending(resolution), e \in {"Allow", "Deny"}}

\* What an answer may persist: an Allow only where nothing but the profile
\* default asked, a Deny always.
MutationOptions(resolution) ==
    {SessionRule(c, "Allow") : c \in {c \in Pending(resolution) : resolution[c].basis = "default"}}
    \cup {SessionRule(c, "Deny") : c \in Pending(resolution)}

NewChallenge(resolution) ==
    [input |-> prepared.input, generation |-> prepared.generation, revision |-> revision,
     causes |-> [c \in Pending(resolution) |-> resolution[c].causes],
     options |-> MutationOptions(resolution)]

NoRule == SessionRule("none", "none")
NoChallenge == [input |-> NoInput, generation |-> 0, revision |-> 0,
                causes |-> [c \in {} |-> {}], options |-> {}]

Answers ==
    [kind : {"approve", "deny"}, rule : {NoRule} \cup {SessionRule(c, e) : c \in Check, e \in {"Allow", "Deny"}},
     input : {NoInput}]
    \cup [kind : {"cancel"}, rule : {NoRule}, input : {NoInput}]
    \cup [kind : {"replace"}, rule : {NoRule}, input : Input]
DenyOnce == [kind |-> "deny", rule |-> NoRule, input |-> NoInput]

Wanted(a) == IF a.kind = "approve" THEN "Allow" ELSE "Deny"
MutationValid(a) == a.rule = NoRule \/ (a.rule \in challenge.options /\ a.rule.effect = Wanted(a))

\* A hook answers first; it may do no more than it registered for.
HookAnswer(h, a) ==
    IF \/ h \notin MayAnswer
       \/ a.kind = "replace" /\ h \notin MayRewrite
       \/ a.rule # NoRule /\ ~(MutationValid(a) /\ h \in MayPersist)
    THEN DenyOnce ELSE a

\* Mutant: only approvals reach the overlay.
ApplyMutationApprovals(a) ==
    /\ rules' = IF a.rule = NoRule \/ a.kind = "deny" THEN rules ELSE rules \cup {a.rule}
    /\ revision' = IF a.rule = NoRule THEN revision ELSE revision + 1
    /\ refused' = IF a.kind = "deny" /\ a.rule # NoRule THEN refused \cup {a.rule.check} ELSE refused

ApplyMutation(a) ==
    /\ rules' = IF a.rule = NoRule THEN rules ELSE rules \cup {a.rule}
    /\ revision' = IF a.rule = NoRule THEN revision ELSE revision + 1
    /\ refused' = IF a.kind = "deny" /\ a.rule # NoRule THEN refused \cup {a.rule.check} ELSE refused

\* Does the approval of the open challenge cover what is asked now?
Covers(resolution) ==
    \A c \in Pending(resolution) :
        c \in DOMAIN challenge.causes /\ resolution[c].causes \subseteq challenge.causes[c]

-----------------------------------------------------------------------------
(* Starting, ending and continuing an authorization.                       *)

NoRequest == [input |-> NoInput, generation |-> 0, checks |-> {}]
Request(i, generation) == [input |-> i, generation |-> generation, checks |-> ChecksOf[i][world]]
NextRequest(i) ==  \* the generation counter saturates
    Request(i, IF prepared.generation < MaxGeneration THEN prepared.generation + 1
               ELSE MaxGeneration)

Init ==
    /\ pc = "idle" /\ result = "none" /\ calls = 0
    /\ prepared = NoRequest /\ hookc = {} /\ rewrites = [seen |-> {}, count |-> 0]
    /\ iteration = 0 /\ restarts = 0
    /\ mode \in Modes /\ rules = {} /\ revision = 0
    /\ challenge = NoChallenge /\ receipt = 0
    /\ world \in World
    /\ granted = {} /\ refused = {}

Finish(r) ==
    /\ pc' = "idle" /\ result' = r
    /\ prepared' = NoRequest /\ hookc' = {} /\ challenge' = NoChallenge
    /\ granted' = {} /\ rewrites' = [seen |-> {}, count |-> 0] /\ iteration' = 0
    /\ restarts' = 0 /\ receipt' = 0

\* The outcome of a preparation that yields no request.
BadPreparation(i) == IF Verdict[i] = "invalid" THEN "rejected" ELSE "error"

\* Authorization of input i from generation 0.
Begin(i) ==
    IF i \in Good
    THEN /\ pc' = "hooks" /\ prepared' = Request(i, 0) /\ iteration' = 1
         /\ rewrites' = [seen |-> {i}, count |-> 0]
         /\ hookc' = {} /\ challenge' = NoChallenge /\ granted' = {} /\ receipt' = 0
         /\ result' = "none"
    ELSE Finish(BadPreparation(i))

\* The next iteration of the authorization loop, with request p.
Continue(p, taken) ==
    IF iteration = MaxIterations
    THEN Finish("error")
    ELSE /\ pc' = "hooks" /\ iteration' = iteration + 1 /\ prepared' = p /\ rewrites' = taken
         /\ hookc' = {} /\ challenge' = NoChallenge
         /\ UNCHANGED <<restarts, receipt, result, granted>>

Submit(i) ==
    /\ pc = "idle" /\ calls < MaxCalls
    /\ calls' = calls + 1
    /\ Begin(i)
    /\ IF i \in Good THEN restarts' = 0 ELSE TRUE
    /\ UNCHANGED <<session, world>>

\* One generation of pre_tool_use hooks: a Deny stands, agreeing rewrites make
\* the next generation, anything else leaves the request stable.
Stabilize(raw) ==
    LET outcomes == [h \in Hook |-> ValidateOutcome(h, raw[h])]
        denied   == \E h \in Hook : outcomes[h].effect = "Deny"
        wanted   == {outcomes[h].replacement : h \in Hook} \ {NoInput}
        stable   == denied \/ wanted \subseteq {prepared.input}
    IN
    /\ pc = "hooks"
    /\ \/ /\ stable
          /\ pc' = "resolve" /\ hookc' = HookContributions(outcomes)
          /\ UNCHANGED <<prepared, rewrites, iteration, restarts, challenge, receipt,
                         result, granted>>
       \/ /\ ~stable
          /\ \E i \in wanted \ Good : Finish(BadPreparation(i))
       \/ /\ ~stable /\ wanted \subseteq Good
          /\ Cardinality(wanted) > 1
          /\ Finish("rejected")
       \/ \E i \in wanted \cap Good :
             LET step == TakeRewrite(i) IN
             /\ ~stable /\ wanted = {i}
             /\ IF step.taken
                THEN /\ prepared' = NextRequest(i)
                     /\ rewrites' = step.next
                     /\ UNCHANGED <<pc, hookc, iteration, restarts, challenge, receipt,
                                    result, granted>>
                ELSE Finish("rejected")
    /\ UNCHANGED <<session, world, calls>>

\* Policy decides; what it leaves to approval opens a challenge.
ResolvePolicy ==
    LET resolution == Resolution(rules)
        effect     == CallEffect(resolution)
    IN
    /\ pc = "resolve"
    /\ \/ /\ effect = "Deny" \/ (effect = "RequireApproval" /\ mode = "dontAsk")
          /\ Finish("rejected")
       \/ /\ effect = "Allow"
          /\ pc' = "authorized" /\ receipt' = revision
          /\ UNCHANGED <<prepared, hookc, rewrites, iteration, restarts, challenge, result, granted>>
       \/ /\ effect = "RequireApproval" /\ mode # "dontAsk"
          /\ pc' = "asking" /\ challenge' = NewChallenge(resolution)
          /\ UNCHANGED <<prepared, hookc, rewrites, iteration, restarts, receipt, result, granted>>
    /\ UNCHANGED <<session, world, calls>>

\* The approved request is resolved again under the rule the answer persisted,
\* and runs only when the approval covers everything still asked.
Approve(a) ==
    LET refreshed == Resolution(rules') IN
    /\ ApplyMutation(a)
    /\ IF CallEffect(refreshed) = "Deny" THEN Finish("rejected")
       ELSE IF ~Covers(refreshed) THEN Continue(prepared, rewrites)
       ELSE /\ pc' = "authorized" /\ receipt' = revision'
            /\ granted' = {<<challenge.input, c>> : c \in DOMAIN challenge.causes}
            /\ challenge' = NoChallenge
            /\ UNCHANGED <<prepared, hookc, rewrites, iteration, restarts, result>>

\* Replaced input is a new request, approved by nobody.
ReplaceInput(a) ==
    LET step == TakeRewrite(a.input) IN
    /\ UNCHANGED session
    /\ IF rewrites.count >= MaxRewrites THEN Finish("rejected")
       ELSE IF a.input \notin Good THEN Finish(BadPreparation(a.input))
       ELSE IF a.input = prepared.input THEN Continue(prepared, rewrites)
       ELSE IF step.taken THEN Continue(NextRequest(a.input), step.next)
       ELSE Finish("rejected")

Resolved(a) ==
    \/ /\ ~MutationValid(a)
       /\ Finish("rejected") /\ UNCHANGED session
    \/ /\ a.kind = "cancel"
       /\ Finish("cancelled") /\ UNCHANGED session
    \/ /\ a.kind = "deny" /\ MutationValid(a)
       /\ Finish("rejected") /\ ApplyMutation(a) /\ UNCHANGED mode
    \/ /\ a.kind = "approve" /\ MutationValid(a)
       /\ Approve(a) /\ UNCHANGED mode
    \/ /\ a.kind = "replace"
       /\ ReplaceInput(a)

\* The first hook that does not abstain answers; the resolver chain otherwise,
\* with a denial when every resolver abstains.
AnswerByHook(h, a) ==
    /\ pc = "asking"
    /\ Resolved(HookAnswer(h, a))
    /\ UNCHANGED <<world, calls>>

AnswerByResolver(a) ==
    /\ pc = "asking"
    /\ Resolved(a)
    /\ UNCHANGED <<world, calls>>

\* Cancellation wins the race against whatever the call awaits.
Cancelled ==
    /\ pc \in {"hooks", "asking", "authorized"}
    /\ Finish("cancelled")
    /\ UNCHANGED <<session, world, calls>>

\* Mutant: the resource is not looked at again.
CurrentRevisionOnly == receipt = revision

\* The receipt is good while the overlay and the resource it named still stand.
Current == receipt = revision /\ ChecksOf[prepared.input][world] = prepared.checks

Execute ==
    /\ pc = "authorized" /\ Current
    /\ Finish("executed")
    /\ UNCHANGED <<session, world, calls>>

\* A stale receipt starts over from the input it was issued for.
Restart ==
    /\ pc = "authorized" /\ ~Current
    /\ IF restarts >= MaxRestarts
       THEN Finish("stale")
       ELSE Begin(prepared.input) /\ restarts' = restarts + 1
    /\ UNCHANGED <<session, world, calls>>

\* Another process moves what a path leads to.
WorldMoves ==
    /\ world' \in World \ {world}
    /\ UNCHANGED <<pc, prepared, hookc, rewrites, iteration, restarts, session, challenge,
                   receipt, calls, result, granted>>

\* Between calls the host switches the permission mode.
SetMode(m) ==
    /\ pc = "idle" /\ m # mode /\ revision < MaxRevision
    /\ mode' = m /\ revision' = revision + 1
    /\ UNCHANGED <<pc, prepared, hookc, rewrites, iteration, restarts, rules, refused, challenge,
                   receipt, world, calls, result, granted>>

Progress ==
    \/ \E raw \in [Hook -> UNION {HookReplies[h] : h \in Hook}] :
            (\A h \in Hook : raw[h] \in HookReplies[h]) /\ Stabilize(raw)
    \/ ResolvePolicy
    \/ \E a \in Answers : AnswerByResolver(a) \/ \E h \in Hook : AnswerByHook(h, a)
    \/ Cancelled
    \/ Execute
    \/ Restart

Next ==
    \/ \E i \in Input : Submit(i)
    \/ Progress
    \/ WorldMoves
    \/ \E m \in Modes : SetMode(m)

Spec == Init /\ [][Next]_vars

\* Hooks return, somebody answers or cancels, and the runner polls on: once a
\* call has begun, its authorization keeps being driven.
FairSpec == Spec /\ WF_vars(Progress)

-----------------------------------------------------------------------------
(* What authorization promises, said without its data structures.          *)

RuleOn(c, e) == \E r \in StaticRule : r.check = c /\ r.effect = e /\ Effective(r)
HookSaid(e) == \E x \in hookc : x.effect = e

Forbidden(c) ==
    \/ RuleOn(c, "Deny") \/ HookSaid("Deny")
    \/ mode = "plan" /\ Kind[c] # "read"

Permitted(c) ==
    \/ RuleOn(c, "Allow") \/ SessionRule(c, "Allow") \in rules
    \/ \E x \in hookc : x.effect = "Allow" /\ x.cause[2] \in MayAllow
    \/ mode = "bypass" \/ (mode = "acceptEdits" /\ Kind[c] = "edit")

NeedsApproval(c) ==
    \/ RuleOn(c, "RequireApproval") \/ HookSaid("RequireApproval")
    \/ Default[c] = "RequireApproval" /\ ~Permitted(c)

Runs == pc = "authorized" /\ pc' = "idle" /\ result' = "executed"
Touched == ChecksOf[prepared.input][world]

\* A call that runs touches, in the file system as it then is, nothing that a
\* rule, its own generation's hooks or the mode forbids; and whatever they ask
\* about was approved by an answer about exactly this input.  Rewrites, moved
\* paths, hooks beyond their capabilities and earlier approvals do not change
\* that (authorize_with_progress, execute).  What the user refused for the
\* session never runs again in it, whatever the mode, the hooks or a later
\* approval say (apply_session_mutation).
OnlyAuthorizedRuns ==
    [][Runs => \A c \in Touched :
            /\ ~Forbidden(c) /\ c \notin refused
            /\ NeedsApproval(c) => <<prepared.input, c>> \in granted]_vars

\* A persisted approval never silences an explicit question: session Allow
\* rules exist only for checks no static rule asks about or denies
\* (ApprovalChallenge::new, the options of a challenge).
GrantsStayNarrow ==
    \A r \in rules : r.effect = "Allow" =>
        ~RuleOn(r.check, "RequireApproval") /\ ~RuleOn(r.check, "Deny")

\* Rewrites by hooks and approvers, restarts and iterations are bounded: a
\* call that began ends, as long as hooks return and someone answers
\* (stabilize, authorize_with_progress, authorized_call_with_overlay).
CallsEnd == pc # "idle" ~> pc = "idle"

=============================================================================
