-------------------------- MODULE Authorization_proofs --------------------------
(***************************************************************************)
(* Proofs about Authorization for every set of inputs, checks, rules,       *)
(* hooks and worlds and every bound: what runs is authorized when it runs,  *)
(* and a persisted approval never silences an explicit question.  And about *)
(* PolicyContext, which it reads: its version numbers identify contents, an *)
(* untrusted project only tightens, and the list of tools stays a prefix.   *)
(***************************************************************************)
EXTENDS Authorization, PolicyContext, Counting, SequenceTheorems

-----------------------------------------------------------------------------
(* The inductive invariant.                                                *)

\* No static rule that counts bears on the check.
Unruled(c) == \A r \in StaticRule : r.check = c => ~Effective(r)

\* A persisted or offered rule allows or denies one check; an Allow is for a
\* check no static rule bears on.
NarrowRule(r) ==
    /\ \E c, e : e \in {"Allow", "Deny"} /\ r = SessionRule(c, e)
    /\ r.effect = "Allow" => Unruled(r.check)

\* A hook contributes an effect, and an Allow only within its capability.
HookWithinBounds(x) ==
    /\ x.effect \in Effects
    /\ x.effect = "Allow" => x.cause[2] \in MayAllow

\* The session overlay: its rules are narrow, and a refusal is one of them.
OverlaySound ==
    /\ \A r \in rules : NarrowRule(r)
    /\ \A c \in refused : SessionRule(c, "Deny") \in rules

\* An authorized request may touch each of its checks.
Cleared(c) ==
    /\ ~Forbidden(c) /\ c \notin refused
    /\ NeedsApproval(c) => <<prepared.input, c>> \in granted

\* The call in progress.
CallSound ==
    /\ \A o \in challenge.options : NarrowRule(o)
    /\ \A x \in hookc : HookWithinBounds(x)
    /\ pc = "asking" => challenge.input = prepared.input
    /\ pc = "authorized" => \A c \in prepared.checks : Cleared(c)

AuthInv == OverlaySound /\ CallSound

-----------------------------------------------------------------------------
(* What a resolution says of a check.                                      *)

\* NeedsApproval under the session rules ruleset.
PermittedUnder(c, ruleset) ==
    \/ RuleOn(c, "Allow") \/ SessionRule(c, "Allow") \in ruleset
    \/ \E x \in hookc : x.effect = "Allow" /\ x.cause[2] \in MayAllow
    \/ mode = "bypass" \/ (mode = "acceptEdits" /\ Kind[c] = "edit")

NeedsApprovalUnder(c, ruleset) ==
    \/ RuleOn(c, "RequireApproval") \/ HookSaid("RequireApproval")
    \/ Default[c] = "RequireApproval" /\ ~PermittedUnder(c, ruleset)

\* The effect of a resolution is the strictest of its contributions, or the
\* default of a check nothing bears on.
LEMMA ResolvedEffect ==
    ASSUME NEW c, NEW ruleset
    PROVE  /\ Contributions(c, ruleset) = {} => ResolveCheck(c, ruleset).effect = Default[c]
           /\ (\E x \in Contributions(c, ruleset) : x.effect = "Deny") =>
                 ResolveCheck(c, ruleset).effect = "Deny"
           /\ (\E x \in Contributions(c, ruleset) : x.effect = "RequireApproval") =>
                 ResolveCheck(c, ruleset).effect \in {"Deny", "RequireApproval"}
  BY DEF ResolveCheck, Strictest

\* Static rules, hooks, the mode and session rules all contribute.
LEMMA ContributionsOf ==
    ASSUME NEW c, NEW ruleset, NEW e
    PROVE  RuleOn(c, e) \/ HookSaid(e) \/ e \in ModeEffect(c) \/ SessionRule(c, e) \in ruleset
           => \E x \in Contributions(c, ruleset) : x.effect = e
  <1> DEFINE all == Contributions(c, ruleset)
  <1>1. RuleOn(c, e) => \E x \in all : x.effect = e
    <2> SUFFICES ASSUME NEW r \in StaticRule, r.check = c, r.effect = e, Effective(r)
                 PROVE  \E x \in all : x.effect = e
      BY DEF RuleOn
    <2>1. Contribution(<<"rule", r.id>>, r.effect) \in all
      BY DEF Contributions
    <2> QED BY <2>1 DEF Contribution
  <1>2. HookSaid(e) => \E x \in all : x.effect = e
    BY DEF HookSaid, Contributions
  <1>3. e \in ModeEffect(c) => \E x \in all : x.effect = e
    <2> SUFFICES ASSUME e \in ModeEffect(c) PROVE \E x \in all : x.effect = e
      OBVIOUS
    <2>1. Contribution(<<"mode", mode>>, e) \in all
      BY DEF Contributions
    <2> QED BY <2>1 DEF Contribution
  <1>4. SessionRule(c, e) \in ruleset => \E x \in all : x.effect = e
    <2> SUFFICES ASSUME SessionRule(c, e) \in ruleset PROVE \E x \in all : x.effect = e
      OBVIOUS
    <2>1. SessionRule(c, e).check = c /\ SessionRule(c, e).effect = e
      BY DEF SessionRule
    <2>2. Contribution(<<"session", e>>, e) \in all
      BY <2>1 DEF Contributions
    <2> QED BY <2>2 DEF Contribution
  <1> QED BY <1>1, <1>2, <1>3, <1>4

\* A check that is not denied is neither forbidden nor refused.
LEMMA NotDenied ==
    ASSUME NEW c, NEW ruleset, ResolveCheck(c, ruleset).effect # "Deny"
    PROVE  ~Forbidden(c) /\ SessionRule(c, "Deny") \notin ruleset
  <1>1. ~\E x \in Contributions(c, ruleset) : x.effect = "Deny"
    BY ResolvedEffect
  <1>2. mode = "plan" /\ Kind[c] # "read" => "Deny" \in ModeEffect(c)
    BY DEF ModeEffect
  <1>3. ~RuleOn(c, "Deny") /\ ~HookSaid("Deny") /\ "Deny" \notin ModeEffect(c)
        /\ SessionRule(c, "Deny") \notin ruleset
    BY <1>1, ContributionsOf
  <1> QED BY <1>2, <1>3 DEF Forbidden

\* Whatever contributes an Allow permits.
LEMMA AllowPermits ==
    ASSUME NEW c, NEW ruleset, \A r \in ruleset : NarrowRule(r),
           \A x \in hookc : HookWithinBounds(x),
           NEW x \in Contributions(c, ruleset)
    PROVE  x.effect \in Effects /\ (x.effect = "Allow" => PermittedUnder(c, ruleset))
  <1>1. ASSUME NEW r \in StaticRule, r.check = c, Effective(r),
               x = Contribution(<<"rule", r.id>>, r.effect)
        PROVE  x.effect \in Effects /\ (x.effect = "Allow" => RuleOn(c, "Allow"))
    BY <1>1, AuthorizationAssumption DEF Contribution, RuleOn
  <1>2. ASSUME NEW r \in ruleset, r.check = c, x = Contribution(<<"session", r.effect>>, r.effect)
        PROVE  x.effect \in Effects /\ (x.effect = "Allow" => SessionRule(c, "Allow") \in ruleset)
    BY <1>2 DEF Contribution, NarrowRule, SessionRule, Effects
  <1>3. ASSUME NEW e \in ModeEffect(c), x = Contribution(<<"mode", mode>>, e)
        PROVE  /\ x.effect \in Effects
               /\ x.effect = "Allow" =>
                     mode = "bypass" \/ (mode = "acceptEdits" /\ Kind[c] = "edit")
    BY <1>3 DEF Contribution, ModeEffect, Effects
  <1>4. ASSUME x \in hookc
        PROVE  x.effect \in Effects /\ (x.effect = "Allow" => x.cause[2] \in MayAllow)
    BY <1>4 DEF HookWithinBounds
  <1>5. \/ \E r \in StaticRule : /\ r.check = c /\ Effective(r)
                                 /\ x = Contribution(<<"rule", r.id>>, r.effect)
        \/ \E r \in ruleset : r.check = c /\ x = Contribution(<<"session", r.effect>>, r.effect)
        \/ \E e \in ModeEffect(c) : x = Contribution(<<"mode", mode>>, e)
        \/ x \in hookc
    BY DEF Contributions
  <1> QED BY <1>1, <1>2, <1>3, <1>4, <1>5 DEF PermittedUnder

\* A check that needs approval is denied or left to approval.
LEMMA NeedIsPending ==
    ASSUME NEW c, NEW ruleset, \A r \in ruleset : NarrowRule(r),
           \A x \in hookc : HookWithinBounds(x), NeedsApprovalUnder(c, ruleset)
    PROVE  ResolveCheck(c, ruleset).effect \in {"Deny", "RequireApproval"}
  <1> DEFINE all == Contributions(c, ruleset)
  <1>1. CASE RuleOn(c, "RequireApproval") \/ HookSaid("RequireApproval")
    <2>1. \E x \in Contributions(c, ruleset) : x.effect = "RequireApproval"
      <3> PICK need : need = "RequireApproval"
        OBVIOUS
      <3>1. RuleOn(c, need) \/ HookSaid(need)
        BY <1>1
      <3>2. \E x \in Contributions(c, ruleset) : x.effect = need
        BY <3>1, ContributionsOf
      <3> QED BY <3>2
    <2> QED BY <2>1, ResolvedEffect
  <1>2. CASE Default[c] = "RequireApproval" /\ ~PermittedUnder(c, ruleset)
    <2>1. CASE all = {}
      BY <1>2, <2>1, ResolvedEffect
    <2>2. CASE all # {}
      <3>1. PICK x \in all : x.effect \in {"Deny", "RequireApproval"}
        BY <1>2, <2>2, AllowPermits DEF Effects
      <3> QED BY <3>1, ResolvedEffect
    <2> QED BY <2>1, <2>2
  <1> QED BY <1>1, <1>2 DEF NeedsApprovalUnder

-----------------------------------------------------------------------------
(* What each operation does to the overlay and to the call in progress.    *)

\* Nothing changes the overlay unless an answer does.
LEMMA OverlaySame ==
    ASSUME OverlaySound, rules' = rules, refused' = refused
    PROVE  OverlaySound'
  BY DEF OverlaySound, NarrowRule, Unruled, Effective, SessionRule

\* An ended call leaves nothing behind.
LEMMA FinishSound ==
    ASSUME NEW r, Finish(r)
    PROVE  CallSound'
  BY DEF Finish, CallSound, NoChallenge

\* An authorization begins, or continues, with nothing decided.
LEMMA BeginSound ==
    ASSUME NEW i, Begin(i)
    PROVE  CallSound'
  BY FinishSound DEF Begin, CallSound, NoChallenge

\* A continued loop has no challenge pending.
LEMMA ContinueSound ==
    ASSUME NEW p, NEW taken, Continue(p, taken)
    PROVE  CallSound'
  BY FinishSound DEF Continue, CallSound, NoChallenge

\* Hooks are held to their capabilities.
LEMMA HooksHeld ==
    ASSUME NEW raw \in [Hook -> UNION {HookReplies[h] : h \in Hook}],
           \A h \in Hook : raw[h] \in HookReplies[h],
           NEW x \in HookContributions([h \in Hook |-> ValidateOutcome(h, raw[h])])
    PROVE  HookWithinBounds(x)
  <1> DEFINE outcomes == [h \in Hook |-> ValidateOutcome(h, raw[h])]
  <1>1. PICK h \in Hook :
           /\ outcomes[h].effect # "none"
           /\ x = Contribution(<<"hook", h, prepared.generation, prepared.input,
                                 outcomes[h].effect>>, outcomes[h].effect)
    BY DEF HookContributions
  <1>2. x.effect = ValidateOutcome(h, raw[h]).effect /\ x.cause[2] = h
    BY <1>1 DEF Contribution
  <1>3. raw[h].effect \in Effects \cup {"none", "error"}
    BY HookReplyAssumption
  <1>4. /\ ValidateOutcome(h, raw[h]).effect \in Effects \cup {"none"}
        /\ ValidateOutcome(h, raw[h]).effect = "Allow" => h \in MayAllow
    BY <1>3 DEF ValidateOutcome, FailClosed, Effects
  <1> QED BY <1>1, <1>2, <1>4 DEF HookWithinBounds

\* stabilize ends with contributions within bounds, or with no request.
LEMMA StabilizeSound ==
    ASSUME AuthInv, NEW raw \in [Hook -> UNION {HookReplies[h] : h \in Hook}],
           \A h \in Hook : raw[h] \in HookReplies[h], Stabilize(raw)
    PROVE  AuthInv'
  <1> DEFINE outcomes == [h \in Hook |-> ValidateOutcome(h, raw[h])]
  <1>1. OverlaySound'
    BY OverlaySame DEF AuthInv, Stabilize, session
  <1>2. CASE pc' = "resolve" /\ hookc' = HookContributions(outcomes) /\ challenge' = challenge
    <2>1. \A x \in hookc' : HookWithinBounds(x)
      BY <1>2, HooksHeld
    <2> QED BY <1>1, <1>2, <2>1 DEF AuthInv, CallSound, NarrowRule, Unruled, Effective,
            SessionRule, HookWithinBounds
  <1>3. CASE \E r : Finish(r)
    BY <1>1, <1>3, FinishSound DEF AuthInv
  <1>4. CASE pc = "hooks" /\ pc' = pc /\ hookc' = hookc /\ challenge' = challenge
    BY <1>1, <1>4 DEF AuthInv, CallSound, NarrowRule, Unruled, Effective, SessionRule,
            HookWithinBounds
  <1> QED BY <1>2, <1>3, <1>4 DEF Stabilize

\* The options of a challenge are narrow.
LEMMA OptionsNarrow ==
    ASSUME NEW o \in NewChallenge(Resolution(rules)).options
    PROVE  NarrowRule(o)
  <1> DEFINE resolution == Resolution(rules)
  <1>1. o \in MutationOptions(resolution)
    BY DEF NewChallenge
  <1>2. CASE \E c \in Pending(resolution) : o = SessionRule(c, "Deny")
    BY <1>2 DEF NarrowRule, SessionRule
  <1>3. CASE \E c \in Pending(resolution) :
                resolution[c].basis = "default" /\ o = SessionRule(c, "Allow")
    <2>1. PICK c \in Pending(resolution) :
             resolution[c].basis = "default" /\ o = SessionRule(c, "Allow")
      BY <1>3
    <2>2. c \in prepared.checks /\ resolution[c] = ResolveCheck(c, rules)
      BY DEF Pending, Resolution
    <2>3. Contributions(c, rules) = {}
      BY <2>1, <2>2 DEF ResolveCheck
    <2>4. \A e : ~RuleOn(c, e)
      BY <2>3, ContributionsOf
    <2>5. Unruled(c)
      BY <2>4 DEF Unruled, RuleOn
    <2> QED BY <2>1, <2>5 DEF NarrowRule, SessionRule
  <1> QED BY <1>1, <1>2, <1>3 DEF MutationOptions

\* Policy lets a request through only when each of its checks is cleared.
LEMMA ResolveSound ==
    ASSUME AuthInv, ResolvePolicy
    PROVE  AuthInv'
  <1> DEFINE resolution == Resolution(rules)
  <1>1. OverlaySound'
    BY OverlaySame DEF AuthInv, ResolvePolicy, session
  <1>2. CASE \E r : Finish(r)
    BY <1>1, <1>2, FinishSound DEF AuthInv
  <1>3. CASE /\ CallEffect(resolution) = "Allow" /\ pc' = "authorized"
             /\ UNCHANGED <<prepared, hookc, challenge, granted>>
    <2>1. ASSUME NEW c \in prepared.checks PROVE Cleared(c)'
      <3>1. resolution[c].effect \notin {"Deny", "RequireApproval"}
        BY <1>3 DEF CallEffect, Strictest, Resolution
      <3>2. ResolveCheck(c, rules).effect \notin {"Deny", "RequireApproval"}
        BY <3>1 DEF Resolution
      <3>3. ~Forbidden(c) /\ SessionRule(c, "Deny") \notin rules
        BY <3>2, NotDenied
      <3>4. ~NeedsApprovalUnder(c, rules)
        BY <3>2, NeedIsPending DEF AuthInv, OverlaySound, CallSound
      <3>5. ~NeedsApproval(c)
        BY <3>4 DEF NeedsApproval, NeedsApprovalUnder, Permitted, PermittedUnder
      <3>6. c \notin refused
        BY <3>3 DEF AuthInv, OverlaySound
      <3>7. UNCHANGED <<mode, rules, refused, hookc>>
        BY <1>3 DEF ResolvePolicy, session
      <3>8. (Forbidden(c)' <=> Forbidden(c)) /\ (NeedsApproval(c)' <=> NeedsApproval(c))
        BY <3>7 DEF Forbidden, NeedsApproval, Permitted, RuleOn, HookSaid, Effective
      <3> QED BY <3>3, <3>5, <3>6, <3>7, <3>8 DEF Cleared
    <2> QED BY <1>1, <1>3, <2>1 DEF AuthInv, CallSound, NarrowRule, Unruled, Effective,
            SessionRule, HookWithinBounds
  <1>4. CASE /\ pc' = "asking" /\ challenge' = NewChallenge(resolution)
             /\ UNCHANGED <<prepared, hookc>>
    <2>1. \A o \in challenge'.options : NarrowRule(o)
      BY <1>4, OptionsNarrow
    <2>2. challenge'.input = prepared'.input
      BY <1>4 DEF NewChallenge
    <2> QED BY <1>1, <1>4, <2>1, <2>2 DEF AuthInv, CallSound, NarrowRule, Unruled, Effective,
            SessionRule, HookWithinBounds
  <1> QED BY <1>2, <1>3, <1>4 DEF ResolvePolicy

\* An answer persists a narrow rule, and a refusal with its Deny.
LEMMA MutationSound ==
    ASSUME AuthInv, NEW a, MutationValid(a), ApplyMutation(a)
    PROVE  OverlaySound'
  <1>1. CASE a.rule = NoRule
    BY <1>1, OverlaySame DEF AuthInv, ApplyMutation
  <1>2. CASE a.rule # NoRule
    <2>1. NarrowRule(a.rule) /\ a.rule.effect = Wanted(a) /\ rules' = rules \cup {a.rule}
      BY <1>2 DEF AuthInv, CallSound, MutationValid, ApplyMutation
    <2>2. a.kind = "deny" => a.rule = SessionRule(a.rule.check, "Deny")
      BY <2>1 DEF NarrowRule, SessionRule, Wanted
    <2>3. \A c \in refused' : c \in refused \/ (a.kind = "deny" /\ c = a.rule.check)
      BY DEF ApplyMutation
    <2>4. \A r \in rules' : NarrowRule(r)'
      BY <2>1 DEF AuthInv, OverlaySound, NarrowRule, Unruled, Effective, SessionRule
    <2>5. \A c \in refused' : SessionRule(c, "Deny") \in rules'
      BY <2>1, <2>2, <2>3 DEF AuthInv, OverlaySound
    <2> QED BY <2>4, <2>5 DEF OverlaySound, SessionRule
  <1> QED BY <1>1, <1>2

\* An approval lets a request through only when it covers what is still asked.
LEMMA ApproveSound ==
    ASSUME AuthInv, pc = "asking", NEW a, MutationValid(a), Approve(a), mode' = mode
    PROVE  AuthInv'
  <1> DEFINE refreshed == Resolution(rules')
  <1>1. OverlaySound'
    BY MutationSound DEF Approve
  <1>2. CASE \E r : Finish(r)
    BY <1>1, <1>2, FinishSound DEF AuthInv
  <1>3. CASE Continue(prepared, rewrites)
    BY <1>1, <1>3, ContinueSound DEF AuthInv
  <1>4. CASE /\ CallEffect(refreshed) # "Deny" /\ Covers(refreshed)
             /\ pc' = "authorized" /\ challenge' = NoChallenge
             /\ granted' = {<<challenge.input, c>> : c \in DOMAIN challenge.causes}
             /\ UNCHANGED <<prepared, hookc>>
    <2>0. \A r \in rules' : NarrowRule(r)
      BY <1>1 DEF OverlaySound, NarrowRule, Unruled, Effective, SessionRule
    <2>1. ASSUME NEW c \in prepared.checks PROVE Cleared(c)'
      <3>1. refreshed[c] = ResolveCheck(c, rules') /\ c \in DOMAIN refreshed
        BY DEF Resolution
      <3>2. ResolveCheck(c, rules').effect # "Deny"
        BY <1>4, <3>1 DEF CallEffect, Strictest
      <3>3. ~Forbidden(c) /\ SessionRule(c, "Deny") \notin rules'
        BY <3>2, NotDenied
      <3>4. c \notin refused'
        BY <1>1, <3>3 DEF OverlaySound, SessionRule
      <3>5. Forbidden(c)' <=> Forbidden(c)
        BY <1>4 DEF Forbidden, RuleOn, HookSaid, Effective
      <3>6. ASSUME NeedsApproval(c)' PROVE <<prepared.input, c>> \in granted'
        <4>1. NeedsApprovalUnder(c, rules')
          BY <1>4, <3>6 DEF NeedsApproval, NeedsApprovalUnder, Permitted, PermittedUnder,
             RuleOn, HookSaid, Effective, SessionRule
        <4>2. ResolveCheck(c, rules').effect = "RequireApproval"
          BY <2>0, <3>2, <4>1, NeedIsPending DEF AuthInv, CallSound
        <4>3. c \in DOMAIN challenge.causes
          BY <1>4, <3>1, <4>2 DEF Covers, Pending
        <4>4. challenge.input = prepared.input
          BY DEF AuthInv, CallSound
        <4> QED BY <1>4, <4>3, <4>4
      <3> QED BY <1>4, <3>3, <3>4, <3>5, <3>6 DEF Cleared
    <2>2. \A x \in hookc' : HookWithinBounds(x)'
      BY <1>4 DEF AuthInv, CallSound, HookWithinBounds
    <2> QED BY <1>1, <1>4, <2>1, <2>2 DEF AuthInv, CallSound, NoChallenge
  <1> QED BY <1>2, <1>3, <1>4 DEF Approve

\* Every answer leaves the overlay and the call sound.
LEMMA ResolvedSound ==
    ASSUME AuthInv, pc = "asking", NEW a, Resolved(a)
    PROVE  AuthInv'
  <1>1. CASE UNCHANGED session /\ \E r : Finish(r)
    BY <1>1, OverlaySame, FinishSound DEF AuthInv, session
  <1>2. CASE MutationValid(a) /\ ApplyMutation(a) /\ \E r : Finish(r)
    BY <1>2, MutationSound, FinishSound DEF AuthInv
  <1>3. CASE MutationValid(a) /\ Approve(a) /\ mode' = mode
    BY <1>3, ApproveSound
  <1>4. CASE ReplaceInput(a)
    <2>1. OverlaySound'
      BY <1>4, OverlaySame DEF AuthInv, ReplaceInput, session
    <2>2. \/ \E r : Finish(r)
          \/ \E p, taken : Continue(p, taken)
      BY <1>4 DEF ReplaceInput
    <2> QED BY <2>1, <2>2, FinishSound, ContinueSound DEF AuthInv
  <1> QED BY <1>1, <1>2, <1>3, <1>4 DEF Resolved

-----------------------------------------------------------------------------
(* The theorems.                                                           *)

\* It holds before the first call.
LEMMA InitSound == Init => AuthInv
  BY DEF Init, AuthInv, OverlaySound, CallSound, NoChallenge

\* Every step of a call, and every move of the world, keeps it.
LEMMA StepSound == AuthInv /\ [Next]_vars => AuthInv'
  <1> SUFFICES ASSUME AuthInv, [Next]_vars PROVE AuthInv'
    OBVIOUS
  <1>1. ASSUME NEW i \in Input, Submit(i) PROVE AuthInv'
    BY <1>1, OverlaySame, BeginSound DEF Submit, AuthInv, session
  <1>2. CASE Progress
    <2>1. ASSUME NEW raw \in [Hook -> UNION {HookReplies[h] : h \in Hook}],
                 \A h \in Hook : raw[h] \in HookReplies[h], Stabilize(raw)
          PROVE  AuthInv'
      BY <2>1, StabilizeSound
    <2>2. CASE ResolvePolicy
      BY <2>2, ResolveSound
    <2>3. ASSUME NEW a \in Answers, AnswerByResolver(a) \/ \E h \in Hook : AnswerByHook(h, a)
          PROVE  AuthInv'
      BY <2>3, ResolvedSound DEF AnswerByResolver, AnswerByHook
    <2>4. CASE Cancelled
      BY <2>4, OverlaySame, FinishSound DEF Cancelled, AuthInv, session
    <2>5. CASE Execute
      BY <2>5, OverlaySame, FinishSound DEF Execute, AuthInv, session
    <2>6. CASE Restart
      BY <2>6, OverlaySame, FinishSound, BeginSound DEF Restart, AuthInv, session
    <2> QED BY <1>2, <2>1, <2>2, <2>3, <2>4, <2>5, <2>6 DEF Progress
  <1>3. CASE WorldMoves \/ UNCHANGED vars
    <2>1. UNCHANGED <<pc, prepared, hookc, challenge, granted, mode, rules, refused>>
      BY <1>3 DEF WorldMoves, vars, session
    <2>2. OverlaySound'
      BY <2>1, OverlaySame DEF AuthInv
    <2>3. \A c : Cleared(c) => Cleared(c)'
      BY <2>1 DEF Cleared, Forbidden, NeedsApproval, Permitted, RuleOn, HookSaid, Effective,
         SessionRule
    <2>4. CallSound'
      BY <2>1, <2>3 DEF AuthInv, CallSound, NarrowRule, Unruled, Effective, SessionRule,
         HookWithinBounds
    <2> QED BY <2>2, <2>4 DEF AuthInv
  <1>4. ASSUME NEW m \in Modes, SetMode(m) PROVE AuthInv'
    <2>1. OverlaySound'
      BY <1>4, OverlaySame DEF AuthInv, SetMode
    <2> QED BY <1>4, <2>1 DEF SetMode, AuthInv, CallSound, NarrowRule, Unruled, Effective,
            SessionRule, HookWithinBounds
  <1> QED BY <1>1, <1>2, <1>3, <1>4 DEF Next

\* The overlay and the call in progress stay sound.
THEOREM AlwaysSound == Spec => []AuthInv
  BY InitSound, StepSound, PTL DEF Spec

\* GrantsStayNarrow: whatever is answered, a session Allow exists only for a
\* check no static rule asks about or denies (ApprovalChallenge::new).
THEOREM GrantsAlwaysNarrow == Spec => []GrantsStayNarrow
  <1>1. AuthInv => GrantsStayNarrow
    BY DEF AuthInv, OverlaySound, NarrowRule, Unruled, GrantsStayNarrow, RuleOn
  <1> QED BY <1>1, AlwaysSound, PTL

\* Only a current receipt runs.
LEMMA RunsExecute ==
    ASSUME [Next]_vars, Runs
    PROVE  Current /\ pc = "authorized" /\ UNCHANGED session
  <1>1. pc = "authorized" /\ pc' = "idle" /\ result' = "executed"
    BY DEF Runs
  <1>2. \A i : ~(Finish(BadPreparation(i)))
    BY <1>1 DEF Finish, BadPreparation
  <1>3. ~Cancelled
    BY <1>1 DEF Cancelled, Finish
  <1>4. ~Restart
    BY <1>1, <1>2 DEF Restart, Finish, Begin
  <1> QED BY <1>1, <1>3, <1>4 DEF Next, Progress, Submit, Stabilize, ResolvePolicy, AnswerByResolver,
          AnswerByHook, Execute, WorldMoves, SetMode, vars

\* OnlyAuthorizedRuns: what a call touches when it runs is forbidden by no
\* rule, hook or mode, was refused by nobody, and was approved for exactly
\* this input wherever approval was needed (authorize_with_progress, execute).
THEOREM OnlyAuthorizedEverRuns == Spec => OnlyAuthorizedRuns
  <1>1. AuthInv /\ [Next]_vars => [Runs => \A c \in Touched :
            /\ ~Forbidden(c) /\ c \notin refused
            /\ NeedsApproval(c) => <<prepared.input, c>> \in granted]_vars
    <2> SUFFICES ASSUME AuthInv, [Next]_vars, Runs, NEW c \in Touched
                 PROVE  Cleared(c)
      BY DEF Cleared
    <2>1. Current /\ pc = "authorized"
      BY RunsExecute
    <2>2. Touched = prepared.checks
      BY <2>1 DEF Touched, Current
    <2> QED BY <2>1, <2>2 DEF AuthInv, CallSound
  <1> QED BY <1>1, AlwaysSound, PTL DEF Spec, OnlyAuthorizedRuns

-----------------------------------------------------------------------------
(* Every authorization is bounded.                                         *)

\* Rewrites, iterations, restarts and generations stay within their limits,
\* and the request in hand is one whose preparation is on record, so that no
\* rewrite can lead back to it.
CallBounded ==
    /\ rewrites.count \in 0..MaxRewrites
    /\ iteration \in 0..MaxIterations
    /\ restarts \in 0..MaxRestarts
    /\ prepared.generation \in 0..MaxGeneration
    /\ pc # "idle" => prepared.input \in rewrites.seen \cap Good

\* A call that ends resets its counters.
LEMMA FinishBounded ==
    ASSUME NEW r, Finish(r)
    PROVE  CallBounded'
  BY AuthorizationAssumption DEF Finish, CallBounded, NoRequest

\* An authorization starts within its bounds.
LEMMA BeginBounded ==
    ASSUME NEW i, Begin(i), i \in Good => restarts' \in 0..MaxRestarts
    PROVE  CallBounded'
  <1>1. CASE i \in Good
    BY <1>1, AuthorizationAssumption DEF Begin, CallBounded, Request
  <1>2. CASE i \notin Good
    BY <1>2, FinishBounded DEF Begin
  <1> QED BY <1>1, <1>2

\* A rewrite that is taken counts, is new, and moves the generation on.
LEMMA RewriteBounded ==
    ASSUME CallBounded, NEW i \in Good, TakeRewrite(i).taken
    PROVE  /\ TakeRewrite(i).next.count \in 0..MaxRewrites
           /\ i \in TakeRewrite(i).next.seen /\ i \notin rewrites.seen
           /\ NextRequest(i).generation \in 0..MaxGeneration
           /\ NextRequest(i).input = i
  <1>1. rewrites.count < MaxRewrites /\ i \notin rewrites.seen
    BY AuthorizationAssumption DEF TakeRewrite, CallBounded
  <1>2. TakeRewrite(i).next = [seen |-> rewrites.seen \cup {i}, count |-> rewrites.count + 1]
    BY <1>1, AuthorizationAssumption DEF TakeRewrite, CallBounded
  <1>3. TakeRewrite(i).next.count \in 0..MaxRewrites
    BY <1>1, <1>2, AuthorizationAssumption DEF CallBounded
  <1>4. NextRequest(i).generation \in 0..MaxGeneration /\ NextRequest(i).input = i
    BY AuthorizationAssumption DEF NextRequest, Request, CallBounded
  <1> QED BY <1>1, <1>2, <1>3, <1>4

\* The loop continues within its bounds.
LEMMA ContinueBounded ==
    ASSUME CallBounded, NEW p, NEW taken, Continue(p, taken),
           p.generation \in 0..MaxGeneration, taken.count \in 0..MaxRewrites,
           p.input \in taken.seen \cap Good
    PROVE  CallBounded'
  <1>1. CASE iteration = MaxIterations
    BY <1>1, FinishBounded DEF Continue
  <1>2. CASE iteration # MaxIterations
    <2>1. iteration + 1 \in 0..MaxIterations
      BY <1>2, AuthorizationAssumption DEF CallBounded
    <2> QED BY <1>2, <2>1 DEF Continue, CallBounded
  <1> QED BY <1>1, <1>2

\* Every step keeps the counters in range.
LEMMA StepBounded == CallBounded /\ [Next]_vars => CallBounded'
  <1> SUFFICES ASSUME CallBounded, [Next]_vars PROVE CallBounded'
    OBVIOUS
  <1>0. UNCHANGED <<pc, rewrites, iteration, restarts, prepared>> => CallBounded'
    BY DEF CallBounded
  <1>1. ASSUME NEW i \in Input, Submit(i) PROVE CallBounded'
    BY <1>1, BeginBounded, AuthorizationAssumption DEF Submit
  <1>2. ASSUME NEW raw, Stabilize(raw) PROVE CallBounded'
    <2>1. CASE \E r : Finish(r)
      BY <2>1, FinishBounded
    <2>2. CASE pc = "hooks" /\ UNCHANGED <<rewrites, iteration, restarts, prepared>>
      BY <2>2 DEF CallBounded
    <2>3. ASSUME NEW i \in Good, TakeRewrite(i).taken, prepared' = NextRequest(i),
                 rewrites' = TakeRewrite(i).next, UNCHANGED <<pc, iteration, restarts>>
          PROVE  CallBounded'
      BY <2>3, RewriteBounded DEF CallBounded
    <2> QED BY <1>2, <2>1, <2>2, <2>3 DEF Stabilize
  <1>3. CASE ResolvePolicy
    BY <1>3, FinishBounded DEF ResolvePolicy, CallBounded
  <1>4. ASSUME pc = "asking", NEW a, Resolved(a) PROVE CallBounded'
    <2>1. CASE \E r : Finish(r)
      BY <2>1, FinishBounded
    <2>2. CASE Continue(prepared, rewrites)
      BY <1>4, <2>2, ContinueBounded DEF CallBounded
    <2>3. CASE pc' = "authorized" /\ UNCHANGED <<prepared, rewrites, iteration, restarts>>
      BY <1>4, <2>3 DEF CallBounded
    <2>4. ASSUME a.input \in Good, TakeRewrite(a.input).taken,
                 Continue(NextRequest(a.input), TakeRewrite(a.input).next)
          PROVE  CallBounded'
      BY <2>4, RewriteBounded, ContinueBounded
    <2> QED BY <1>4, <2>1, <2>2, <2>3, <2>4 DEF Resolved, Approve, ReplaceInput
  <1>5. CASE Cancelled \/ Execute
    BY <1>5, FinishBounded DEF Cancelled, Execute
  <1>6. CASE Restart
    <2>1. CASE restarts >= MaxRestarts
      BY <1>6, <2>1, FinishBounded DEF Restart
    <2>2. CASE ~(restarts >= MaxRestarts)
      <3>1. restarts + 1 \in 0..MaxRestarts
        BY <2>2, AuthorizationAssumption DEF CallBounded
      <3> QED BY <1>6, <2>2, <3>1, BeginBounded DEF Restart
    <2> QED BY <2>1, <2>2
  <1>7. CASE WorldMoves \/ (\E m \in Modes : SetMode(m)) \/ UNCHANGED vars
    BY <1>0, <1>7 DEF WorldMoves, SetMode, vars
  <1> QED BY <1>1, <1>2, <1>3, <1>4, <1>5, <1>6, <1>7 DEF Next, Progress, AnswerByResolver,
          AnswerByHook

\* Hooks that rewrite, approvers that replace and worlds that move cannot
\* keep an authorization going beyond the limits the code sets (MAX_REWRITES,
\* MAX_AUTHORIZATION_ITERATIONS, MAX_AUTHORIZATION_RESTARTS, u8::MAX).
THEOREM CallsAreBounded == Spec => []CallBounded
  <1>1. Init => CallBounded
    BY AuthorizationAssumption DEF Init, CallBounded, NoRequest
  <1> QED BY <1>1, StepBounded, PTL DEF Spec

-----------------------------------------------------------------------------
(* PolicyContext: the policy, the overlays, the hooks and the registries are *)
(* what their version numbers say.                                          *)

\* What there is of each kind, and how often it was numbered.
ContextTyped ==
    /\ clock = [policy |-> clock.policy, overlay |-> clock.overlay, hooks |-> clock.hooks, registry |-> clock.registry]
    /\ {clock.policy, clock.overlay, clock.hooks, clock.registry} \subseteq Nat
    /\ policy = [rules |-> policy.rules, trusted |-> policy.trusted, rev |-> policy.rev]
    /\ overlay = [w \in Who |-> [mode |-> overlay[w].mode, rules |-> overlay[w].rules, rev |-> overlay[w].rev]]
    /\ hooks = [names |-> hooks.names, rev |-> hooks.rev] /\ hooks.names \in Seq(Nat)
    /\ registry = [w \in Who |-> [slots |-> registry[w].slots, index |-> registry[w].index,
                                  root |-> registry[w].root, rev |-> registry[w].rev]]
    /\ running \subseteq Subs

\* Rules have effects, an overlay's as well as the policy's.
RulesTyped ==
    /\ \A r \in policy.rules : r.effect \in DOMAIN Strictness
    /\ \A w \in Who : \A r \in overlay[w].rules : r.effect \in DOMAIN Strictness

\* Whatever is in force is on record under its number, and no number beyond its
\* counter was given.
Numbered ==
    /\ Contents(policy, overlay, hooks, registry) \subseteq versions
    /\ \A v \in versions : v[1] \in DOMAIN clock /\ v[2] \in Nat /\ v[2] <= clock[v[1]]

PolicyInv == ContextTyped /\ RulesTyped /\ Numbered /\ NumbersIdentify /\ NamesIdentify

(* The four counters, as SMT is to see them.                                *)
LEMMA ClockFields ==
    ASSUME ContextTyped
    PROVE  /\ DOMAIN clock = {"policy", "overlay", "hooks", "registry"}
           /\ \A kind \in DOMAIN clock : clock[kind] \in Nat
  BY DEF ContextTyped

(* Counting keeps the counters.                                             *)
LEMMA ClockCounts ==
    ASSUME ContextTyped, NEW kind \in DOMAIN clock, NEW n \in Nat, clock' = [clock EXCEPT ![kind] = n]
    PROVE  /\ clock' = [policy |-> clock'.policy, overlay |-> clock'.overlay, hooks |-> clock'.hooks, registry |-> clock'.registry]
           /\ {clock'.policy, clock'.overlay, clock'.hooks, clock'.registry} \subseteq Nat
  <1>1. DOMAIN clock' = {"policy", "overlay", "hooks", "registry"}
    BY ClockFields
  <1>2. \A k \in DOMAIN clock' : clock'[k] \in Nat
    BY ClockFields
  <1>3. clock' = [k \in DOMAIN clock |-> clock'[k]]
    OBVIOUS
  <1> QED BY <1>1, <1>2, <1>3, ClockFields

(* A number past its counter identifies what it is given to.                *)
LEMMA FreshNumber ==
    ASSUME ContextTyped, Numbered, NumbersIdentify, NEW kind \in DOMAIN clock, NEW e,
           e[1] = kind, e[2] \in Nat, e[2] > clock[kind],
           clock' = [clock EXCEPT ![kind] = e[2]],
           Contents(policy', overlay', hooks', registry') \subseteq versions \cup {e},
           e \in Contents(policy', overlay', hooks', registry'), Recorded
    PROVE  Numbered' /\ NumbersIdentify'
  <1>1. versions' = versions \cup {e}
    <2>1. versions' = versions \cup Contents(policy', overlay', hooks', registry')
      BY DEF Recorded
    <2> QED BY <2>1
  <1>2. \A k \in DOMAIN clock : clock[k] \in Nat /\ clock'[k] \in Nat /\ clock[k] <= clock'[k]
    BY ClockFields
  <1>3. DOMAIN clock' = DOMAIN clock /\ clock'[kind] = e[2]
    OBVIOUS
  <1>4. Numbered'
    <2>1. ASSUME NEW v \in versions' PROVE v[1] \in DOMAIN clock' /\ v[2] \in Nat /\ v[2] <= clock'[v[1]]
      <3>1. CASE v \in versions
        BY <3>1, <1>2, <1>3 DEF Numbered
      <3>2. CASE v = e
        BY <3>2, <1>3
      <3> QED BY <1>1, <3>1, <3>2
    <2>2. Contents(policy', overlay', hooks', registry') \subseteq versions'
      BY <1>1
    <2> QED BY <2>1, <2>2 DEF Numbered
  <1>5. ASSUME NEW v \in versions, v[1] = e[1] PROVE v[2] # e[2]
    <2>1. v[2] \in Nat /\ v[2] <= clock[kind] /\ clock[kind] \in Nat
      BY <1>5, ClockFields DEF Numbered
    <2> QED BY <2>1
  <1>6. NumbersIdentify'
    BY <1>1, <1>5 DEF NumbersIdentify
  <1> QED BY <1>4, <1>6

(* What is in force stays on record when one of the four is replaced under a *)
(* new number.                                                              *)
LEMMA PolicyReplaced ==
    ASSUME Numbered, UNCHANGED <<overlay, hooks, registry>>
    PROVE  LET e == <<"policy", policy'.rev, policy'.rules, policy'.trusted>>
           IN Contents(policy', overlay', hooks', registry') \subseteq versions \cup {e}
              /\ e \in Contents(policy', overlay', hooks', registry')
  BY DEF Numbered, Contents

LEMMA HooksReplaced ==
    ASSUME Numbered, UNCHANGED <<policy, overlay, registry>>
    PROVE  LET e == <<"hooks", hooks'.rev, hooks'.names>>
           IN Contents(policy', overlay', hooks', registry') \subseteq versions \cup {e}
              /\ e \in Contents(policy', overlay', hooks', registry')
  BY DEF Numbered, Contents

LEMMA OverlayReplaced ==
    ASSUME Numbered, UNCHANGED <<policy, hooks, registry>>, NEW w \in Who,
           \A u \in Who \ {w} : overlay'[u] = overlay[u]
    PROVE  LET e == <<"overlay", overlay'[w].rev, overlay'[w].mode, overlay'[w].rules>>
           IN Contents(policy', overlay', hooks', registry') \subseteq versions \cup {e}
              /\ e \in Contents(policy', overlay', hooks', registry')
  BY DEF Numbered, Contents

LEMMA RegistryReplaced ==
    ASSUME Numbered, UNCHANGED <<policy, hooks>>, NEW w \in Who,
           \A u \in Who \ {w} : registry'[u] = registry[u],
           \A u \in Who : \E x \in Who : overlay'[u] = overlay[x]
    PROVE  LET e == <<"registry", registry'[w].rev, registry'[w].slots, registry'[w].root>>
           IN Contents(policy', overlay', hooks', registry') \subseteq versions \cup {e}
              /\ e \in Contents(policy', overlay', hooks', registry')
  BY DEF Numbered, Contents

(* A policy under a new number.                                             *)
LEMMA PolicyChanges ==
    ASSUME PolicyInv, NEW R, NEW t, \A r \in R : r.effect \in DOMAIN Strictness,
           policy' = [rules |-> R, trusted |-> t, rev |-> clock.policy + 1],
           Counted("policy", policy.rev), UNCHANGED <<overlay, hooks, registry, running>>, Recorded
    PROVE  PolicyInv'
  <1> DEFINE e == <<"policy", policy'.rev, policy'.rules, policy'.trusted>>
  <1>1. /\ e[2] = clock["policy"] + 1 /\ e[1] = "policy" /\ "policy" \in DOMAIN clock
        /\ e[2] \in Nat /\ e[2] > clock["policy"]
    BY ClockFields DEF PolicyInv, ContextTyped
  <1>2. clock' = [clock EXCEPT !["policy"] = e[2]]
    BY <1>1 DEF Counted, NextRevision
  <1>3. ContextTyped'
    BY <1>1, <1>2, ClockCounts DEF PolicyInv, ContextTyped
  <1>4. RulesTyped'
    BY DEF PolicyInv, RulesTyped
  <1>5. /\ Contents(policy', overlay', hooks', registry') \subseteq versions \cup {e}
        /\ e \in Contents(policy', overlay', hooks', registry')
    BY PolicyReplaced DEF PolicyInv
  <1> HIDE DEF e
  <1>6. Numbered' /\ NumbersIdentify'
    BY <1>1, <1>2, <1>5, FreshNumber DEF PolicyInv
  <1>7. NamesIdentify'
    BY DEF PolicyInv, NamesIdentify
  <1> QED BY <1>3, <1>4, <1>6, <1>7 DEF PolicyInv

(* An overlay under a new number.                                           *)
LEMMA OverlayChanges ==
    ASSUME PolicyInv, NEW w \in Who, NEW m, NEW R, \A r \in R : r.effect \in DOMAIN Strictness,
           overlay' = [overlay EXCEPT ![w] = [mode |-> m, rules |-> R, rev |-> clock.overlay + 1]],
           Counted("overlay", overlay[w].rev), UNCHANGED <<policy, hooks, registry, running>>, Recorded
    PROVE  PolicyInv'
  <1> DEFINE e == <<"overlay", overlay'[w].rev, overlay'[w].mode, overlay'[w].rules>>
  <1>0. /\ overlay'[w] = [mode |-> m, rules |-> R, rev |-> clock.overlay + 1]
        /\ \A u \in Who \ {w} : overlay'[u] = overlay[u]
        /\ DOMAIN overlay = Who
    BY DEF PolicyInv, ContextTyped
  <1>1. /\ e[2] = clock["overlay"] + 1 /\ e[1] = "overlay" /\ "overlay" \in DOMAIN clock
        /\ e[2] \in Nat /\ e[2] > clock["overlay"]
    BY <1>0, ClockFields DEF PolicyInv, ContextTyped
  <1>2. clock' = [clock EXCEPT !["overlay"] = e[2]]
    BY <1>1 DEF Counted, NextRevision
  <1>3. ContextTyped'
    <2>1. clock' = [policy |-> clock'.policy, overlay |-> clock'.overlay, hooks |-> clock'.hooks, registry |-> clock'.registry]
          /\ {clock'.policy, clock'.overlay, clock'.hooks, clock'.registry} \subseteq Nat
      BY <1>1, <1>2, ClockCounts DEF PolicyInv
    <2>2. overlay' = [u \in Who |-> [mode |-> overlay'[u].mode, rules |-> overlay'[u].rules, rev |-> overlay'[u].rev]]
      BY DEF PolicyInv, ContextTyped
    <2> QED BY <2>1, <2>2 DEF PolicyInv, ContextTyped
  <1>4. RulesTyped'
    BY <1>0 DEF PolicyInv, RulesTyped
  <1>5. /\ Contents(policy', overlay', hooks', registry') \subseteq versions \cup {e}
        /\ e \in Contents(policy', overlay', hooks', registry')
    BY <1>0, OverlayReplaced DEF PolicyInv
  <1> HIDE DEF e
  <1>6. Numbered' /\ NumbersIdentify'
    BY <1>1, <1>2, <1>5, FreshNumber DEF PolicyInv
  <1>7. NamesIdentify'
    BY DEF PolicyInv, NamesIdentify
  <1> QED BY <1>3, <1>4, <1>6, <1>7 DEF PolicyInv

(* A hook with a name of its own.                                           *)
LEMMA HooksChange ==
    ASSUME PolicyInv, NEW name \in Nat, name \notin HookNames(hooks), AddHook(name)
    PROVE  PolicyInv'
  <1> DEFINE e == <<"hooks", hooks'.rev, hooks'.names>>
  <1>0. /\ hooks' = [names |-> Append(hooks.names, name), rev |-> clock.hooks + 1]
        /\ UNCHANGED <<policy, overlay, registry, running>> /\ Recorded /\ hooks.names \in Seq(Nat)
    BY DEF AddHook, NextRevision, Change, PolicyInv, ContextTyped
  <1>1. /\ e[2] = clock["hooks"] + 1 /\ e[1] = "hooks" /\ "hooks" \in DOMAIN clock
        /\ e[2] \in Nat /\ e[2] > clock["hooks"]
    BY <1>0, ClockFields DEF PolicyInv, ContextTyped
  <1>2. clock' = [clock EXCEPT !["hooks"] = e[2]]
    BY <1>1 DEF AddHook, Counted, NextRevision
  <1>3. ContextTyped'
    <2>1. clock' = [policy |-> clock'.policy, overlay |-> clock'.overlay, hooks |-> clock'.hooks, registry |-> clock'.registry]
          /\ {clock'.policy, clock'.overlay, clock'.hooks, clock'.registry} \subseteq Nat
      BY <1>1, <1>2, ClockCounts DEF PolicyInv
    <2>2. hooks' = [names |-> hooks'.names, rev |-> hooks'.rev] /\ hooks'.names \in Seq(Nat)
      BY <1>0
    <2> QED BY <1>0, <2>1, <2>2 DEF PolicyInv, ContextTyped
  <1>4. RulesTyped'
    BY <1>0 DEF PolicyInv, RulesTyped
  <1>5. /\ Contents(policy', overlay', hooks', registry') \subseteq versions \cup {e}
        /\ e \in Contents(policy', overlay', hooks', registry')
    BY <1>0, HooksReplaced DEF PolicyInv
  <1> HIDE DEF e
  <1>6. Numbered' /\ NumbersIdentify'
    BY <1>0, <1>1, <1>2, <1>5, FreshNumber DEF PolicyInv
  <1>7. NamesIdentify'
    <2>1. hooks'.names = Append(hooks.names, name)
      BY <1>0
    <2>2. IsInjective(hooks.names) /\ \A k \in DOMAIN hooks.names : hooks.names[k] # name
      BY DEF PolicyInv, NamesIdentify, HookNames
    <2>3. IsInjective(hooks'.names)
      <3>1. DOMAIN hooks'.names = 1..Len(hooks.names) + 1 /\ DOMAIN hooks.names = 1..Len(hooks.names)
        BY <1>0, <2>1
      <3>2. \A k \in 1..Len(hooks.names) : hooks'.names[k] = hooks.names[k]
        BY <1>0, <2>1
      <3>3. hooks'.names[Len(hooks.names) + 1] = name
        BY <1>0, <2>1
      <3> QED BY <1>0, <2>2, <3>1, <3>2, <3>3 DEF IsInjective
    <2> QED BY <1>0, <2>3 DEF PolicyInv, NamesIdentify
  <1> QED BY <1>3, <1>4, <1>6, <1>7 DEF PolicyInv

(* A registry under a new number, where every tool is found in its slot.    *)
LEMMA RegistryChanges ==
    ASSUME PolicyInv, NEW w \in Who, NEW slots, NEW root, NEW n \in Nat, n > clock["registry"],
           registry' = [registry EXCEPT ![w] = [slots |-> slots, index |-> Indexed(slots), root |-> root, rev |-> n]],
           clock' = [clock EXCEPT !["registry"] = n], UNCHANGED <<policy, hooks>>,
           overlay' = overlay \/ (\E x \in Who : overlay' = [overlay EXCEPT ![w] = overlay[x]]),
           running' \subseteq Subs, Recorded
    PROVE  PolicyInv'
  <1> DEFINE e == <<"registry", registry'[w].rev, registry'[w].slots, registry'[w].root>>
  <1>0. /\ registry'[w] = [slots |-> slots, index |-> Indexed(slots), root |-> root, rev |-> n]
        /\ \A u \in Who \ {w} : registry'[u] = registry[u]
        /\ DOMAIN registry = Who /\ DOMAIN overlay = Who
        /\ \A u \in Who : \E x \in Who : overlay'[u] = overlay[x]
    BY DEF PolicyInv, ContextTyped
  <1>1. /\ e[2] = n /\ e[1] = "registry" /\ "registry" \in DOMAIN clock
        /\ e[2] \in Nat /\ e[2] > clock["registry"]
    BY <1>0, ClockFields DEF PolicyInv
  <1>2. clock' = [clock EXCEPT !["registry"] = e[2]]
    BY <1>1
  <1>3. ContextTyped'
    <2>1. clock' = [policy |-> clock'.policy, overlay |-> clock'.overlay, hooks |-> clock'.hooks, registry |-> clock'.registry]
          /\ {clock'.policy, clock'.overlay, clock'.hooks, clock'.registry} \subseteq Nat
      BY <1>1, <1>2, ClockCounts DEF PolicyInv
    <2>2. overlay' = [u \in Who |-> [mode |-> overlay'[u].mode, rules |-> overlay'[u].rules, rev |-> overlay'[u].rev]]
      <3>1. DOMAIN overlay' = Who /\ overlay' = [u \in Who |-> overlay'[u]]
        BY <1>0 DEF PolicyInv, ContextTyped
      <3>2. \A u \in Who : overlay[u] = [mode |-> overlay[u].mode, rules |-> overlay[u].rules, rev |-> overlay[u].rev]
        BY DEF PolicyInv, ContextTyped
      <3>3. \A u \in Who : overlay'[u] = [mode |-> overlay'[u].mode, rules |-> overlay'[u].rules, rev |-> overlay'[u].rev]
        BY <1>0, <3>2
      <3> QED BY <3>1, <3>3
    <2>3. registry' = [u \in Who |-> [slots |-> registry'[u].slots, index |-> registry'[u].index,
                                      root |-> registry'[u].root, rev |-> registry'[u].rev]]
      BY <1>0 DEF PolicyInv, ContextTyped
    <2> QED BY <2>1, <2>2, <2>3 DEF PolicyInv, ContextTyped
  <1>4. RulesTyped'
    BY <1>0 DEF PolicyInv, RulesTyped
  <1>5. /\ Contents(policy', overlay', hooks', registry') \subseteq versions \cup {e}
        /\ e \in Contents(policy', overlay', hooks', registry')
    BY <1>0, RegistryReplaced DEF PolicyInv
  <1>6. \A k \in DOMAIN registry'[w].index : registry'[w].slots[registry'[w].index[k]].tool = k
    <2>1. registry'[w].slots = slots /\ registry'[w].index = Indexed(slots)
      BY <1>0
    <2>2. ASSUME NEW k \in DOMAIN Indexed(slots) PROVE slots[Indexed(slots)[k]].tool = k
      BY DEF Indexed
    <2> QED BY <2>1, <2>2
  <1> HIDE DEF e
  <1>7. Numbered' /\ NumbersIdentify'
    BY <1>1, <1>2, <1>5, FreshNumber DEF PolicyInv
  <1>8. NamesIdentify'
    BY <1>0, <1>6 DEF PolicyInv, NamesIdentify
  <1> QED BY <1>3, <1>4, <1>7, <1>8 DEF PolicyInv

(* The name Hooks::push makes up is nobody's: among one more numbers than   *)
(* there are hooks one is free.                                             *)
LEMMA FreshNameIsFree ==
    ASSUME hooks.names \in Seq(Nat)
    PROVE  FreshName(hooks) \in Nat /\ FreshName(hooks) \notin HookNames(hooks)
  <1> DEFINE N == Len(hooks.names)
             Free == {n \in N..2 * N : n \notin HookNames(hooks)}
  <1>0. N \in Nat /\ DOMAIN hooks.names = 1..N /\ HookNames(hooks) = {hooks.names[k] : k \in 1..N}
    BY DEF HookNames
  <1>1. Free # {}
    <2>1. SUFFICES ASSUME N..2 * N \subseteq HookNames(hooks) PROVE FALSE
      OBVIOUS
    <2>2. IsFiniteSet(HookNames(hooks)) /\ Cardinality(HookNames(hooks)) <= N
      <3>1. hooks.names \in Surjection(1..N, HookNames(hooks))
        BY <1>0 DEF Surjection
      <3>2. IsFiniteSet(1..N) /\ Cardinality(1..N) = N
        BY <1>0, FS_Interval
      <3> QED BY <3>1, <3>2, FS_Surjection
    <2>3. Cardinality(N..2 * N) = N + 1
      <3>1. N \in Int /\ 2 * N \in Int /\ ~(N > 2 * N) /\ 2 * N - N + 1 = N + 1
        BY <1>0
      <3> HIDE DEF N
      <3> QED BY <3>1, FS_Interval
    <2>4. Cardinality(N..2 * N) <= Cardinality(HookNames(hooks)) /\ Cardinality(HookNames(hooks)) \in Nat
      BY <2>1, <2>2, FS_Subset, FS_CardinalityType
    <2> QED BY <1>0, <2>2, <2>3, <2>4
  <1>2. PICK n \in Free : \A m \in Free : n <= m
    <2>1. Free \in SUBSET Nat
      BY <1>0
    <2> HIDE DEF Free
    <2> QED BY <1>1, <2>1, LeastElement
  <1>3. n \in N..2 * N /\ n \notin HookNames(hooks) /\ \A m \in N..n - 1 : m \in HookNames(hooks)
    BY <1>0, <1>2
  <1>4. FreshName(hooks) \in N..2 * N /\ FreshName(hooks) \notin HookNames(hooks)
    BY <1>3 DEF FreshName
  <1> QED BY <1>0, <1>4

(* Every group of tools that is registered has a tool in it.                *)
LEMMA GroupsHaveTools ==
    ASSUME NEW group \in Groups
    PROVE  Len(group) \in Nat /\ Len(group) >= 1
  <1>1. Len(TaskTool) = 1 /\ TaskTool \in Seq({TaskTool[1]})
    BY DEF TaskTool
  <1>2. Len(DefaultTools) = 10
    BY DEF DefaultTools, TaskTool
  <1>3. Len(SkillTool) = 1 /\ Len(MemoryTools) = 2
    BY DEF SkillTool, MemoryTools
  <1>4. Len(TaskStoreTools) = 6
    BY DEF TaskStoreTools
  <1>5. Len(<<ExactTool("custom")>>) = 1
    OBVIOUS
  <1> QED BY <1>1, <1>2, <1>3, <1>4, <1>5 DEF Groups

(* A rule that compiles keeps its effect, and so do the built-in ones.      *)
LEMMA AddedRulesAreRules ==
    /\ \A text \in Texts : Compiled(text).effect \in DOMAIN Strictness
    /\ \A r \in Builtin : r.effect \in DOMAIN Strictness
  <1>1. ASSUME NEW text \in Texts PROVE Compiled(text).effect \in DOMAIN Strictness
    <2>1. text.effect \in DOMAIN Strictness
          /\ text = [ns |-> text.ns, sel |-> text.sel, absolute |-> text.absolute, effect |-> text.effect, origin |-> text.origin]
      BY PolicyAssumption
    <2>2. Compiled(text).effect = text.effect
      BY <2>1 DEF Compiled
    <2> QED BY <2>1, <2>2
  <1>2. ASSUME NEW r \in Builtin PROVE r.effect \in DOMAIN Strictness
    BY DEF Builtin, Strictness
  <1> QED BY <1>1, <1>2

(* One step of policy, overlays, hooks or registries.                       *)
LEMMA StepPolicy ==
    ASSUME PolicyInv, [PolicyNext]_polVars
    PROVE  PolicyInv'
  <1>0. /\ clock.policy = clock["policy"] /\ clock.overlay = clock["overlay"]
        /\ clock.registry = clock["registry"] /\ clock["registry"] \in Nat
    BY ClockFields DEF PolicyInv
  <1>1. ASSUME NEW text \in Texts, CompileAndPush(text) PROVE PolicyInv'
    <2>1. PushRules({Compiled(text)}) /\ Recorded
      BY <1>1 DEF CompileAndPush, Change
    <2>2. policy' = [rules |-> policy.rules \cup {Compiled(text)}, trusted |-> policy.trusted, rev |-> clock.policy + 1]
      BY <2>1 DEF PushRules, NextRevision, PolicyInv, ContextTyped
    <2>3. \A r \in policy.rules \cup {Compiled(text)} : r.effect \in DOMAIN Strictness
      BY AddedRulesAreRules DEF PolicyInv, RulesTyped
    <2> QED BY <2>1, <2>2, <2>3, PolicyChanges DEF PushRules
  <1>2. ASSUME NEW root \in Roots, AppendPolicy(Builtin, root) PROVE PolicyInv'
    <2>1. PushRules(Builtin) /\ Recorded
      BY <1>2 DEF AppendPolicy, Change
    <2>2. policy' = [rules |-> policy.rules \cup Builtin, trusted |-> policy.trusted, rev |-> clock.policy + 1]
      BY <2>1 DEF PushRules, NextRevision, PolicyInv, ContextTyped
    <2>3. \A r \in policy.rules \cup Builtin : r.effect \in DOMAIN Strictness
      BY AddedRulesAreRules DEF PolicyInv, RulesTyped
    <2> QED BY <2>1, <2>2, <2>3, PolicyChanges DEF PushRules
  <1>3. ASSUME NEW trusted \in BOOLEAN, SetWorkspaceTrust(trusted) PROVE PolicyInv'
    <2>1. policy' = [rules |-> policy.rules, trusted |-> trusted, rev |-> clock.policy + 1]
      BY <1>3 DEF SetWorkspaceTrust, NextRevision, PolicyInv, ContextTyped
    <2>2. \A r \in policy.rules : r.effect \in DOMAIN Strictness
      BY DEF PolicyInv, RulesTyped
    <2> QED BY <1>3, <2>1, <2>2, PolicyChanges DEF SetWorkspaceTrust, Change
  <1>4. ASSUME NEW how \in PolicyModes, SetOverlayMode(how) PROVE PolicyInv'
    <2>1. Main \in Who
      BY DEF Who
    <2>2. overlay' = [overlay EXCEPT ![Main] = [mode |-> how, rules |-> overlay[Main].rules, rev |-> clock.overlay + 1]]
      BY <1>4, <2>1 DEF SetOverlayMode, NextRevision, PolicyInv, ContextTyped
    <2>3. \A r \in overlay[Main].rules : r.effect \in DOMAIN Strictness
      BY <2>1 DEF PolicyInv, RulesTyped
    <2> QED BY <1>4, <2>1, <2>2, <2>3, OverlayChanges DEF SetOverlayMode, Change
  <1>5. ASSUME NEW w \in Who, NEW target \in Targets, NEW effect \in {"Allow", "Deny"}, Grant(w, target, effect)
        PROVE  PolicyInv'
    <2>1. overlay' = [overlay EXCEPT ![w] = [mode |-> overlay[w].mode,
              rules |-> overlay[w].rules \cup {ExactTarget(target, effect)}, rev |-> clock.overlay + 1]]
      BY <1>5 DEF Grant, NextRevision, PolicyInv, ContextTyped
    <2>2. \A r \in overlay[w].rules \cup {ExactTarget(target, effect)} : r.effect \in DOMAIN Strictness
      BY DEF PolicyInv, RulesTyped, ExactTarget, Strictness
    <2> QED BY <1>5, <2>1, <2>2, OverlayChanges DEF Grant, Change
  <1>6. CASE PushHook
    BY <1>6, FreshNameIsFree, HooksChange DEF PushHook, PolicyInv, ContextTyped
  <1>7. ASSUME NEW name \in 0..2, PushWithCapabilities(name) PROVE PolicyInv'
    BY <1>7, HooksChange DEF PushWithCapabilities
  <1>8. ASSUME NEW group \in Groups, NEW root \in Roots, RegisterGroup(group, root) PROVE PolicyInv'
    <2>1. PICK n : n = clock.registry + 1 + Len(group) - 1
      OBVIOUS
    <2>2. n \in Nat /\ n > clock["registry"]
      BY <1>0, <2>1, GroupsHaveTools
    <2>3. PICK slots : slots = Placed(registry[Main], group)
      OBVIOUS
    <2>4. PICK r : r = IF \E k \in DOMAIN group : group[k].rooted THEN root ELSE registry[Main].root
      OBVIOUS
    <2>5. /\ registry' = [registry EXCEPT ![Main] = [slots |-> slots, index |-> Indexed(slots), root |-> r, rev |-> n]]
          /\ clock' = [clock EXCEPT !["registry"] = n]
          /\ UNCHANGED <<policy, overlay, hooks, running>> /\ Recorded
      BY <1>8, <2>1, <2>3, <2>4 DEF RegisterGroup, NextRevision, Change
    <2> QED BY <2>2, <2>5, RegistryChanges DEF Who, PolicyInv, ContextTyped
  <1>9. ASSUME NEW s \in Subs, NEW whitelist \in Whitelists, Delegate(s, whitelist) PROVE PolicyInv'
    <2>1. PICK n : n = clock.registry + 1
      OBVIOUS
    <2>2. n \in Nat /\ n > clock["registry"]
      BY <1>0, <2>1
    <2>3. PICK slots : slots = Picked(registry[Main].slots,
              {k \in DOMAIN registry[Main].slots : registry[Main].slots[k].tool \in WithoutTask(s) \cap whitelist})
      OBVIOUS
    <2>4. registry' = [registry EXCEPT ![s] =
              [slots |-> slots, index |-> Indexed(slots), root |-> registry[Main].root, rev |-> n]]
      BY <1>9, <2>1, <2>3 DEF Delegate, NextRevision, Retaining
    <2>5. /\ clock' = [clock EXCEPT !["registry"] = n] /\ UNCHANGED <<policy, hooks>> /\ Recorded
          /\ overlay' = [overlay EXCEPT ![s] = overlay[Main]] /\ running' = running \cup {s}
      BY <1>9, <2>1 DEF Delegate, Counted, NextRevision, Change
    <2> QED BY <2>2, <2>4, <2>5, RegistryChanges DEF Who, PolicyInv, ContextTyped
  <1>10. CASE (\E s \in Subs : DelegationEnds(s)) \/ UNCHANGED polVars
    <2>1. UNCHANGED <<policy, overlay, hooks, registry, clock, versions>> /\ running' \subseteq Subs
      BY <1>10 DEF DelegationEnds, polVars, PolicyInv, ContextTyped
    <2> QED BY <2>1 DEF PolicyInv, ContextTyped, RulesTyped, Numbered, NumbersIdentify, NamesIdentify
  <1> QED BY <1>1, <1>2, <1>3, <1>4, <1>5, <1>6, <1>7, <1>8, <1>9, <1>10 DEF PolicyNext

(* What a session starts with has the first numbers.                        *)
LEMMA PolicyStarts ==
    PolicyInit => PolicyInv
  <1> SUFFICES ASSUME PolicyInit PROVE PolicyInv
    OBVIOUS
  <1>1. PICK R \in {{}, {FailClosedRule}, Builtin} : policy = [rules |-> R, trusted |-> FALSE, rev |-> 1]
    BY DEF PolicyInit
  <1>2. /\ overlay = [w \in Who |-> [mode |-> "Default", rules |-> {}, rev |-> 1]]
        /\ hooks = [names |-> <<>>, rev |-> 1] /\ registry = [w \in Who |-> NoTools]
        /\ running = {} /\ clock = [policy |-> 1, overlay |-> 1, hooks |-> 1, registry |-> 1]
        /\ versions = Contents(policy, overlay, hooks, registry)
    BY DEF PolicyInit
  <1>3. ContextTyped
    BY <1>1, <1>2 DEF ContextTyped, NoTools
  <1>4. RulesTyped
    <2>1. FailClosedRule.effect \in DOMAIN Strictness
      BY DEF FailClosedRule, Strictness
    <2> QED BY <1>1, <1>2, <2>1, AddedRulesAreRules DEF RulesTyped
  <1>5. PICK v1, v2, v3, v4 : /\ v1 = <<"policy", 1, policy.rules, FALSE>> /\ v2 = <<"hooks", 1, <<>>>>
                              /\ v3 = <<"overlay", 1, "Default", {}>>
                              /\ v4 = <<"registry", 1, NoTools.slots, NoTools.root>>
    OBVIOUS
  <1>6. versions \subseteq {v1, v2, v3, v4}
    BY <1>1, <1>2, <1>5 DEF Contents, NoTools
  <1>7. /\ v1[1] = "policy" /\ v2[1] = "hooks" /\ v3[1] = "overlay" /\ v4[1] = "registry"
        /\ v1[2] = 1 /\ v2[2] = 1 /\ v3[2] = 1 /\ v4[2] = 1
    BY <1>5
  <1>8. Numbered
    <2>1. \A v \in versions : v[1] \in DOMAIN clock /\ v[2] \in Nat /\ v[2] <= clock[v[1]]
      <3>1. \A k \in {"policy", "hooks", "overlay", "registry"} : k \in DOMAIN clock /\ clock[k] = 1
        BY <1>2
      <3> QED BY <1>6, <1>7, <3>1
    <2> QED BY <1>2, <2>1 DEF Numbered
  <1>9. NumbersIdentify
    BY <1>6, <1>7 DEF NumbersIdentify
  <1>10. NamesIdentify
    BY <1>2 DEF NamesIdentify, IsInjective, NoTools
  <1> QED BY <1>3, <1>4, <1>8, <1>9, <1>10 DEF PolicyInv

(* The strictest of some effects is one of them, and none is stricter.      *)
LEMMA StrictestIsStrictest ==
    ASSUME NEW E \in SUBSET DOMAIN Strictness, E # {}
    PROVE  /\ StrictestEffect(E) \in E
           /\ \A f \in E : Strictness[f] <= Strictness[StrictestEffect(E)]
  <1>1. /\ DOMAIN Strictness = {"Allow", "RequireApproval", "Deny"}
        /\ Strictness["Allow"] = 1 /\ Strictness["RequireApproval"] = 2 /\ Strictness["Deny"] = 3
    BY DEF Strictness
  <1>2. \E e \in E : \A f \in E : Strictness[f] <= Strictness[e]
    <2>1. CASE "Deny" \in E
      BY <1>1, <2>1
    <2>2. CASE "Deny" \notin E /\ "RequireApproval" \in E
      BY <1>1, <2>2
    <2>3. CASE "Deny" \notin E /\ "RequireApproval" \notin E
      BY <1>1, <2>3
    <2> QED BY <2>1, <2>2, <2>3
  <1> QED BY <1>2 DEF StrictestEffect

(* What a tool does by default is to run or to ask, never to refuse.        *)
LEMMA DefaultsNeverDeny ==
    ASSUME NEW profile \in Profiles, NEW ns \in DOMAIN profile.defaults
    PROVE  profile.defaults[ns] \in {"Allow", "RequireApproval"}
  <1> DEFINE Mild(x) == \A n \in DOMAIN x.defaults : x.defaults[n] \in {"Allow", "RequireApproval"}
  <1>1. \A x \in Range(TaskTool) : Mild(x)
    BY DEF TaskTool, Range, Profile
  <1>2. \A x \in Range(DefaultTools) : Mild(x)
    <2>1. DOMAIN DefaultTools = 1..10 /\ \A k \in 1..10 : Mild(DefaultTools[k])
      BY DEF DefaultTools, TaskTool, Profile, Walking
    <2> QED BY <2>1 DEF Range
  <1>3. \A x \in Range(SkillTool) \cup Range(MemoryTools) : Mild(x)
    BY DEF SkillTool, MemoryTools, Range, Profile
  <1>4. \A x \in Range(TaskStoreTools) : Mild(x)
    BY DEF TaskStoreTools, Range, Profile
  <1>5. \A x \in Range(<<ExactTool("custom")>>) : Mild(x)
    BY DEF ExactTool, Range, Profile
  <1> HIDE DEF Mild
  <1>6. Mild(profile)
    BY <1>1, <1>2, <1>3, <1>4, <1>5 DEF Profiles, Groups
  <1> QED BY <1>6 DEF Mild

(* Without the project's rules an untrusted policy is as strict or less.    *)
LEMMA OneTightens ==
    ASSUME NEW p, NEW bare, NEW o, NEW t, NEW default \in {"Allow", "RequireApproval"},
           ~p.trusted, bare.trusted = p.trusted, bare.rules = {r \in p.rules : r.origin # "Project"},
           \A r \in p.rules \cup o.rules : r.effect \in DOMAIN Strictness
    PROVE  /\ ResolveOne(p, o, t, default) \in DOMAIN Strictness
           /\ ResolveOne(bare, o, t, default) \in DOMAIN Strictness
           /\ Strictness[ResolveOne(p, o, t, default)] >= Strictness[ResolveOne(bare, o, t, default)]
  <1> DEFINE Of(x) == {rule.effect : rule \in {r \in EffectiveRules(x, o) : RuleMatches(r, t)}} \cup ModeContribution(o.mode, t)
  <1>1. /\ DOMAIN Strictness = {"Allow", "RequireApproval", "Deny"}
        /\ Strictness["Allow"] = 1 /\ Strictness["RequireApproval"] = 2 /\ Strictness["Deny"] = 3
    BY DEF Strictness
  <1>2. EffectiveRules(bare, o) \subseteq EffectiveRules(p, o)
    BY DEF EffectiveRules, StaticRuleIsEffective
  <1>3. \A r \in EffectiveRules(p, o) \ EffectiveRules(bare, o) : r.effect # "Allow"
    BY DEF EffectiveRules, StaticRuleIsEffective
  <1>4. \A r \in EffectiveRules(p, o) : r.effect \in DOMAIN Strictness
    BY DEF EffectiveRules
  <1>5. ModeContribution(o.mode, t) \in SUBSET DOMAIN Strictness
    BY <1>1 DEF ModeContribution
  <1>6. Of(p) \in SUBSET DOMAIN Strictness /\ Of(bare) \subseteq Of(p) /\ Of(p) \ Of(bare) \subseteq {"RequireApproval", "Deny"}
    BY <1>1, <1>2, <1>3, <1>4, <1>5
  <1>7. /\ ResolveOne(p, o, t, default) = IF Of(p) = {} THEN default ELSE StrictestEffect(Of(p))
        /\ ResolveOne(bare, o, t, default) = IF Of(bare) = {} THEN default ELSE StrictestEffect(Of(bare))
    BY DEF ResolveOne
  <1> HIDE DEF Of
  <1>8. CASE Of(bare) # {}
    BY <1>1, <1>6, <1>7, <1>8, StrictestIsStrictest
  <1>9. CASE Of(bare) = {} /\ Of(p) = {}
    BY <1>1, <1>7, <1>9
  <1>10. CASE Of(bare) = {} /\ Of(p) # {}
    <2>1. StrictestEffect(Of(p)) \in {"RequireApproval", "Deny"}
      BY <1>6, <1>10, StrictestIsStrictest
    <2> QED BY <1>1, <1>7, <1>10, <2>1
  <1> QED BY <1>8, <1>9, <1>10

(* So it is for all that a request touches.                                 *)
LEMMA Tightens ==
    ASSUME PolicyInv
    PROVE  UntrustedOnlyTightens
  <1> SUFFICES ASSUME ~policy.trusted, NEW bare, bare = [policy EXCEPT !.rules = {r \in @ : r.origin # "Project"}],
                      NEW w \in Who, NEW q \in Requests
               PROVE  Strictness[Resolve(policy, overlay[w], q[1], q[2])] >= Strictness[Resolve(bare, overlay[w], q[1], q[2])]
    BY DEF UntrustedOnlyTightens
  <1> DEFINE profile == q[1]
             targets == q[2]
             With(t) == ResolveOne(policy, overlay[w], t, profile.defaults[t.ns])
             Without(t) == ResolveOne(bare, overlay[w], t, profile.defaults[t.ns])
  <1>1. profile \in Profiles /\ Validates(profile, targets)
    BY DEF Requests
  <1>2. targets # {} /\ \A t \in targets : t.ns \in DOMAIN profile.defaults
    BY <1>1 DEF Validates
  <1>3. bare.trusted = policy.trusted /\ bare.rules = {r \in policy.rules : r.origin # "Project"}
    BY DEF PolicyInv, ContextTyped
  <1>4. ASSUME NEW t \in targets
        PROVE  /\ With(t) \in DOMAIN Strictness /\ Without(t) \in DOMAIN Strictness
               /\ Strictness[With(t)] >= Strictness[Without(t)]
    <2>1. profile.defaults[t.ns] \in {"Allow", "RequireApproval"}
      BY <1>1, <1>2, DefaultsNeverDeny
    <2>2. \A r \in policy.rules \cup overlay[w].rules : r.effect \in DOMAIN Strictness
      BY DEF PolicyInv, RulesTyped
    <2> QED BY <1>3, <2>1, <2>2, OneTightens
  <1>5. /\ Resolve(policy, overlay[w], profile, targets) = StrictestEffect({With(t) : t \in targets})
        /\ Resolve(bare, overlay[w], profile, targets) = StrictestEffect({Without(t) : t \in targets})
    BY <1>1 DEF Resolve
  <1> HIDE DEF With, Without
  <1>6. /\ {With(t) : t \in targets} \in SUBSET DOMAIN Strictness /\ {With(t) : t \in targets} # {}
        /\ {Without(t) : t \in targets} \in SUBSET DOMAIN Strictness /\ {Without(t) : t \in targets} # {}
    BY <1>2, <1>4
  <1>7. PICK t \in targets : StrictestEffect({Without(u) : u \in targets}) = Without(t)
    BY <1>6, StrictestIsStrictest
  <1>8. /\ Strictness[With(t)] <= Strictness[StrictestEffect({With(u) : u \in targets})]
        /\ StrictestEffect({With(u) : u \in targets}) \in DOMAIN Strictness
    BY <1>6, StrictestIsStrictest
  <1>9. \A e \in DOMAIN Strictness : Strictness[e] \in Nat
    BY DEF Strictness
  <1> QED BY <1>4, <1>5, <1>7, <1>8, <1>9

(* Whoever compares the revisions of two moments - a receipt and the context *)
(* it is presented to (AuthorizationContextRevision) - learns whether rules,  *)
(* overlay, hooks or registry were the same, also across a session and the    *)
(* delegations started from it; hook names are identities; and the rules of   *)
(* an untrusted project only ever tighten (resolve).                          *)
THEOREM VersionsAlwaysIdentify == PolicySpec => []VersionsIdentify
  <1>1. PolicyInv => VersionsIdentify
    BY Tightens DEF PolicyInv, VersionsIdentify
  <1> QED BY <1>1, PolicyStarts, StepPolicy, PTL DEF PolicySpec

-----------------------------------------------------------------------------
(* The lists of tools: what stands at some places of a list, in order.      *)

(* The ranks of a set of places are the numbers from 1, one for each.       *)
LEMMA RanksOf ==
    ASSUME NEW m \in Nat, NEW K \in SUBSET (1..m)
    PROVE  /\ IsFiniteSet(K) /\ Cardinality(K) \in Nat
           /\ \A i \in K : Rank(K, i) \in 1..Cardinality(K)
           /\ \A i, j \in K : Rank(K, i) = Rank(K, j) => i = j
           /\ \A n \in 1..Cardinality(K) : \E i \in K : Rank(K, i) = n
  <1>0. \A j \in K : j \in Nat /\ 1 <= j /\ j <= m
    OBVIOUS
  <1>1. /\ IsFiniteSet(K) /\ Cardinality(K) \in Nat
        /\ \A T \in SUBSET K : IsFiniteSet(T) /\ Cardinality(T) \in Nat /\ Cardinality(T) <= Cardinality(K)
    <2>1. IsFiniteSet(1..m)
      BY FS_Interval
    <2>2. IsFiniteSet(K)
      BY <2>1, FS_Subset
    <2> QED BY <2>2, FS_Subset, FS_CardinalityType
  <1>2. ASSUME NEW i \in Nat PROVE Rank(K, i) \in Nat /\ Rank(K, i) <= Cardinality(K)
    BY <1>1 DEF Rank
  <1>3. ASSUME NEW x \in Nat, x # 0
        PROVE  Rank(K, x) = Rank(K, x - 1) + (IF x \in K THEN 1 ELSE 0)
    <2> DEFINE Below == {j \in K : j <= x - 1}
    <2>1. IsFiniteSet(Below) /\ x \notin Below
      BY <1>1, <1>3
    <2>2. {j \in K : j <= x} = IF x \in K THEN Below \cup {x} ELSE Below
      <3>1. \A j \in K : j <= x <=> j <= x - 1 \/ j = x
        BY <1>0, <1>3
      <3> QED BY <3>1
    <2>3. Cardinality(Below \cup {x}) = Cardinality(Below) + 1
      BY <2>1, FS_AddElement
    <2>4. Cardinality(Below) \in Nat
      BY <2>1, FS_CardinalityType
    <2>5. Rank(K, x - 1) = Cardinality(Below)
      BY DEF Rank
    <2>6. Rank(K, x) = Cardinality(IF x \in K THEN Below \cup {x} ELSE Below)
      BY <2>2 DEF Rank
    <2> HIDE DEF Below
    <2> QED BY <2>3, <2>4, <2>5, <2>6
  <1>4. ASSUME NEW i \in K, NEW j \in K, i < j PROVE Rank(K, i) < Rank(K, j)
    <2>1. i \in Nat /\ j \in Nat /\ j # 0 /\ j - 1 \in Nat
      BY <1>4
    <2>2. Rank(K, j) = Rank(K, j - 1) + 1
      BY <1>3, <2>1
    <2>3. Rank(K, i) <= Rank(K, j - 1)
      <3>1. {k \in K : k <= i} \in SUBSET {k \in K : k <= j - 1}
        <4>1. \A k \in K : k <= i => k <= j - 1
          BY <1>0, <1>4, <2>1
        <4> QED BY <4>1
      <3>2. IsFiniteSet({k \in K : k <= j - 1})
        BY <1>1
      <3> QED BY <3>1, <3>2, FS_Subset DEF Rank
    <2> QED BY <1>2, <2>1, <2>2, <2>3
  <1>5. ASSUME NEW i \in K PROVE Rank(K, i) \in 1..Cardinality(K)
    <2>1. i \in Nat /\ i # 0 /\ i - 1 \in Nat
      OBVIOUS
    <2> QED BY <1>2, <1>3, <2>1
  <1>6. ASSUME NEW n \in 1..Cardinality(K) PROVE \E i \in K : Rank(K, i) = n
    <2> DEFINE T == {x \in 0..m : Rank(K, x) >= n}
    <2>1. Rank(K, m) = Cardinality(K)
      <3>1. {j \in K : j <= m} = K
        BY <1>0
      <3> QED BY <3>1 DEF Rank
    <2>2. Rank(K, 0) = 0
      <3>1. {j \in K : j <= 0} = {}
        <4>1. \A j \in K : ~(j <= 0)
          BY <1>0
        <4> QED BY <4>1
      <3> QED BY <3>1, FS_EmptySet DEF Rank
    <2>3. T \in SUBSET Nat /\ T # {}
      BY <1>1, <2>1
    <2>4. PICK x \in T : \A y \in T : x <= y
      <3> HIDE DEF T
      <3> QED BY <2>3, LeastElement
    <2>5. x \in 0..m /\ Rank(K, x) >= n /\ \A y \in 0..m : Rank(K, y) >= n => x <= y
      BY <2>4
    <2>6. x # 0 /\ x \in Nat /\ x - 1 \in 0..m
      BY <2>2, <2>5
    <2>7. ~(Rank(K, x - 1) >= n)
      BY <2>5, <2>6
    <2>8. Rank(K, x - 1) \in Nat
      BY <1>2, <2>6
    <2> HIDE DEF T
    <2>9. x \in K /\ Rank(K, x) = n
      BY <1>1, <1>3, <2>5, <2>6, <2>7, <2>8
    <2> QED BY <2>9
  <1>7. ASSUME NEW i \in K, NEW j \in K, Rank(K, i) = Rank(K, j) PROVE i = j
    <2>1. Rank(K, i) \in Nat /\ Rank(K, j) \in Nat /\ i \in Nat /\ j \in Nat
      BY <1>5, <1>1
    <2> QED BY <1>4, <1>7, <2>1
  <1> QED BY <1>1, <1>5, <1>6, <1>7

(* A place of each rank, and a rank of each place.                          *)
LEMMA PickedPlaces ==
    ASSUME NEW m \in Nat, NEW K \in SUBSET (1..m)
    PROVE  \E c \in Nat : \E at :
              /\ \A n \in 1..c : at[n] \in K
              /\ \A i \in K : \E n \in 1..c : at[n] = i
              /\ \A s : Picked(s, K) = [n \in 1..c |-> s[at[n]]]
  <1> DEFINE at == [n \in 1..Cardinality(K) |-> CHOOSE i \in K : Rank(K, i) = n]
  <1>1. \A n \in 1..Cardinality(K) : at[n] \in K /\ Rank(K, at[n]) = n
    BY RanksOf
  <1>2. ASSUME NEW i \in K PROVE Rank(K, i) \in 1..Cardinality(K) /\ at[Rank(K, i)] = i
    BY <1>1, RanksOf
  <1>3. ASSUME NEW s PROVE Picked(s, K) = [n \in 1..Cardinality(K) |-> s[at[n]]]
    BY DEF Picked
  <1>4. Cardinality(K) \in Nat
    BY RanksOf
  <1> HIDE DEF at
  <1> QED BY <1>1, <1>2, <1>3, <1>4

(* What is picked from a sequence is a sequence of what stands there, and    *)
(* commutes with renaming what stands there.                                *)
LEMMA PickedIsSeq ==
    ASSUME NEW S, NEW s \in Seq(S), NEW K \in SUBSET DOMAIN s
    PROVE  /\ Picked(s, K) \in Seq(S)
           /\ Range(Picked(s, K)) = {s[k] : k \in K}
           /\ \A t : (\A k \in K : t[k] = s[k].tool)
                 => [n \in DOMAIN Picked(s, K) |-> Picked(s, K)[n].tool] = Picked(t, K)
  <1>1. PICK m \in Nat : DOMAIN s = 1..m /\ K \in SUBSET (1..m)
    OBVIOUS
  <1>2. PICK c \in Nat : \E at :
              /\ \A n \in 1..c : at[n] \in K
              /\ \A i \in K : \E n \in 1..c : at[n] = i
              /\ \A t : Picked(t, K) = [n \in 1..c |-> t[at[n]]]
    BY <1>1, PickedPlaces
  <1>4. PICK at :
              /\ \A n \in 1..c : at[n] \in K
              /\ \A i \in K : \E n \in 1..c : at[n] = i
              /\ \A t : Picked(t, K) = [n \in 1..c |-> t[at[n]]]
    BY <1>2
  <1>5. Picked(s, K) \in Seq(S)
    <2>1. [n \in 1..c |-> s[at[n]]] \in Seq(S)
      BY <1>1, <1>4
    <2> QED BY <1>4, <2>1
  <1>6. Range(Picked(s, K)) = {s[k] : k \in K}
    <2>1. PICK p : p = Picked(s, K)
      OBVIOUS
    <2>2. DOMAIN p = 1..c /\ \A n \in 1..c : p[n] = s[at[n]]
      BY <1>4, <2>1
    <2>3. ASSUME NEW k \in K PROVE s[k] \in Range(p)
      BY <1>4, <2>2 DEF Range
    <2>4. ASSUME NEW n \in 1..c PROVE p[n] \in {s[k] : k \in K}
      BY <1>4, <2>2
    <2>5. Range(p) = {s[k] : k \in K}
      BY <2>2, <2>3, <2>4 DEF Range
    <2> QED BY <2>1, <2>5
  <1>7. ASSUME NEW t, \A k \in K : t[k] = s[k].tool
        PROVE  [n \in DOMAIN Picked(s, K) |-> Picked(s, K)[n].tool] = Picked(t, K)
    <2>1. PICK p : p = Picked(s, K)
      OBVIOUS
    <2>2. DOMAIN p = 1..c /\ \A n \in 1..c : p[n] = s[at[n]]
      BY <1>4, <2>1
    <2>3. \A n \in 1..c : p[n].tool = t[at[n]]
      BY <1>4, <1>7, <2>2
    <2>4. [n \in DOMAIN p |-> p[n].tool] = [n \in 1..c |-> t[at[n]]]
      BY <2>2, <2>3
    <2> QED BY <1>4, <2>1, <2>4
  <1> QED BY <1>5, <1>6, <1>7

-----------------------------------------------------------------------------
\* The tools of every registry stand in a list.
Slots == [tool : ToolNames, version : Nat]
SlotsTyped == \A w \in Who : registry[w].slots \in Seq(Slots)

(* A group is a list of profiles.                                           *)
LEMMA GroupsAreLists ==
    ASSUME NEW group \in Groups
    PROVE  group \in Seq(Profiles)
  <1>1. \A x \in Range(group) : x \in Profiles
    BY DEF Profiles
  <1> DEFINE List(g) == \E n \in Nat : DOMAIN g = 1..n /\ g = [k \in 1..n |-> g[k]]
  <1>2. List(TaskTool)
    BY DEF TaskTool
  <1>3. List(DefaultTools)
    <2>1. DOMAIN DefaultTools = 1..10 /\ DefaultTools = [k \in 1..10 |-> DefaultTools[k]]
      BY DEF DefaultTools, TaskTool
    <2> QED BY <2>1
  <1>4. List(SkillTool) /\ List(MemoryTools)
    BY DEF SkillTool, MemoryTools
  <1>5. List(TaskStoreTools)
    <2>1. DOMAIN TaskStoreTools = 1..6 /\ TaskStoreTools = [k \in 1..6 |-> TaskStoreTools[k]]
      BY DEF TaskStoreTools
    <2> QED BY <2>1
  <1>6. ASSUME NEW x, group = <<x>> PROVE List(group)
    BY <1>6
  <1>7. List(group)
    <2> HIDE DEF List
    <2> QED BY <1>2, <1>3, <1>4, <1>5, <1>6 DEF Groups
  <1> QED BY <1>1, <1>7 DEF Range

(* A newly registered group adds at the end.                                *)
LEMMA PlacedKeepsNames ==
    ASSUME NEW r, r.slots \in Seq(Slots), NEW group \in Groups
    PROVE  /\ Placed(r, group) \in Seq(Slots)
           /\ Len(r.slots) <= Len(Placed(r, group))
           /\ \A k \in 1..Len(r.slots) : Placed(r, group)[k].tool = r.slots[k].tool
  <1> DEFINE K == {k \in DOMAIN group : group[k].tool \notin DOMAIN r.index}
             old == [k \in DOMAIN r.slots |-> IF \E i \in DOMAIN group : group[i].tool = r.slots[k].tool
                              THEN [r.slots[k] EXCEPT !.version = @ + 1] ELSE r.slots[k]]
  <1>1. Picked(group, K) \in Seq(Profiles)
    BY GroupsAreLists, PickedIsSeq
  <1>2. Fresh(Picked(group, K)) \in Seq(Slots)
    <2>1. PICK p \in Seq(Profiles) : p = Picked(group, K)
      BY <1>1
    <2>2. \A k \in DOMAIN p : p[k].tool \in ToolNames
      BY DEF ToolNames
    <2>3. PICK n \in Nat : DOMAIN p = 1..n
      OBVIOUS
    <2>4. Fresh(p) = [k \in 1..n |-> [tool |-> p[k].tool, version |-> 1]]
      BY <2>3 DEF Fresh
    <2>5. \A k \in 1..n : [tool |-> p[k].tool, version |-> 1] \in Slots
      BY <2>2, <2>3 DEF Slots
    <2>6. [k \in 1..n |-> [tool |-> p[k].tool, version |-> 1]] \in Seq(Slots)
      BY <2>5
    <2> QED BY <2>1, <2>4, <2>6
  <1>3. old \in Seq(Slots) /\ Len(old) = Len(r.slots) /\ \A k \in 1..Len(r.slots) : old[k].tool = r.slots[k].tool
    <2>1. ASSUME NEW k \in DOMAIN r.slots PROVE old[k] \in Slots /\ old[k].tool = r.slots[k].tool
      <3>1. PICK s \in Slots : s = r.slots[k]
        OBVIOUS
      <3>2. old[k] = [s EXCEPT !.version = @ + 1] \/ old[k] = s
        BY <3>1
      <3>3. s = [tool |-> s.tool, version |-> s.version] /\ s.tool \in ToolNames /\ s.version \in Nat
        BY DEF Slots
      <3>4. [s EXCEPT !.version = @ + 1] = [tool |-> s.tool, version |-> s.version + 1]
        BY <3>3
      <3> HIDE DEF old
      <3> QED BY <3>1, <3>2, <3>3, <3>4 DEF Slots
    <2>2. DOMAIN old = 1..Len(r.slots) /\ old = [k \in 1..Len(r.slots) |-> old[k]]
      OBVIOUS
    <2> HIDE DEF old
    <2>3. PICK m \in Nat : m = Len(r.slots) /\ DOMAIN r.slots = 1..m
      OBVIOUS
    <2>4. \A k \in 1..m : old[k] \in Slots /\ old[k].tool = r.slots[k].tool
      BY <2>1, <2>3
    <2>5. old \in Seq(Slots) /\ Len(old) = m
      BY <2>2, <2>3, <2>4
    <2> QED BY <2>3, <2>4, <2>5
  <1>4. Placed(r, group) = old \o Fresh(Picked(group, K))
    BY DEF Placed
  <1> HIDE DEF old, K
  <1> QED BY <1>2, <1>3, <1>4

(* A delegation's list is picked from the session's.                        *)
LEMMA RetainedIsPicked ==
    ASSUME NEW r, r.slots \in Seq(Slots), NEW keep, "task" \notin keep, NEW rev,
           NEW new, new = Retaining(r, keep, rev),
           NEW left, left = {k \in DOMAIN r.slots : r.slots[k].tool \in Range(Names(new)) \ {"task"}}
    PROVE  new.slots \in Seq(Slots) /\ Names(new) = Picked(Names(r), left)
  <1> DEFINE K == {k \in DOMAIN r.slots : r.slots[k].tool \in keep}
  <1>1. new.slots = Picked(r.slots, K)
    BY DEF Retaining
  <1>2. K \in SUBSET DOMAIN r.slots /\ \A k \in K : Names(r)[k] = r.slots[k].tool
    BY DEF Names
  <1> HIDE DEF K
  <1>3. /\ Picked(r.slots, K) \in Seq(Slots)
        /\ Range(Picked(r.slots, K)) = {r.slots[k] : k \in K}
        /\ [n \in DOMAIN Picked(r.slots, K) |-> Picked(r.slots, K)[n].tool] = Picked(Names(r), K)
    BY <1>2, PickedIsSeq
  <1>4. /\ Names(new) = [n \in DOMAIN new.slots |-> new.slots[n].tool]
        /\ DOMAIN Names(new) = DOMAIN new.slots /\ \A n \in DOMAIN new.slots : Names(new)[n] = new.slots[n].tool
    BY DEF Names
  <1>5. Range(Names(new)) = {r.slots[k].tool : k \in K}
    <2>1. Range(new.slots) = {r.slots[k] : k \in K}
      BY <1>1, <1>3
    <2>2. ASSUME NEW k \in K PROVE r.slots[k].tool \in Range(Names(new))
      <3>1. PICK n \in DOMAIN new.slots : new.slots[n] = r.slots[k]
        BY <2>1 DEF Range
      <3> QED BY <1>4, <3>1 DEF Range
    <2>3. ASSUME NEW n \in DOMAIN new.slots PROVE new.slots[n].tool \in {r.slots[k].tool : k \in K}
      <3>1. new.slots[n] \in {r.slots[k] : k \in K}
        BY <2>1 DEF Range
      <3> QED BY <3>1
    <2>4. Range(Names(new)) \subseteq {r.slots[k].tool : k \in K}
      BY <1>4, <2>3 DEF Range
    <2> QED BY <2>2, <2>4
  <1>6. left = K
    BY <1>5 DEF K
  <1> QED BY <1>1, <1>3, <1>4, <1>6

(* A list of which another has every name in its place begins that other.   *)
LEMMA NamesArePrefix ==
    ASSUME NEW r, NEW new, r.slots \in Seq(Slots), new.slots \in Seq(Slots), Len(r.slots) <= Len(new.slots),
           \A k \in 1..Len(r.slots) : new.slots[k].tool = r.slots[k].tool
    PROVE  IsPrefix(Names(r), Names(new))
  <1>1. PICK x \in Seq(Slots), y \in Seq(Slots) : x = r.slots /\ y = new.slots
    OBVIOUS
  <1> DEFINE s == [k \in 1..Len(x) |-> x[k].tool]
             t == [k \in 1..Len(y) |-> y[k].tool]
  <1>2. Names(r) = s /\ Names(new) = t
    BY <1>1 DEF Names
  <1>3. s \in Seq(ToolNames) /\ t \in Seq(ToolNames) /\ Len(s) = Len(x) /\ Len(t) = Len(y)
    <2>1. \A z \in Slots : z.tool \in ToolNames
      BY DEF Slots
    <2>2. (\A k \in 1..Len(x) : x[k].tool \in ToolNames) /\ (\A k \in 1..Len(y) : y[k].tool \in ToolNames)
      BY <2>1
    <2> QED BY <2>2
  <1>4. Len(s) <= Len(t) /\ \A k \in 1..Len(s) : s[k] = t[k]
    BY <1>1, <1>3
  <1> HIDE DEF s, t
  <1>5. SubSeq(s, 1, Len(s)) = SubSeq(t, 1, Len(s))
    BY <1>3, <1>4
  <1> QED BY <1>2, <1>4, <1>5 DEF IsPrefix

(* Every step keeps the lists, and the names at the head of the session's.  *)
LEMMA StepKeepsPrefix ==
    ASSUME ContextTyped, SlotsTyped, [PolicyNext]_polVars
    PROVE  SlotsTyped' /\ PrefixKept
  <1>0. Main \in Who /\ registry[Main].slots \in Seq(Slots) /\ DOMAIN registry = Who
    BY DEF Who, SlotsTyped, ContextTyped
  <1>1. IsPrefix(Names(registry[Main]), Names(registry[Main]))
    BY <1>0, NamesArePrefix
  <1>2. ASSUME UNCHANGED registry, running' \subseteq running PROVE SlotsTyped' /\ PrefixKept
    BY <1>1, <1>2 DEF SlotsTyped, PrefixKept
  <1>3. ASSUME NEW group \in Groups, NEW root \in Roots, RegisterGroup(group, root) PROVE SlotsTyped' /\ PrefixKept
    <2>1. registry'[Main].slots = Placed(registry[Main], group) /\ \A w \in Who \ {Main} : registry'[w] = registry[w]
      BY <1>0, <1>3 DEF RegisterGroup
    <2>2. running' = running
      BY <1>3 DEF RegisterGroup
    <2>3. SlotsTyped'
      BY <1>0, <2>1, PlacedKeepsNames DEF SlotsTyped
    <2>4. IsPrefix(Names(registry[Main]), Names(registry'[Main]))
      BY <1>0, <2>1, PlacedKeepsNames, NamesArePrefix
    <2> QED BY <2>2, <2>3, <2>4 DEF PrefixKept
  <1>4. ASSUME NEW s \in Subs, NEW whitelist \in Whitelists, Delegate(s, whitelist) PROVE SlotsTyped' /\ PrefixKept
    <2>1. PICK rev : registry' = [registry EXCEPT ![s] = Retaining(registry[Main], WithoutTask(s) \cap whitelist, rev)]
      BY <1>4 DEF Delegate
    <2>2. "task" \notin WithoutTask(s) \cap whitelist
      BY DEF WithoutTask
    <2>3. s \in Who /\ s # Main
      BY PolicyAssumption DEF Who
    <2>4. /\ registry'[s] = Retaining(registry[Main], WithoutTask(s) \cap whitelist, rev)
          /\ \A w \in Who \ {s} : registry'[w] = registry[w]
      BY <1>0, <2>1, <2>3
    <2>5. SlotsTyped'
      <3>1. registry'[s].slots \in Seq(Slots)
        BY <1>0, <2>2, <2>4, RetainedIsPicked
      <3> QED BY <2>4, <3>1 DEF SlotsTyped
    <2>6. running' \ running \subseteq {s}
      BY <1>4 DEF Delegate
    <2>7. IsPrefix(Names(registry[Main]), Names(registry'[Main]))
      BY <1>0, <1>1, <2>3, <2>4
    <2>8. PICK left : left = {k \in DOMAIN registry[Main].slots :
                                registry[Main].slots[k].tool \in Range(Names(registry'[s])) \ {"task"}}
      OBVIOUS
    <2>9. Names(registry'[s]) = Picked(Names(registry[Main]), left)
      <3>1. PICK r, new, keep : r = registry[Main] /\ new = registry'[s] /\ keep = WithoutTask(s) \cap whitelist
        OBVIOUS
      <3>2. r.slots \in Seq(Slots) /\ "task" \notin keep /\ new = Retaining(r, keep, rev)
        BY <1>0, <2>2, <2>4, <3>1
      <3>3. left = {k \in DOMAIN r.slots : r.slots[k].tool \in Range(Names(new)) \ {"task"}}
        BY <2>8, <3>1
      <3>4. Names(new) = Picked(Names(r), left)
        BY <3>2, <3>3, RetainedIsPicked
      <3> QED BY <3>1, <3>4
    <2> QED BY <2>5, <2>6, <2>7, <2>8, <2>9 DEF PrefixKept
  <1>5. CASE \E text \in Texts : CompileAndPush(text)
    BY <1>2, <1>5 DEF CompileAndPush, PushRules
  <1>6. CASE \E root \in Roots : AppendPolicy(Builtin, root)
    BY <1>2, <1>6 DEF AppendPolicy, PushRules
  <1>7. CASE \E trusted \in BOOLEAN : SetWorkspaceTrust(trusted)
    BY <1>2, <1>7 DEF SetWorkspaceTrust
  <1>8. CASE \E how \in PolicyModes : SetOverlayMode(how)
    BY <1>2, <1>8 DEF SetOverlayMode
  <1>9. CASE \E w \in Who, target \in Targets, effect \in {"Allow", "Deny"} : Grant(w, target, effect)
    BY <1>2, <1>9 DEF Grant
  <1>10. CASE PushHook \/ \E name \in 0..2 : PushWithCapabilities(name)
    BY <1>2, <1>10 DEF PushHook, PushWithCapabilities, AddHook
  <1>11. CASE (\E s \in Subs : DelegationEnds(s)) \/ UNCHANGED polVars
    BY <1>2, <1>11 DEF DelegationEnds, polVars
  <1> QED BY <1>3, <1>4, <1>5, <1>6, <1>7, <1>8, <1>9, <1>10, <1>11 DEF PolicyNext

(* The definition list is a cached prefix of every request: it only grows at *)
(* its end, a replaced tool keeps its slot, and what a delegation is given is *)
(* the session's list with names left out, the delegating tool among them     *)
(* (register_arc_with_profile, retaining, without_tool).                      *)
THEOREM PrefixAlwaysStable == PolicySpec => PrefixIsStable
  <1>1. PolicyInit => SlotsTyped
    <2>1. NoTools.slots \in Seq(Slots)
      BY DEF NoTools
    <2> QED BY <2>1 DEF PolicyInit, SlotsTyped
  <1>2. PolicyInv => ContextTyped
    BY DEF PolicyInv
  <1> QED BY <1>1, <1>2, PolicyStarts, StepPolicy, StepKeepsPrefix, PTL DEF PolicySpec, PrefixIsStable

=============================================================================
