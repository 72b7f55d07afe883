----------------------------- MODULE PolicyContext -----------------------------
(***************************************************************************)
(* Everything that decides whether a call may run, and the version numbers  *)
(* by which an open authorization learns that it has changed: the policy    *)
(* set with its workspace trust, the overlay of a session, the hooks, and   *)
(* the tool registry.  A delegation works on a copy of the overlay and on a *)
(* narrowed copy of the registry.                                           *)
(*                                                                         *)
(* A domain, a host and a command are sequences of characters, a path is    *)
(* the sequence of its names from "/".                                      *)
(***************************************************************************)
EXTENDS Globs, TLC

CONSTANTS
    Root,        \* the workspace root of policy and registry
    Subs,        \* delegations that may run side by side
    Texts,       \* rules a settings file may hold: [ns, sel, absolute, effect, origin]
    Targets,     \* targets checks and grants are about: [ns, sel, opaque]
    Whitelists,  \* tool sets an agent type may be narrowed to
    Roots,       \* workspaces tools and policies may be bound to
    MaxChanges   \* bound on the changes to all four

PolicyModes == {"Default", "AcceptEdits", "Plan", "Bypass"}
Strictness == [Allow |-> 1, RequireApproval |-> 2, Deny |-> 3]
PolicyOrigins == {"Builtin", "Managed", "User", "Project", "Cli", "Session"}
Main == "main"
Who == {Main} \cup Subs

ASSUME PolicyAssumption ==
    /\ Main \notin Subs
    /\ Texts \subseteq [ns : STRING, sel : Seq(STRING), absolute : BOOLEAN,
                        effect : DOMAIN Strictness, origin : PolicyOrigins]

VARIABLES
    policy,      \* [rules, trusted, rev]
    overlay,     \* per session: [mode, rules, rev]
    hooks,       \* [names, rev]
    registry,    \* per session: [slots, index, root, rev]
    running,     \* delegations under way
    clock,       \* the process-wide counters
    versions,    \* every version there ever was, with what it stood for
    changes

polVars == <<policy, overlay, hooks, registry, running, clock, versions, changes>>

-----------------------------------------------------------------------------
(* compile_permission_rule.                                                *)

Lower(text) == [k \in DOMAIN text |-> IF text[k] = "B" THEN "b" ELSE text[k]]
TrimDots(text) == SubSeq(text, 1, CHOOSE n \in 0..Len(text) :
    (n = 0 \/ text[n] # ".") /\ \A k \in n + 1..Len(text) : text[k] = ".")
ValidDomain(text) ==
    /\ text # <<>> /\ text[1] # "." /\ Last(text) # "."
    /\ \A k \in 1..Len(text) - 1 : ~(text[k] = "." /\ text[k + 1] = ".")
Normalized(selector) == SelectSeq(selector, LAMBDA s : s \notin {"", "."})

PathNamespaces == {"Read", "Edit"}
Compiles(text) ==
    CASE text.ns \in PathNamespaces -> ".." \notin Range(text.sel) /\ (text.absolute \/ Normalized(text.sel) # <<>>)
      [] text.ns = "WebFetch" -> ValidDomain(TrimDots(text.sel))
      [] text.ns \in {"TodoWrite", "TaskWrite"} -> text.sel = <<>>
      [] OTHER -> text.ns \in {"Bash", "Mcp", "Agent", "ExactTool"} /\ text.sel # <<>>
Compiled(text) ==
    [text EXCEPT !.sel = CASE text.ns \in PathNamespaces -> Normalized(text.sel)
                           [] text.ns = "WebFetch" -> Lower(TrimDots(text.sel))
                           [] OTHER -> text.sel]

FailClosedRule == [ns |-> "All", sel |-> <<>>, absolute |-> FALSE, effect |-> "Deny", origin |-> "Builtin"]
ExactTarget(target, effect) == [ns |-> "Exact", sel |-> target, absolute |-> FALSE, effect |-> effect, origin |-> "Session"]

-----------------------------------------------------------------------------
(* PermissionMatcher.                                                      *)

IsUnder(path, base) == IsPrefix(base, path)

PathMatches(rule, path) ==
    IF rule.absolute THEN GlobMatch(rule.sel, path)
    ELSE /\ IsUnder(path, Root)
         /\ \E pattern \in {rule.sel} \cup NestedForm(rule.sel, rule.effect) :
               GlobMatch(pattern, IF path = Root THEN <<"">> ELSE SubSeq(path, Len(Root) + 1, Len(path)))

BashMatches(rule, target) ==
    IF rule.effect = "Allow" /\ target.opaque
    THEN rule.sel = target.sel /\ Range(rule.sel) \cap {"*", "?"} = {}
    ELSE CommandMatch(rule.sel, target.sel)

DomainMatchesSuffix(domain, host) == IsSuffix(domain, Lower(TrimDots(host)))
DomainMatches(domain, host) ==
    LET name == Lower(TrimDots(host))
    IN \/ name = domain
       \/ IsSuffix(domain, name) /\ Len(domain) < Len(name) /\ name[Len(name) - Len(domain)] = "."

RuleMatches(rule, target) ==
    \/ rule.ns = "All"
    \/ rule.ns = "Exact" /\ rule.sel = target
    \/ /\ rule.ns = target.ns
       /\ CASE rule.ns \in PathNamespaces -> PathMatches(rule, target.sel)
            [] rule.ns = "Bash" -> BashMatches(rule, target)
            [] rule.ns = "WebFetch" -> DomainMatches(rule.sel, target.sel)
            [] OTHER -> rule.sel = target.sel

\* What a walk asks of every entry, without building a check.
DeniesReadByRule(rule, path) == rule.effect = "Deny" /\ rule.ns = "Read" /\ PathMatches(rule, path)
DeniesReadPath(rule, path) ==
    /\ rule.effect = "Deny"
    /\ CASE rule.ns = "All" -> TRUE
         [] rule.ns = "Read" -> PathMatches(rule, path)
         [] rule.ns = "Exact" -> rule.sel.ns = "Read" /\ rule.sel.sel = path
         [] OTHER -> FALSE

-----------------------------------------------------------------------------
(* PolicySet::resolve, ToolPermissionProfile::validate.                    *)

StrictestEffect(effects) == CHOOSE e \in effects : \A f \in effects : Strictness[f] <= Strictness[e]

EffectiveAlways(p, rule) == TRUE
StaticRuleIsEffective(p, rule) == p.trusted \/ rule.origin # "Project" \/ rule.effect # "Allow"
EffectiveRules(p, o) == {rule \in p.rules : StaticRuleIsEffective(p, rule)} \cup o.rules

ModeContribution(mode, target) ==
    CASE mode = "Plan" -> IF target.ns \in {"Read", "TodoWrite"} THEN {} ELSE {"Deny"}
      [] mode = "Bypass" -> {"Allow"}
      [] mode = "AcceptEdits" -> IF target.ns = "Edit" /\ IsUnder(target.sel, Root) THEN {"Allow"} ELSE {}
      [] OTHER -> {}

ResolveOne(p, o, target, default) ==
    LET contributions == {rule.effect : rule \in {r \in EffectiveRules(p, o) : RuleMatches(r, target)}}
                         \cup ModeContribution(o.mode, target)
    IN IF contributions = {} THEN default ELSE StrictestEffect(contributions)

\* The targets a tool proposes, checked against what its profile lets it ask.
Validates(profile, targets) ==
    /\ targets # {} /\ (profile.multiple \/ Cardinality(targets) = 1)
    /\ \A t \in targets :
          /\ t.ns \in DOMAIN profile.defaults
          /\ t.ns \in PathNamespaces => (profile.rooted => IsUnder(t.sel, Root))
          /\ t.ns = "ExactTool" => t.sel = <<profile.tool>>

Resolve(p, o, profile, targets) ==
    IF ~Validates(profile, targets) THEN "Deny"
    ELSE StrictestEffect({ResolveOne(p, o, t, profile.defaults[t.ns]) : t \in targets})

Hides(p, o, path) == \E rule \in EffectiveRules(p, o) : rule.effect = "Deny" /\ DeniesReadPath(rule, path)

-----------------------------------------------------------------------------
(* The version counters are process-wide statics.                          *)

NextOfItsOwn(counter, own) == own + 1
NextRevision(counter, own) == counter + 1

Counted(what, own) == clock' = [clock EXCEPT ![what] = NextRevision(@, own)]

\* What the versions in force stand for.
Contents(p, o, h, r) ==
    {<<"policy", p.rev, p.rules, p.trusted>>, <<"hooks", h.rev, h.names>>}
    \cup {<<"overlay", o[w].rev, o[w].mode, o[w].rules>> : w \in Who}
    \cup {<<"registry", r[w].rev, r[w].slots, r[w].root>> : w \in Who}
Recorded == versions' = versions \cup Contents(policy', overlay', hooks', registry')
Change == changes < MaxChanges /\ changes' = changes + 1 /\ Recorded

-----------------------------------------------------------------------------
(* The policy set.                                                         *)

PushRules(rules) ==
    /\ policy' = [policy EXCEPT !.rules = @ \cup rules, !.rev = NextRevision(clock.policy, @)]
    /\ Counted("policy", policy.rev)
    /\ UNCHANGED <<overlay, hooks, registry, running>>

\* A malformed rule is reported and changes nothing.
CompileAndPush(text) == running = {} /\ Compiles(text) /\ PushRules({Compiled(text)}) /\ Change

Builtin == {[ns |-> "Bash", sel |-> <<"s", "*">>, absolute |-> FALSE, effect |-> "Deny", origin |-> "Builtin"],
            [ns |-> "Read", sel |-> <<"k">>, absolute |-> FALSE, effect |-> "RequireApproval", origin |-> "Builtin"]}
AppendPolicy(rules, root) == running = {} /\ root = Root /\ PushRules(rules) /\ Change

SetWorkspaceTrust(trusted) ==
    /\ running = {} /\ policy.trusted # trusted
    /\ policy' = [policy EXCEPT !.trusted = trusted, !.rev = NextRevision(clock.policy, @)]
    /\ Counted("policy", policy.rev) /\ UNCHANGED <<overlay, hooks, registry, running>> /\ Change

-----------------------------------------------------------------------------
(* A session's overlay.                                                    *)

SetOverlayMode(mode) ==
    /\ running = {} /\ overlay[Main].mode # mode
    /\ overlay' = [overlay EXCEPT ![Main] =
          [mode |-> mode, rules |-> @.rules, rev |-> NextRevision(clock.overlay, @.rev)]]
    /\ Counted("overlay", overlay[Main].rev) /\ UNCHANGED <<policy, hooks, registry, running>> /\ Change

\* An approval that is to hold for the session; each delegation has its own.
Grant(w, target, effect) ==
    /\ w = Main \/ w \in running
    /\ overlay' = [overlay EXCEPT ![w] =
          [mode |-> @.mode, rules |-> @.rules \cup {ExactTarget(target, effect)}, rev |-> NextRevision(clock.overlay, @.rev)]]
    /\ Counted("overlay", overlay[w].rev) /\ UNCHANGED <<policy, hooks, registry, running>> /\ Change

-----------------------------------------------------------------------------
(* The hooks.                                                              *)

HookNames(h) == {h.names[k] : k \in DOMAIN h.names}
CountedName(h) == Len(h.names)
FreshName(h) == CHOOSE n \in Len(h.names)..2 * Len(h.names) :
    n \notin HookNames(h) /\ \A m \in Len(h.names)..n - 1 : m \in HookNames(h)

AddHook(name) ==
    /\ hooks' = [names |-> Append(hooks.names, name), rev |-> NextRevision(clock.hooks, hooks.rev)]
    /\ Counted("hooks", hooks.rev) /\ UNCHANGED <<policy, overlay, registry, running>> /\ Change
PushHook == running = {} /\ AddHook(FreshName(hooks))
PushWithCapabilities(name) == running = {} /\ name \notin HookNames(hooks) /\ AddHook(name)

-----------------------------------------------------------------------------
(* The tool registry: a slot is [tool, version].                           *)

Profile(tool, defaults, multiple, rooted) ==
    [tool |-> tool, defaults |-> defaults, multiple |-> multiple, rooted |-> rooted]
ExactTool(tool) == Profile(tool, [ExactTool |-> "RequireApproval"], FALSE, FALSE)

Walking == [Read |-> "Allow", ExactTool |-> "RequireApproval"]
TaskTool == <<Profile("task", [Agent |-> "Allow"], FALSE, FALSE)>>
DefaultTools ==
    <<Profile("bash", [Bash |-> "RequireApproval"], TRUE, FALSE),
      Profile("read_file", [Read |-> "Allow"], FALSE, TRUE),
      Profile("write_file", [Edit |-> "RequireApproval"], FALSE, TRUE),
      Profile("edit_file", [Edit |-> "RequireApproval"], FALSE, TRUE),
      Profile("glob", Walking, TRUE, TRUE),
      Profile("todo_write", [TodoWrite |-> "Allow"], FALSE, FALSE),
      Profile("ls", Walking, TRUE, TRUE),
      Profile("web_fetch", [WebFetch |-> "RequireApproval"], FALSE, FALSE),
      Profile("grep", Walking, TRUE, TRUE)>> \o TaskTool
SkillTool == <<Profile("load_skill", [Read |-> "Allow"], FALSE, FALSE)>>
MemoryTools ==
    <<Profile("load_memory", [Read |-> "Allow"], FALSE, FALSE),
      Profile("write_memory", [Edit |-> "RequireApproval"], FALSE, FALSE)>>
TaskStoreTools ==
    [k \in 1..6 |-> Profile(<<"create_task", "update_task", "claim_task", "complete_task", "get_task", "list_tasks">>[k],
                            IF k <= 4 THEN [TaskWrite |-> "Allow"] ELSE [Read |-> "Allow"], FALSE, FALSE)]
Groups == {DefaultTools, TaskTool, SkillTool, MemoryTools, TaskStoreTools, <<ExactTool("custom")>>}
Profiles == UNION {Range(group) : group \in Groups}
ToolNames == {profile.tool : profile \in Profiles}

Indexed(slots) == [tool \in {slots[k].tool : k \in DOMAIN slots} |-> CHOOSE k \in DOMAIN slots : slots[k].tool = tool]
NoTools == [slots |-> <<>>, index |-> <<>>, root |-> <<>>, rev |-> 1]

\* What stands at the places K of s, in its order.
Rank(K, i) == Cardinality({j \in K : j <= i})
Picked(s, K) == [n \in 1..Cardinality(K) |-> s[CHOOSE i \in K : Rank(K, i) = n]]

Fresh(profiles) == [k \in DOMAIN profiles |-> [tool |-> profiles[k].tool, version |-> 1]]
PlacedLast(r, profiles) ==
    Picked(r.slots, {k \in DOMAIN r.slots : \A i \in DOMAIN profiles : profiles[i].tool # r.slots[k].tool}) \o Fresh(profiles)
\* A tool with a known name takes the slot of the one before it.
Placed(r, profiles) ==
    [k \in DOMAIN r.slots |-> IF \E i \in DOMAIN profiles : profiles[i].tool = r.slots[k].tool
                              THEN [r.slots[k] EXCEPT !.version = @ + 1] ELSE r.slots[k]]
    \o Fresh(Picked(profiles, {k \in DOMAIN profiles : profiles[k].tool \notin DOMAIN r.index}))

\* Tools bound to a workspace other than the one already there are refused;
\* every registration is a version of its own.
RegisterGroup(profiles, root) ==
    LET rooted == \E k \in DOMAIN profiles : profiles[k].rooted
        slots  == Placed(registry[Main], profiles)
    IN /\ running = {}
       /\ rooted => registry[Main].root \in {<<>>, root}
       /\ registry' = [registry EXCEPT ![Main] =
            [slots |-> slots, index |-> Indexed(slots), root |-> IF rooted THEN root ELSE @.root,
             rev |-> NextRevision(clock.registry, @.rev) + Len(profiles) - 1]]
       /\ clock' = [clock EXCEPT !.registry = NextRevision(@, registry[Main].rev) + Len(profiles) - 1]
       /\ UNCHANGED <<policy, overlay, hooks, running>> /\ Change

Retaining(r, keep, rev) ==
    LET slots == Picked(r.slots, {k \in DOMAIN r.slots : r.slots[k].tool \in keep})
    IN [slots |-> slots, root |-> r.root, rev |-> rev, index |-> Indexed(slots)]

-----------------------------------------------------------------------------
(* A delegation: the overlay is copied with its version; the registry loses *)
(* the delegating tool first and is then narrowed, which never adds.        *)

WithoutTask(w) == ToolNames \ {"task"}
Delegate(s, whitelist) ==
    /\ s \notin running /\ "task" \in DOMAIN registry[Main].index
    /\ running' = running \cup {s}
    /\ overlay' = [overlay EXCEPT ![s] = overlay[Main]]
    /\ registry' = [registry EXCEPT ![s] =
          Retaining(registry[Main], WithoutTask(s) \cap whitelist, NextRevision(clock.registry, registry[Main].rev))]
    /\ Counted("registry", registry[Main].rev) /\ UNCHANGED <<policy, hooks>> /\ Change

DelegationEnds(s) ==
    /\ s \in running /\ running' = running \ {s}
    /\ UNCHANGED <<policy, overlay, hooks, registry, clock, versions, changes>>

-----------------------------------------------------------------------------
PolicyInit ==
    /\ \E rules \in {{}, {FailClosedRule}, Builtin} : policy = [rules |-> rules, trusted |-> FALSE, rev |-> 1]
    /\ overlay = [w \in Who |-> [mode |-> "Default", rules |-> {}, rev |-> 1]]
    /\ hooks = [names |-> <<>>, rev |-> 1]
    /\ registry = [w \in Who |-> NoTools]
    /\ running = {} /\ changes = 0
    /\ clock = [policy |-> 1, overlay |-> 1, hooks |-> 1, registry |-> 1]
    /\ versions = Contents(policy, overlay, hooks, registry)

PolicyNext ==
    \/ \E text \in Texts : CompileAndPush(text)
    \/ \E root \in Roots : AppendPolicy(Builtin, root)
    \/ \E trusted \in BOOLEAN : SetWorkspaceTrust(trusted)
    \/ \E mode \in PolicyModes : SetOverlayMode(mode)
    \/ \E w \in Who, target \in Targets, effect \in {"Allow", "Deny"} : Grant(w, target, effect)
    \/ PushHook
    \/ \E name \in 0..2 : PushWithCapabilities(name)
    \/ \E group \in Groups, root \in Roots : RegisterGroup(group, root)
    \/ \E s \in Subs, whitelist \in Whitelists : Delegate(s, whitelist)
    \/ \E s \in Subs : DelegationEnds(s)

PolicySpec == PolicyInit /\ [][PolicyNext]_polVars

-----------------------------------------------------------------------------
\* The same number was never given to two different contents, not even to a
\* session and the delegations that started from a copy of it (the
\* NEXT_*_REVISION counters).
NumbersIdentify ==
    \A v, w \in versions : v[1] = w[1] /\ v[2] = w[2] => v = w

\* A walk hides a path exactly when a rule would deny reading it: the matcher
\* of the walk and the one of a check never part (denies_read_path).
WalksHideWhatReadsRefuse ==
    \A w \in Who : \A t \in Targets : t.ns = "Read" =>
        (Hides(policy, overlay[w], t.sel)
            <=> \E r \in EffectiveRules(policy, overlay[w]) : r.effect = "Deny" /\ RuleMatches(r, t))

\* In a workspace the user does not trust the project's own rules can only
\* tighten: no call is treated more leniently for them (resolve).
Requests ==
    {q \in Profiles \X {{t, u} : t \in Targets, u \in Targets} : Validates(q[1], q[2])}
UntrustedOnlyTightens ==
    ~policy.trusted =>
        LET bare == [policy EXCEPT !.rules = {r \in @ : r.origin # "Project"}]
        IN bare.rules # policy.rules => \A w \in Who : \A q \in Requests :
              Strictness[Resolve(policy, overlay[w], q[1], q[2])] >= Strictness[Resolve(bare, overlay[w], q[1], q[2])]

\* A domain rule is about that name and the names below it, label by label,
\* however the host is written (domain_matches).
LabelsOf(text) ==
    LET stops == {k \in DOMAIN text : text[k] = "."} \cup {0, Len(text) + 1}
        between(i) == SubSeq(text, i + 1, (CHOOSE j \in stops : i < j /\ \A k \in stops : i < k => j <= k) - 1)
    IN [n \in 1..Cardinality(stops) - 1 |->
          between(CHOOSE i \in stops : Cardinality({k \in stops : k <= i}) = n)]
DomainsByLabel ==
    \A r \in policy.rules : r.ns = "WebFetch" =>
        \A t \in Targets : t.ns = "WebFetch" =>
            (RuleMatches(r, t) <=> IsSuffix(LabelsOf(r.sel), LabelsOf(Lower(TrimDots(t.sel)))))

\* What a flat pattern says: each "*" stands for some run of the text.
StandsFor(pattern, text) ==
    \E cut \in [0..Len(pattern) -> 0..Len(text)] :
        /\ cut[0] = 0 /\ cut[Len(pattern)] = Len(text)
        /\ \A i \in 1..Len(pattern) :
              IF pattern[i] = "*" THEN cut[i - 1] <= cut[i]
              ELSE cut[i] = cut[i - 1] + 1 /\ pattern[i] \in {"?", text[cut[i]]}

\* A restricting command rule covers the commands its pattern says, whatever
\* they hold besides (command_match), as long as no command holds a "*" of its
\* own.
Restricts(r, t) == r.ns = "Bash" /\ r.effect # "Allow" /\ t.ns = "Bash"
CommandsAreCovered ==
    \A r \in policy.rules, t \in Targets :
        Restricts(r, t) /\ "*" \notin Range(t.sel) => (RuleMatches(r, t) <=> StandsFor(r.sel, t.sel))

\* "`*` spans any characters including `/`, `?` matches one" (glob.rs): every
\* command, one with a "*" in it too.
EveryCommandIsCovered ==
    \A r \in policy.rules, t \in Targets : Restricts(r, t) => (RuleMatches(r, t) <=> StandsFor(r.sel, t.sel))

\* The definition list is a cache prefix: it only ever grows at its end, a
\* replaced tool keeps its place, and what a delegation gets is the session's
\* list with names left out, the delegating tool among them (registry.rs).
Names(r) == [k \in DOMAIN r.slots |-> r.slots[k].tool]
PrefixKept ==
    /\ IsPrefix(Names(registry[Main]), Names(registry'[Main]))
    /\ \A s \in Subs : s \in running' \ running =>
          LET left == {k \in DOMAIN registry[Main].slots : registry[Main].slots[k].tool \in Range(Names(registry'[s])) \ {"task"}}
          IN Names(registry'[s]) = Picked(Names(registry[Main]), left)
PrefixIsStable == [][PrefixKept]_polVars

\* A hook's name is its identity in audit and in capability checks: no two
\* hooks share one; and a tool is found in the slot that holds it.
NamesIdentify ==
    /\ IsInjective(hooks.names)
    /\ \A w \in Who : \A n \in DOMAIN registry[w].index : registry[w].slots[registry[w].index[n]].tool = n

\* Two contents never share a version: whoever compares revisions of the rules,
\* the overlay, the hooks or the registry learns the truth, also between a
\* session and its delegations; no two hooks share a name; and whatever is merged,
\* an untrusted project's rules only tighten (permission/state.rs, resolve).
VersionsIdentify == NumbersIdentify /\ NamesIdentify /\ UntrustedOnlyTightens

=============================================================================
