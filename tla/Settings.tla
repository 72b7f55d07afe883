-------------------------------- MODULE Settings --------------------------------
(***************************************************************************)
(* From .kuncode/settings.json, the environment and the command line to a   *)
(* configured runner, and the model switches between turns that replace     *)
(* the model, the summary model and the budgets of that runner together.    *)
(*                                                                         *)
(* A setting that is left out is NotGiven.                                 *)
(***************************************************************************)
EXTENDS Naturals, Sequences, FiniteSets

CONSTANTS
    NotGiven,     \* a setting, a variable or a flag that is not given
    Files,        \* settings files
    Overrides,    \* [cli, universal, deepseek]: --model and two variables
    Flags,        \* [rules, mode] of the command line
    Wanted,       \* names the user may switch to
    U32Max        \* the widest token count the wire can carry

ASSUME WireCounts == U32Max \in Nat
ASSUME FilesAreWhole ==
    \A f \in Files :
        f = [provider |-> f.provider, name |-> f.name, maxTokens |-> f.maxTokens, profiles |-> f.profiles,
             compaction |-> f.compaction, maxIterations |-> f.maxIterations,
             todoReminderInterval |-> f.todoReminderInterval, logLevel |-> f.logLevel,
             rules |-> f.rules, defaultMode |-> f.defaultMode]

VARIABLES
    file,         \* the settings file, read once
    given,        \* what overrides its model
    flags,        \* permission flags and whether the project is trusted
    configured,   \* the runner: [model, maxTokens, compaction], or NotGiven before the start
    failed,       \* the start was refused
    named,        \* the model the interface calls current
    asked         \* the last name given to a switch that succeeded

setVars == <<file, given, flags, configured, failed, named, asked>>

-----------------------------------------------------------------------------
(* Models.                                                                 *)

BuiltinModels == {"deepseek-v4-flash", "deepseek-v4-pro"}
DefaultModel == "deepseek-v4-flash"
Capabilities == [window |-> 1000000, maxOutput |-> 384000, contextLimit |-> 400000, maxTokens |-> 65536]
ConservativeMaxTokens == 16384
DefaultSafetyMargin == 16384
DefaultSummaryMaxTokens == 16384

ModelProfile(provider, name) == IF provider = "deepseek" /\ name \in BuiltinModels THEN Capabilities ELSE NotGiven
OrElse(value, default) == IF value = NotGiven THEN default ELSE value

ForProvider(o, provider) ==
    OrElse(o.cli, OrElse(o.universal, IF provider = "deepseek" THEN o.deepseek ELSE NotGiven))

DefaultName(provider) == IF provider = "deepseek" THEN DefaultModel ELSE NotGiven
Wrong == [ok |-> FALSE]
ResolveModel(provider, requested, fileName, fileMaxTokens) ==
    LET name == OrElse(requested, OrElse(fileName, DefaultName(provider)))
        profile == ModelProfile(provider, name)
        maxTokens == OrElse(fileMaxTokens, IF profile = NotGiven THEN ConservativeMaxTokens ELSE profile.maxTokens)
    IN IF \/ name \in {NotGiven, ""} \/ maxTokens \notin 1..U32Max
          \/ profile # NotGiven /\ maxTokens > profile.maxOutput
       THEN Wrong
       ELSE [ok |-> TRUE, name |-> name, maxTokens |-> maxTokens, profile |-> profile]

-----------------------------------------------------------------------------
(* Compaction budgets, checked against the model they are for.             *)

RatiosOrdered(r) == 0 < r[1] /\ r[1] < r[2] /\ r[2] < r[3] /\ r[3] < 100 /\ 0 < r[4] /\ r[4] < 100
DefaultRatios == <<50, 75, 90, 10>>
ValidWindow(limit, reserved, margin) == reserved + margin < limit

Off == [ok |-> TRUE, mode |-> "disabled"]
ParseCompaction(section, model) ==
    LET limit == OrElse(section.contextLimit, IF model.profile = NotGiven THEN NotGiven ELSE model.profile.contextLimit)
        reserved == OrElse(section.reservedOutput, model.maxTokens)
        margin == OrElse(section.safetyMargin, DefaultSafetyMargin)
        summary == OrElse(section.summaryMaxTokens, DefaultSummaryMaxTokens)
        ratios == OrElse(section.ratios, DefaultRatios)
    IN IF OrElse(section.mode, "disabled") = "disabled" THEN Off
       ELSE IF /\ section.mode \in {"shadow", "enabled"} /\ limit # NotGiven
               /\ model.profile # NotGiven => limit <= model.profile.window /\ summary <= model.profile.maxOutput
               /\ reserved = model.maxTokens
               /\ ValidWindow(limit, reserved, margin) /\ RatiosOrdered(ratios)
               /\ summary \in 1..U32Max
            THEN [ok |-> TRUE, mode |-> section.mode, limit |-> limit, reserved |-> reserved, margin |-> margin,
                  summary |-> summary, ratios |-> ratios]
            ELSE Wrong

\* The budgets of a run name the model that will write its summaries.
IntoRuntime(compaction, model) ==
    IF compaction = Off THEN NotGiven ELSE [budget |-> compaction, summarizer |-> model]

-----------------------------------------------------------------------------
(* The switch registry, frozen at the start.                               *)

\* The compaction section is checked for every model it may come to serve.
Checked(f, model) ==
    LET compaction == IF model.ok THEN ParseCompaction(f.compaction, model) ELSE Wrong
    IN IF ~compaction.ok THEN Wrong
       ELSE [ok |-> TRUE, model |-> model.name, maxTokens |-> model.maxTokens, compaction |-> compaction]
Entry(f, name, maxTokens) == Checked(f, ResolveModel(f.provider, name, NotGiven, maxTokens))
Startup(f, o) == Checked(f, ResolveModel(f.provider, ForProvider(o, f.provider), f.name, f.maxTokens))

\* A profile for another provider is left out, any other broken one is fatal.
Switchable(f) == {n \in DOMAIN f.profiles : OrElse(f.profiles[n].provider, f.provider) = f.provider}
ProfileEntry(f, n) == Entry(f, f.profiles[n].name, f.profiles[n].maxTokens)
ProfilesHold(f) == "" \notin DOMAIN f.profiles /\ \A n \in Switchable(f) : ProfileEntry(f, n).ok

BuiltinEntry(f, n) == IF f.provider = "deepseek" /\ n \in BuiltinModels THEN Entry(f, n, f.maxTokens) ELSE Wrong
StartupEntry(f, o, n) == IF Startup(f, o).ok /\ Startup(f, o).model = n THEN Startup(f, o) ELSE Wrong

BuiltinsFirst(f, o, n) ==
    IF BuiltinEntry(f, n).ok THEN BuiltinEntry(f, n)
    ELSE IF n \in Switchable(f) THEN ProfileEntry(f, n)
    ELSE StartupEntry(f, o, n)
\* The first entry of a name stays: profiles, then built-in models, then the
\* model of the start.
Registered(f, o, n) ==
    IF n \in Switchable(f) THEN ProfileEntry(f, n)
    ELSE IF BuiltinEntry(f, n).ok THEN BuiltinEntry(f, n)
    ELSE StartupEntry(f, o, n)

Configured(entry) ==
    [model |-> entry.model, maxTokens |-> entry.maxTokens, compaction |-> IntoRuntime(entry.compaction, entry.model)]
KeepsCompaction(entry) ==
    [model |-> entry.model, maxTokens |-> entry.maxTokens, compaction |-> configured.compaction]
Switched(entry) == Configured(entry)

\* The agent types that ask for a model of their own.
OwnModel(f, o, n) == LET entry == Registered(f, o, n) IN IF entry.ok THEN Configured(entry) ELSE configured

-----------------------------------------------------------------------------
(* Permissions of the start: built-in rules, the project's, the flags'.    *)

Relaxes == {"AcceptEdits", "Bypass"}
KnownModes == {"Default", "AcceptEdits", "Plan", "Bypass", "DontAsk"}
ModeNeverRelaxes(mode) == TRUE
ModeDoesNotRelax(mode) == mode \notin Relaxes

BuiltinRules == {[effect |-> "Deny", origin |-> "Builtin"], [effect |-> "Ask", origin |-> "Builtin"]}
RulesFrom(effects, origin) == {[effect |-> e, origin |-> origin] : e \in effects}

ProjectRules(f, trusted) ==
    {r \in RulesFrom(f.rules, "Project") : trusted \/ r.effect # "Allow"}
ResolveMode(f, fl) ==
    IF fl.mode # NotGiven THEN fl.mode
    ELSE IF f.defaultMode # NotGiven /\ (fl.trusted \/ ModeDoesNotRelax(f.defaultMode)) THEN f.defaultMode
    ELSE "Default"
ResolvePermissions(f, fl) ==
    IF {f.defaultMode, fl.mode} \subseteq KnownModes \cup {NotGiven}
    THEN [ok |-> TRUE, mode |-> ResolveMode(f, fl),
          rules |-> BuiltinRules \cup ProjectRules(f, fl.trusted) \cup RulesFrom(fl.rules, "Cli")]
    ELSE Wrong

-----------------------------------------------------------------------------
ValidateAgent(f) == f.maxIterations > 0 /\ f.todoReminderInterval # 0
ValidLogLevel(f) == f.logLevel \in {"off", "error", "warn", "info", "debug", "trace"}

SettingsInit ==
    /\ file \in Files /\ given \in Overrides /\ flags \in Flags
    /\ configured = NotGiven /\ failed = FALSE /\ named = NotGiven /\ asked = NotGiven

Started == named # NotGiven
Assemble ==
    /\ ~Started /\ ~failed
    /\ LET startup == Startup(file, given)
           sound == startup.ok /\ ValidateAgent(file) /\ ValidLogLevel(file) /\ ProfilesHold(file)
                    /\ ResolvePermissions(file, flags).ok
       IN IF sound THEN configured' = Configured(startup) /\ named' = startup.model /\ failed' = FALSE
          ELSE failed' = TRUE /\ UNCHANGED <<configured, named>>
    /\ UNCHANGED <<file, given, flags, asked>>

\* /model <name>: the entry replaces model, summary model and budgets at once;
\* an unknown name changes nothing.
SwitchTo(n) ==
    /\ Started
    /\ LET entry == Registered(file, given, n)
       IN /\ entry.ok
          /\ configured' = Switched(entry) /\ named' = entry.model /\ asked' = n
    /\ UNCHANGED <<file, given, flags, failed>>

\* The picker offers every name and closes without a switch on the one shown.
Pick(n) == n # named /\ SwitchTo(n)

SettingsNext == Assemble \/ \E n \in Wanted : SwitchTo(n) \/ Pick(n)

SettingsSpec == SettingsInit /\ [][SettingsNext]_setVars

-----------------------------------------------------------------------------
\* Whatever the file says and however the model was switched since, the budgets
\* of the runner, and of the agent types with a model of their own, fit the
\* model that runs: its output, its window, its summaries, and the room they
\* leave each other (parse_compaction, ModelSwitcher::switch).
Fits(r) ==
    LET profile == ModelProfile(file.provider, r.model)
    IN /\ r.maxTokens \in 1..U32Max /\ (profile # NotGiven => r.maxTokens <= profile.maxOutput)
       /\ r.compaction # NotGiven =>
            LET budget == r.compaction.budget
            IN /\ r.compaction.summarizer = r.model
               /\ budget.reserved = r.maxTokens /\ budget.reserved + budget.margin < budget.limit
               /\ profile # NotGiven => budget.limit <= profile.window /\ budget.summary <= profile.maxOutput
BudgetsFit == Started => Fits(configured) /\ \A n \in Wanted : Fits(OwnModel(file, given, n))

\* A switch leaves the runner a start with that name would have made: with
\* --model for a model, with the profile as the model section for a profile
\* ("profiles win over a model of the same name").
SwitchIsARestart ==
    asked # NotGiven =>
        LET f == IF asked \in Switchable(file)
                 THEN [file EXCEPT !.name = file.profiles[asked].name, !.maxTokens = file.profiles[asked].maxTokens]
                 ELSE [file EXCEPT !.name = asked]
            restarted == Startup(f, [cli |-> NotGiven, universal |-> NotGiven, deepseek |-> NotGiven])
        IN restarted.ok /\ configured = Configured(restarted)

\* A project that is not trusted can only make a start stricter: no rule of the
\* built-ins or of the flags is lost to it, none of its rules permits anything,
\* and it never relaxes the mode the flags leave open (resolve_permissions).
UntrustedFileOnlyTightens ==
    LET p == ResolvePermissions(file, flags)
    IN ~flags.trusted /\ p.ok =>
        /\ BuiltinRules \cup RulesFrom(flags.rules, "Cli") \subseteq p.rules
        /\ \A r \in p.rules : r.origin = "Project" => r.effect # "Allow"
        /\ RulesFrom(file.rules \ {"Allow"}, "Project") \subseteq p.rules
        /\ p.mode \in Relaxes => p.mode = flags.mode

\* The runner is what the files, the flags and the last switch ask for: budgets
\* that fit the model that runs after any switch, the runner a start with that
\* name would have made, and nothing relaxed by a project that is not trusted
\* (ModelSwitcher::switch, parse_compaction, resolve_permissions).
RunnersAreAsConfigured == BudgetsFit /\ SwitchIsARestart /\ UntrustedFileOnlyTightens

=============================================================================
