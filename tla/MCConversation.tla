---------------------------- MODULE MCConversation ----------------------------
(* What carries a conversation, component by component: the provider's stream *)
(* (ChatStream), the history and its compaction (ContextProtocol, Summary),   *)
(* the rows and task files it is kept in (TursoStore, TaskStore), the screen  *)
(* and the composer (Frontend, Viewport, Composer), the configuration all of  *)
(* it starts from (Settings) and the delegations of its turns (Delegation).   *)
(* The components share no variable: a behaviour begins in one of the         *)
(* Scenarios and stays in it, and the variables of the others are None or, for *)
(* the modules extended here, at a first state.                               *)
EXTENDS ContextProtocol, TaskStore, TursoStore, ChatStream, Summary, Frontend, Viewport, Settings, Delegation, TLC

CONSTANTS
    Scenarios,         \* the components to check
    None,              \* the value of a variable of a component not checked, and of an unset option
    w1, w2,            \* processes on one task store
    s1, s2, h, v1, v2, \* sessions, a content hash, previews
    a, b, forged, noart, \* artifacts
    m1, m2, c1         \* models, a call id

VARIABLES
    scenario,
    text, cursor, selection, submitted                                     \* Composer

composerVars == <<text, cursor, selection, submitted>>

-----------------------------------------------------------------------------
(* ContextProtocol: histories of up to five messages, of every shape grouping *)
(* distinguishes, under windows of two to seven tokens.                       *)

Histories ==
    {Message("system", <<Text>>), UserText}
    \cup {Message("assistant", bs) : bs \in
            {<<Text>>, <<Reasoning>>, <<Call(1, "none")>>, <<Text, Call(1, "x")>>,
             <<Call(1, "none"), Call(2, "none")>>, <<Call(1, "none"), Call(1, "none")>>}}
    \cup {Message("user", bs) : bs \in
            {<<Result(1, "none")>>, <<Result(1, "x")>>, <<Result(1, "y")>>, <<Result(2, "none")>>,
             <<Result(1, "none"), Result(2, "none")>>, <<Text, Result(1, "none")>>,
             <<Result(1, "none"), Text>>}}
TokenWindows ==
    {[usable |-> UsableLimit(limit, 1, 1), target |-> t, soft |-> s, hard |-> 90, recent |-> r] :
        limit \in 2..7, t \in {10, 50}, s \in {50, 75}, r \in {10, 80}}

ProtocolStep == scenario = "protocol" /\ Grow

-----------------------------------------------------------------------------
(* ChatStream: two retries, two parallel calls, two fragments of text.        *)

StreamPart == StreamInit /\ (scenario # "stream" => provider = "openai")
StreamStep == scenario = "stream" /\ StreamNext

-----------------------------------------------------------------------------
(* Summary: six messages, two artifacts and a forged one, a bound of one      *)
(* reference.                                                                 *)

SummaryStep == scenario = "summary" /\ SummaryNext

-----------------------------------------------------------------------------
(* TaskStore: three tasks, two processes, four tool calls.                    *)

TaskPart == TaskInit /\ (scenario # "tasks" => Stored = {})
TaskStep == scenario = "tasks" /\ TaskNext
WorkerSymmetry == Permutations({w1, w2})

-----------------------------------------------------------------------------
(* TursoStore: two sessions, one content under two previews, five entries.    *)

StoreStep == scenario = "store" /\ StoreNext

-----------------------------------------------------------------------------
(* Frontend: two stored sessions, two turns, two events, approvals and keys.  *)

UiSessions == {<<"a">>, <<"a", "b">>}
UiPart == UiInit /\ footer.model = m1
UiStep == scenario = "ui" /\ UiNext

-----------------------------------------------------------------------------
(* Viewport: frames of two to fourteen rows, plans of up to four items.       *)

ViewPart == ViewInit /\ (scenario # "view" => frame.height = 2 /\ frame.panel = 3)
ViewStep == scenario = "view" /\ ViewNext

-----------------------------------------------------------------------------
(* Composer: texts of up to four characters of one, three and no cells.       *)

Glyph(c, bytes, cells) == [ch |-> c, bytes |-> bytes, cells |-> cells]
NL == Glyph("newline", 1, 0)
SL == Glyph("slash", 1, 1)
Letter == Glyph("a", 1, 1)
Editor == INSTANCE Composer WITH
    Glyphs <- {NL, Glyph("return", 1, 0), SL, Glyph("space", 1, 1), Letter, Glyph("wide", 3, 2)},
    Newline <- NL, Return <- Glyph("return", 1, 0), Slash <- SL, Space <- Glyph("space", 1, 1),
    Commands <- << <<Letter>>, <<Letter, Letter>>, <<SL>> >>, FrameWidths <- {1, 6},
    InputMaxRows <- 3, MaxText <- 4
ComposerPart ==
    IF scenario = "composer" THEN Editor!ComposerInit
    ELSE text = None /\ cursor = None /\ selection = None /\ submitted = None
ComposerStep == scenario = "composer" /\ Editor!ComposerNext

-----------------------------------------------------------------------------
(* Settings: two providers, profiles that hide models and rename them,        *)
(* compaction sections that fit and that do not.                              *)

CompactionSection(mode, limit, reserved, margin, summary, ratios) ==
    [mode |-> mode, contextLimit |-> limit, reservedOutput |-> reserved, safetyMargin |-> margin,
     summaryMaxTokens |-> summary, ratios |-> ratios]
CompactionSections ==
    {CompactionSection(None, None, None, None, None, None), CompactionSection("enabled", None, None, None, None, None),
     CompactionSection("enabled", 300000, None, None, None, None), CompactionSection("enabled", 1200000, None, None, None, None),
     CompactionSection("shadow", 100000, 16384, 70000, None, None), CompactionSection("enabled", 300000, 10000, 0, 0, None),
     CompactionSection("enabled", 300000, None, None, 400000, None), CompactionSection("enabled", 300000, None, None, None, <<50, 90, 75, 10>>),
     CompactionSection("often", 300000, None, None, None, None), CompactionSection("enabled", 26384, None, None, None, None)}
Profile(by, name, maxTokens) == [provider |-> by, name |-> name, maxTokens |-> maxTokens]
ProfileSets ==
    {[n \in {} |-> 0], [n \in {"fast"} |-> Profile(None, "deepseek-v4-flash", 10000)],
     [n \in {"deepseek-v4-pro"} |-> Profile("deepseek", "other", None)],
     [n \in {"fast", "far"} |-> IF n = "fast" THEN Profile("openai", "other", 20000) ELSE Profile("deepseek", "other", 10000)]}
SettingsFile(by, name, maxTokens, profiles, compaction, iterations, rules, mode) ==
    [provider |-> by, name |-> name, maxTokens |-> maxTokens, profiles |-> profiles, compaction |-> compaction,
     maxIterations |-> iterations, todoReminderInterval |-> 3, logLevel |-> "info", rules |-> rules, defaultMode |-> mode]
ModelFiles ==
    {SettingsFile(p, n, m, s, c, 50, {}, None) : p \in {"deepseek", "openai"}, n \in {None, "", "deepseek-v4-pro", "other"},
        m \in {None, 10000, 500000}, s \in ProfileSets, c \in CompactionSections}
PermissionFiles ==
    {SettingsFile("deepseek", None, None, [n \in {} |-> 0], CompactionSection(None, None, None, None, None, None), i, r, m) :
        i \in {0, 50}, r \in SUBSET {"Allow", "Ask", "Deny"}, m \in {None, "AcceptEdits", "Plan", "often"}}
AllFiles == ModelFiles \cup PermissionFiles
GivenModels == {[cli |-> c, universal |-> u, deepseek |-> d] : c \in {None, "deepseek-v4-flash", "fast"}, u \in {None}, d \in {None, "other"}}
          \cup {[cli |-> None, universal |-> "deepseek-v4-pro", deepseek |-> "other"]}
GivenFlags(trusted, mode, rules) == [trusted |-> trusted, mode |-> mode, rules |-> rules]
FlagSets == {GivenFlags(t, None, {}) : t \in BOOLEAN} \cup {GivenFlags(FALSE, "Bypass", {"Allow", "Deny"})}
ModelNames == {"fast", "far", "other", "deepseek-v4-flash", "deepseek-v4-pro"}

SettingsPart ==
    /\ IF scenario = "settings" THEN TRUE
       ELSE /\ file = SettingsFile("deepseek", None, None, [n \in {} |-> 0], CompactionSection(None, None, None, None, None, None), 50, {}, None)
            /\ given = [cli |-> None, universal |-> None, deepseek |-> None] /\ flags = GivenFlags(TRUE, None, {})
    /\ SettingsInit
SettingsStep == scenario = "settings" /\ SettingsNext

-----------------------------------------------------------------------------
(* Delegation: agent types that override, orphan, restrict and relocate one   *)
(* another, a type with a model of its own, two skills that are then lost,    *)
(* two turns of two model calls.                                              *)

Document(stem, closed, name, tools, model, form) ==
    [file |-> stem, closed |-> closed, name |-> name, tools |-> tools, model |-> model, form |-> form]
Reviewer == Document("x", TRUE, None, <<"bash", "task">>, "far", "text")
Override == Document("y", TRUE, "x", <<"", "">>, "lost", "text")
Nameless == Document("x", TRUE, "", <<"read">>, None, "text")
Unclosed == Document("x", FALSE, "y", <<"bash">>, "far", "text")
Builtin == Document("y", TRUE, "general", <<"bash">>, None, "text")
Bodyless == Document("y", TRUE, None, <<"read", "">>, "", "bodyless")
GlobalAndWorkspace ==
    {<<Reviewer, Override>>, <<Reviewer, Nameless>>, <<Builtin, Unclosed>>, <<Bodyless, Override>>}
SkillDocument(name) == Document("s", TRUE, name, None, None, "text")
EmptyShelf == [agents |-> << <<>>, <<>> >>, skills |-> << <<>>, <<>> >>]
DelegationShelves ==
    {EmptyShelf} \cup {[agents |-> << <<pair[1]>>, <<pair[2]>> >>, skills |-> << <<>>, <<>> >>] : pair \in GlobalAndWorkspace}
    \cup {[agents |-> << <<Reviewer, Override>>, <<>> >>, skills |-> << <<SkillDocument("")>>, <<SkillDocument("t")>> >>]}
NearAndFar ==
    [n \in {"near", "far"} |-> IF n = "near" THEN [model |-> "near", maxTokens |-> 1] ELSE [model |-> "other", maxTokens |-> 2]]

TurnPart ==
    /\ DelegationInit
    /\ scenario # "delegation" =>
          /\ shelf = EmptyShelf /\ runner = NearAndFar["near"]
          /\ ~session.enabled /\ session.messages = 0
TurnStep == scenario = "delegation" /\ DelegationNext

-----------------------------------------------------------------------------
ConversationInit ==
    /\ scenario \in Scenarios /\ ProtocolInit
    /\ StreamPart /\ SummaryInit /\ TaskPart /\ StoreInit /\ UiPart /\ ViewPart /\ ComposerPart /\ SettingsPart
    /\ TurnPart
\* What is not checked rests; stated first, TLC evaluates it once for a state.
AtRest ==
    /\ UNCHANGED scenario
    /\ IF scenario = "protocol" THEN TRUE ELSE UNCHANGED history
    /\ IF scenario = "stream" THEN TRUE ELSE UNCHANGED streamVars
    /\ IF scenario = "summary" THEN TRUE ELSE UNCHANGED summaryVars
    /\ IF scenario = "tasks" THEN TRUE ELSE UNCHANGED taskVars
    /\ IF scenario = "store" THEN TRUE ELSE UNCHANGED storeVars
    /\ IF scenario = "ui" THEN TRUE ELSE UNCHANGED uiVars
    /\ IF scenario = "view" THEN TRUE ELSE UNCHANGED viewVars
    /\ IF scenario = "composer" THEN TRUE ELSE UNCHANGED composerVars
    /\ IF scenario = "settings" THEN TRUE ELSE UNCHANGED setVars
    /\ IF scenario = "delegation" THEN TRUE ELSE UNCHANGED delegationVars
ConversationNext ==
    /\ AtRest
    /\ \/ ProtocolStep \/ StreamStep \/ SummaryStep \/ TaskStep \/ StoreStep
       \/ UiStep \/ ViewStep \/ ComposerStep \/ SettingsStep \/ TurnStep
conversationVars == <<scenario, history, streamVars, summaryVars, taskVars, storeVars, uiVars, viewVars,
                      composerVars, setVars, delegationVars>>
ConversationSpec == ConversationInit /\ [][ConversationNext]_conversationVars

-----------------------------------------------------------------------------
(* Properties.  ContextIsManaged is ContextProtocol's own, StreamedIsOneShot  *)
(* ChatStream's, RecursionStands Summary's, TurnsSettle Frontend's,           *)
(* ScreenIsTrue Viewport's, RunnersAreAsConfigured Settings',                 *)
(* DelegationsStand Delegation's, ClaimedAfterBlockers and WorkNeverSticks    *)
(* are TaskStore's, TablesAgree and WholeOperationsOnly are TursoStore's: the *)
(* variables of those components have their first values while another is     *)
(* checked.                                                                   *)

\* Whenever a key changes the composer, the caret stood where it took effect; Up
\* and Down keep its column, and Enter runs the row the menu shows as chosen
\* (caret_position, move_up, handle_menu_key).
KeysDoWhatIsShown ==
    [][scenario = "composer" =>
          /\ Editor!CursorOnBoundary' /\ Editor!CaretWhereTypingLands
          /\ Editor!ColumnKept /\ Editor!RowTaken]_composerVars

=============================================================================
