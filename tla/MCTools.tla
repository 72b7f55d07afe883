-------------------------------- MODULE MCTools --------------------------------
(* What happens to a tool call, component by component: it is authorized      *)
(* (Authorization, under the rules and registries of PolicyContext), its path *)
(* is resolved (PathRules), and it reads, writes, searches, runs a shell or   *)
(* fetches a page (ReadLedger, PageReader, TreeSearch, BashTool, WebFetch,    *)
(* HtmlText, Memory).  The components share no variable: a behaviour begins   *)
(* in one of the Scenarios and stays in it; the others' variables are None or, *)
(* for the modules extended here, at a first state.                           *)
EXTENDS Authorization, PolicyContext, ReadLedger, Memory, BashTool, WebFetch, Sequences, SequencesExt, TLC

CONSTANTS
    Scenarios,   \* the components to check
    None,        \* the value of a variable of a component not checked
    \* Authorization
    plain, risky, roomy, broken, rogue,   \* inputs
    before, after,                        \* worlds
    edit, command, outside, note, secret, \* checks
    first, second,                        \* hooks
    \* WebFetch
    site, dev, inner, mapped,             \* hosts
    \* BashTool and PolicyContext
    h1, h2, c1, c2

VARIABLES
    scenario,
    tree, moves,                                                         \* PathRules
    file, got, hints, next, failed,                                      \* PageReader
    walked, listing, search, cancelled, seen,                            \* TreeSearch
    buffer, links, base, preformatted, discarded, raw, tokens, open, ideal \* HtmlText

pathVars == <<tree, moves>>
pageVars == <<file, got, hints, next, failed>>
searchVars == <<walked, listing, search, cancelled, seen>>
htmlVars == <<buffer, links, base, preformatted, discarded, raw, tokens, open, ideal>>

-----------------------------------------------------------------------------
(* Authorization: five inputs over five checks.  plain, risky and roomy are   *)
(* good; plain's path and roomy's path lead elsewhere once moved; one input   *)
(* is refused by its tool, one by its tool's permission profile.              *)

MCInput == {plain, risky, roomy, broken, rogue}
MCVerdict == [i \in MCInput |->
    CASE i = broken -> "invalid" [] i = rogue -> "violates" [] OTHER -> "ok"]
MCChecksOf == [i \in MCInput |-> [w \in {before, after} |->
    CASE i = plain /\ w = before -> {edit}
      [] i = plain /\ w = after  -> {outside}
      [] i = risky               -> {edit, command}
      [] i = roomy /\ w = before -> {note}
      [] i = roomy /\ w = after  -> {secret}
      [] OTHER                   -> {note}]]
MCCheck == {edit, command, outside, note, secret}
MCDefault == [c \in MCCheck |-> IF c = note THEN "Allow" ELSE "RequireApproval"]
MCKind == [c \in MCCheck |->
    CASE c = edit -> "edit" [] c \in {note, secret} -> "read" [] OTHER -> "other"]

\* One explicit question, one denial, and a project permission that counts for
\* nothing in an untrusted workspace.
MCStaticRule ==
    {[id |-> "ask-command", check |-> command, effect |-> "RequireApproval", project |-> FALSE],
     [id |-> "deny-secret", check |-> secret, effect |-> "Deny", project |-> FALSE],
     [id |-> "project-outside", check |-> outside, effect |-> "Allow", project |-> TRUE]}

Reply(e, i) == [effect |-> e, replacement |-> i]
MCHookReplies == [h \in {first, second} |->
    IF h = first
    THEN {Reply("none", NoInput), Reply("Allow", NoInput), Reply("RequireApproval", NoInput),
          Reply("none", roomy), Reply("none", broken)}
    ELSE {Reply("none", NoInput), Reply("Allow", NoInput), Reply("none", risky)}]

AuthorizationPart ==
    IF scenario = "authorization" THEN Init
    ELSE /\ pc = "idle" /\ prepared = None /\ hookc = None /\ rewrites = None /\ iteration = None
         /\ restarts = None /\ mode = None /\ rules = {} /\ revision = None /\ challenge = None
         /\ receipt = None /\ world = None /\ calls = None /\ result = None /\ granted = None /\ refused = None
AuthorizationStep == scenario = "authorization" /\ Next

-----------------------------------------------------------------------------
(* ReadLedger: four versions of one file, four tool results.                  *)

LedgerPart == LedgerInit /\ (scenario # "ledger" => disk.version = 0)
LedgerStep == scenario = "ledger" /\ LedgerNext

-----------------------------------------------------------------------------
(* Memory: a document, and a name that is a symlink to it or a directory.     *)

MemorySlugs == {"a", "b"}
AllToA == [n \in MemorySlugs |-> "a"]
MemoryStarts ==
    {("a" :> x @@ "b" :> y) :
        x \in {[kind |-> "absent", version |-> 0, form |-> "blank"]}
              \cup {[kind |-> "file", version |-> 1, form |-> f] : f \in {"text", "long", "blank", "binary"}},
        y \in {[kind |-> k, version |-> 1, form |-> "blank"] : k \in {"link", "dir"}}}

MemoryPart == MemoryInit /\ (scenario # "memory" => ~linked /\ stored.a.kind = "absent" /\ stored.b.kind = "dir")
MemoryStep == scenario = "memory" /\ MemoryNext

-----------------------------------------------------------------------------
(* PathRules: a workspace <<"w">> of two names, two levels deep, a place      *)
(* beside it, and links out of it, across it and up.                          *)

W == <<"w">>
PlacesOfTree == {W, <<"w", "a">>, <<"w", "b">>, <<"w", "a", "a">>, <<"w", "a", "b">>, <<"o">>, <<"o", "a">>}
LinkTo(absolute, parts) == [absolute |-> absolute, parts |-> parts]
LinkTexts == {LinkTo(TRUE, <<"o", "a">>), LinkTo(TRUE, <<"w", "a">>), LinkTo(TRUE, <<"w", "b">>),
              LinkTo(FALSE, <<"a">>), LinkTo(FALSE, <<"..", "b">>)}
GivenPaths == PlacesOfTree \cup
    {W \o p : p \in {<<"..", "o", "a">>, <<"a", "..", "b">>, <<"b", "a">>, <<"b", "b">>, <<"b", "..", "a">>}}
PathSelectors == {<<"a">>, <<"a", "**">>, <<"a", "b">>, <<"*">>, <<"**", "b">>, <<"**">>, <<"*", "a">>}

Paths == INSTANCE PathRules WITH
    Root <- W, Places <- PlacesOfTree, Links <- LinkTexts, Inputs <- GivenPaths, MaxLinks <- 3,
    Selectors <- PathSelectors, MaxChanges <- 8, changes <- moves

PathPart == IF scenario = "paths" THEN Paths!PathInit ELSE tree = None /\ moves = None
PathStep == scenario = "paths" /\ Paths!PathNext

-----------------------------------------------------------------------------
(* BashTool: a shell, two helpers, five bytes of output, lines of four tokens.*)

BashPart == BashInit
BashStep == scenario = "bash" /\ BashNext

-----------------------------------------------------------------------------
(* PageReader: every file of up to five bytes, pages of three.                *)

Reader == INSTANCE PageReader WITH
    MaxLineBytes <- 2, ReadLimitBytes <- 3, MarkerBytes <- 1, Limits <- {0, 1, 2}, MaxFile <- 5

PagePart ==
    IF scenario = "pages" THEN Reader!PageInit
    ELSE file = None /\ got = None /\ hints = None /\ next = None /\ failed = None
PageStep == scenario = "pages" /\ Reader!PageNext

-----------------------------------------------------------------------------
(* TreeSearch: "f", "f.r" and what lies below "f" - the dot sorts below the   *)
(* separator - a name that is not UTF-8, and a .git.                          *)

Spelled == [n \in {"f", "f.r", "g", "u", ".git"} |->
              CASE n = "f" -> <<102>> [] n = "f.r" -> <<102, 46, 114>> [] n = "g" -> <<103>>
                [] n = "u" -> <<117>> [] OTHER -> <<46, 103, 105, 116>>]
TreePaths == {<<"f">>, <<"f", "f">>, <<"f", "f", "g">>, <<"f", "g">>, <<"f.r">>, <<"g">>, <<"u">>, <<".git">>}
TreeOf(dirs, outward) ==
    [p \in TreePaths |-> IF p \in dirs THEN "dir" ELSE IF p \in outward THEN "outside"
                         ELSE IF Len(p) > 1 /\ Front(p) \notin dirs THEN "absent" ELSE "file"]
AllDirs == {<<"f">>, <<"f", "f">>}
Said(in, name, keep) == [in |-> in, name |-> name, keep |-> keep]
RuleSets == {{a, b} : a, b \in {Said(d, n, k) : d \in {<<>>} \cup AllDirs, n \in {"g"}, k \in BOOLEAN} \cup {Said(<<"f">>, "f", FALSE)}}
Contradicts(rs) == \E a, b \in rs : a.in = b.in /\ a.name = b.name /\ a.keep # b.keep
EmptyFile == [length |-> 0, lines |-> {}, nul |-> "none", opens |-> TRUE]
EmptyFiles == [p \in TreePaths |-> EmptyFile]
LsWorlds == {[kind |-> TreeOf(AllDirs, outward), rules |-> rs, denied |-> denied, contents |-> EmptyFiles] :
                rs \in {r \in RuleSets : ~Contradicts(r)}, outward \in {{}, {<<"g">>}},
                denied \in {{}, {<<"f", "f">>}, {<<"f.r">>, <<"u">>}, TreePaths}}
LsWalks == {w \in LsWorlds : w.kind[<<"g">>] = "file" \/ w.denied \in {{}, TreePaths}}
Matching(lines, nul) == [length |-> 4, lines |-> lines, nul |-> nul, opens |-> TRUE]
GrepContents == {Matching(ls, "none") : ls \in {{2}, {1, 4}, {2, 3, 4}}}
            \cup {Matching({1}, "late"), Matching({}, "first"), [EmptyFile EXCEPT !.opens = FALSE]}
GrepWorlds == {[kind |-> TreeOf(AllDirs, {}), rules |-> {Said(<<>>, "u", FALSE)}, denied |-> {<<"f", "g">>},
                contents |-> [EmptyFiles EXCEPT ![<<"f", "f", "g">>] = a, ![<<"f.r">>] = b, ![<<"g">>] = c]] :
                a, b \in GrepContents, c \in {Matching({2}, "none"), Matching({}, "first")}}
GrepCall(how, limit, offset, context) ==
    [root |-> <<>>, mode |-> how, limit |-> limit, offset |-> offset, context |-> context]
GrepCalls == {GrepCall("content", l, o, c) : l \in 1..3, o \in {0, 2}, c \in {0, 1}}
             \cup {GrepCall(m, l, o, 0) : m \in {"files", "count"}, l \in 1..2, o \in 0..2}

Search == INSTANCE TreeSearch WITH
    Entries <- TreePaths, Spelling <- Spelled, VcsStores <- {".git"}, OddNames <- {"u"},
    Worlds <- LsWalks \cup GrepWorlds, Depths <- {1, 2, 3}, LsEntryCap <- 3, SearchCalls <- GrepCalls,
    world <- walked

SearchPart ==
    IF scenario = "search" THEN Search!SearchInit
    ELSE walked = None /\ listing = None /\ search = None /\ cancelled = None /\ seen = None
SearchStep == scenario = "search" /\ Search!SearchNext

-----------------------------------------------------------------------------
(* PolicyContext: rules of four namespaces by the user and by the project,    *)
(* two delegations, three changes.                                            *)

Target(ns, sel) == [ns |-> ns, sel |-> sel, opaque |-> FALSE]
Rule(ns, sel, effect, origin) == [ns |-> ns, sel |-> sel, absolute |-> FALSE, effect |-> effect, origin |-> origin]
PolicyTexts ==
    {Rule("Read", <<"", "k">>, "Deny", "User"), Rule("Read", <<"..", "k">>, "Deny", "User"),
     Rule("Edit", <<"a", "**">>, "Allow", "Project"), Rule("Read", <<"k">>, "RequireApproval", "Project"),
     Rule("WebFetch", <<"B", ".", "c", ".">>, "Allow", "User"),
     Rule("Bash", <<"s", "*", "s", "x">>, "Deny", "Project"), Rule("Bash", <<"*">>, "Allow", "Project"),
     [Rule("Read", <<"w", "**">>, "Deny", "User") EXCEPT !.absolute = TRUE]}
PolicyTargets ==
    {Target("Read", <<"w", "k">>), Target("Read", <<"w", "a", "k">>), Target("Edit", <<"w", "a">>),
     Target("WebFetch", <<"b", ".", "c">>), Target("WebFetch", <<"x", "B", ".", "c">>),
     Target("WebFetch", <<"x", ".", "b", ".", "c", ".">>), Target("Bash", <<"s", "s", "s", "x">>),
     [Target("Bash", <<"s">>) EXCEPT !.opaque = TRUE], Target("TodoWrite", <<>>)}
EveryTool == {"bash", "read_file", "write_file", "edit_file", "glob", "todo_write", "ls", "web_fetch", "grep", "task",
              "load_skill", "load_memory", "write_memory", "create_task", "update_task", "claim_task",
              "complete_task", "get_task", "list_tasks", "custom"}
Lists == {EveryTool, {"ls", "grep", "task"}}
PolicyRoots == {W, <<"o">>}

PolicyPart == PolicyInit /\ (scenario # "policy" => policy.rules = {})
PolicyStep == scenario = "policy" /\ PolicyNext

-----------------------------------------------------------------------------
(* WebFetch: hosts with public, private and mixed addresses; every page of up *)
(* to three bytes of text, and longer ones that the body cap, the prescan     *)
(* window or a window of the text cuts at an awkward place.                   *)

Plain(class) == [form |-> "v4", class |-> class, carries |-> "none"]
WebHosts == site :> {{Plain("public")}, {Plain("public"), Plain("private")},
                     {[form |-> "v6", class |-> "public", carries |-> "metadata"]},
                     {[form |-> "v6", class |-> "linklocal", carries |-> "none"], Plain("public")}}
            @@ dev :> {{[form |-> "v6", class |-> "loopback", carries |-> "thisnetwork"]}}
            @@ inner :> {{Plain("metadata")}}
            @@ mapped :> {{[form |-> "v6", class |-> "public", carries |-> "private"]}}
WebPages ==
    {p \in UNION {[1..n -> {"a", "lead", "trail", "raw", "nl"}] : n \in 0..3} :
        Cardinality({i \in 1..Len(p) : p[i] = "raw"}) <= 1}
    \cup {<<"bom", "lead", "trail", "raw">>, <<"a", "meta", "lead", "trail">>, <<"a", "lead", "trail", "meta", "a">>,
          <<"tag", "meta", "a", "raw", "nl">>, <<"a", "nl", "tag", "lead", "trail">>, <<"a", "a", "nl", "a", "lead">>,
          <<"lead", "trail", "lead", "trail", "lead">>, <<"a", "lead", "trail", "lead", "trail">>,
          <<"lead", "trail", "nl", "nl">>, <<"nl", "raw", "lead", "trail">>, <<"a", "a", "lead", "trail">>}
WebHeaders == [media : {"none"}, charset : {"none", "utf8"}] \cup {[media |-> "html", charset |-> "none"]}

NoPage == [bytes |-> <<>>, header |-> [media |-> "none", charset |-> "none"]]
WebPart == WebInit /\ (scenario # "web" => page = NoPage)
WebStep == scenario = "web" /\ WebNext

-----------------------------------------------------------------------------
(* HtmlText: every page of four tokens.                                       *)

HtmlTexts == {<<"x">>, <<"sp">>, <<"y", "nl", "nbsp">>, <<"nbsp", "x">>, <<"nl", "nl", "x", "sp", "y">>}
Html == INSTANCE HtmlText WITH
    Texts <- HtmlTexts, Hrefs <- {"none", "fragment", "u", "v"}, MaxTokens <- 4,
    Elements <- {"a", "base", "p", "li", "pre", "cell", "script", "template", "inline", "heading", "br"}

HtmlPart ==
    IF scenario = "html" THEN Html!HtmlInit
    ELSE /\ buffer = None /\ links = None /\ base = None /\ preformatted = None /\ discarded = None
         /\ raw = None /\ tokens = None /\ open = None /\ ideal = None
HtmlStep == scenario = "html" /\ Html!HtmlNext

-----------------------------------------------------------------------------
ToolsInit ==
    /\ scenario \in Scenarios
    /\ AuthorizationPart /\ LedgerPart /\ MemoryPart /\ PathPart /\ BashPart /\ PagePart
    /\ SearchPart /\ PolicyPart /\ WebPart /\ HtmlPart
\* What is not checked rests; stated first, TLC evaluates it once for a state.
AtRest ==
    /\ UNCHANGED scenario
    /\ IF scenario = "authorization" THEN TRUE ELSE UNCHANGED vars
    /\ IF scenario = "ledger" THEN TRUE ELSE UNCHANGED ledgerVars
    /\ IF scenario = "memory" THEN TRUE ELSE UNCHANGED memVars
    /\ IF scenario = "paths" THEN TRUE ELSE UNCHANGED pathVars
    /\ IF scenario = "bash" THEN TRUE ELSE UNCHANGED bashVars
    /\ IF scenario = "pages" THEN TRUE ELSE UNCHANGED pageVars
    /\ IF scenario = "search" THEN TRUE ELSE UNCHANGED searchVars
    /\ IF scenario = "policy" THEN TRUE ELSE UNCHANGED polVars
    /\ IF scenario = "web" THEN TRUE ELSE UNCHANGED webVars
    /\ IF scenario = "html" THEN TRUE ELSE UNCHANGED htmlVars
ToolsNext ==
    /\ AtRest
    /\ \/ AuthorizationStep \/ LedgerStep \/ MemoryStep \/ PathStep \/ BashStep
       \/ PageStep \/ SearchStep \/ PolicyStep \/ WebStep \/ HtmlStep
toolVars == <<scenario, vars, ledgerVars, memVars, pathVars, bashVars, pageVars,
              searchVars, polVars, webVars, htmlVars>>

\* The fairness of the two components that have one: an authorization is driven
\* on, and a shell's timers fire.
Driven ==
    \/ scenario = "authorization" /\ Progress /\ UNCHANGED bashVars
    \/ scenario = "bash" /\ (Timeout \/ WaitEnds \/ GraceElapses \/ DrainEnds)
       /\ UNCHANGED vars
ToolsSpec == ToolsInit /\ [][ToolsNext]_toolVars /\ WF_<<vars, bashVars>>(Driven)

-----------------------------------------------------------------------------
(* Properties.  OnlyAuthorizedRuns and GrantsStayNarrow are Authorization's   *)
(* own; BlindOnlyByKnownWays, StandingIsWitnessed and OverwritesOnlySeen are     *)
(* ReadLedger's, MemoriesAreGuarded and CaughtNotAbsorbed Memory's,           *)
(* CommandsEndTruly BashTool's, ConnectsAsAuthorized WebFetch's: those rest   *)
(* at a first state while another component is checked.                       *)

\* A call that has begun ends.  An authorization ends however often hooks and
\* approvers rewrite its input or its receipt goes stale, as long as hooks
\* return and someone answers; a shell command ends whatever its processes do,
\* by its exit, its timeout or the grace of its pipes (authorize_with_progress,
\* BashTool::run_prepared).
Ongoing == pc # "idle" \/ phase \in {"waiting", "draining"}
EveryCallEnds == Ongoing ~> ~Ongoing

\* The path a call is authorized for is the file it reaches, when it is resolved
\* and, after any change of the tree, as long as it passes revalidation
\* (resolve_target, revalidate_target).
PathsLeadWhereTheySay == scenario = "paths" => Paths!ResolvesToWhatItNames /\ Paths!RevalidatedLeadsToItself

\* A rule covers what its text says, wherever it is consulted: a path rule in a
\* check or in a walk (nested_form, denies_read_path), a command rule on each
\* command of a line (simple_command_chain, command_match), a domain rule label
\* by label (domain_matches).  A search stays where it is authorized (anchor).
RulesCoverWhatTheySay ==
    /\ scenario = "paths" => Paths!RulesCoverWhatTheySay /\ Paths!SearchKeepsToItsAnchor
    /\ scenario = "bash" => ChainIsStable
    /\ scenario = "policy" => /\ CommandsAreCovered /\ DomainsByLabel
                              /\ WalksHideWhatReadsRefuse

\* A result that came in pieces is, put together, the whole: the pages and line
\* windows of a file (read_file), of a search (grep) and of a web page
\* (web_fetch), followed by the hints they carry; no hint is refused.
PagesTileTheWhole ==
    /\ scenario = "pages" => Reader!PagesTileTheFile /\ Reader!HintsAreGood
    /\ scenario = "search" => Search!PagesTileTheResult
    /\ scenario = "web" => WindowsTileThePage

\* A listing is the directory as a tree, cut only at its edges, and the same
\* from whatever directory the walk began (ls.rs, nest; AncestorIgnore).
ListingIsATree == scenario = "search" => Search!ListingIsATree /\ Search!SeenAsFromTheTop

\* No word of a page is lost, split or joined, and the body cap costs only the
\* end of it, its encoding included (html_to_text, decode_body).
WordsSurvive ==
    /\ scenario = "html" => Html!WordsSurvive
    /\ scenario = "web" => CapCostsOnlyTheEnd

=============================================================================
