# kuncode: a TLA+ verification project

kuncode is a terminal coding agent in Rust: a model decides, a harness supplies
tools, permissions, persistence and a user interface. Three crates build on each
other: `kuncode-core` (messages, completion, providers), `kuncode-agent` (turn
loop, tools, permissions, sessions, compaction) and `kuncode-cli` (configuration,
approval prompts, one-shot output, TUI). Paths below are relative to
`src/crates/kuncode-agent/src/` unless they name another crate.

## 1. The system

| component | state | operations | hard behaviours | what makes it correct | module |
|---|---|---|---|---|---|
| AgentSession (`session.rs`, `session/*`) | active messages with lineage, persistence posture, durable frontier | push, mark failed, install compacted context, resume | store failures and crashes between memory and journal | lineage never claims more than the journal holds; losing durability is noticed and final | `SessionDurability` |
| Session store (`session_store/*`) | journal, checkpoints, artifacts in one SQLite file | append, put artifact, commit compaction, snapshot | rollback, unknown commit outcome, a moved head, a connection that fails at any statement | transactions are all or nothing and conditional on the audited frontier | `TursoStore`, `SessionDurability` |
| Compaction (`compaction/*`) | one attempt | audit, spill, slim, summarise, select, commit, install | every await may fail or be cancelled | never loses a message or rewrites the working set; what it keeps can be sent | `SessionDurability`, `ContextProtocol`, `Summary` |
| Turn loop (`runner/*`) | loop counters, the transcript being written | prompt hook, request, model call, tool batch, Stop hook, terminal error | cancellation at every await, unwinding, crash inside a batch | every request is paired, every call answered once, budget and caps respected | `AgentLoop` |
| Delegations (`runner/subagent.rs`, `agent_type.rs`, `tool/task.rs`) | catalogs, derived runner, usage meter | scan, resolve, delegate, bill | types that override or orphan each other, failures inside a batch | a delegation only narrows, and its calls are on the turn's bill | `Delegation`, `AgentLoop` |
| Permission engine (`permission/engine.rs`, `approval.rs`) | session rules, challenges, receipts | prepare, stabilise, resolve, challenge, approve, execute | rewrites by hooks and approvers, the world changing during an approval | only the exact authorised input runs, for what it now touches | `Authorization` |
| Policy (`permission/*`, `registry.rs`, `hook.rs`) | rules, overlay, hooks, registry, their revisions | install, remember, hide, narrow, derive | contents that change and change back | a revision names one content; an untrusted project only tightens | `PolicyContext`, `Globs`, `PathRules` |
| File tools (`tool/read_ledger.rs`, `tool/filesystem/*`) | sightings with stamps and witnesses | read, write, edit, evict | external writers, compaction dropping the reading | no whole-file write over contents nobody saw | `ReadLedger`, `PageReader` |
| Memories (`memory.rs`, `tool/*_memory.rs`) | documents, index, sightings | load, write, scan | other sessions of the project, symlinks | no memory replaced unseen | `Memory` |
| Search (`ls.rs`, `grep.rs`, `glob.rs`, `workspace.rs`) | none | walk, list, search, resolve | ignore files, denied paths, pages, links that change | pages tile the result; a path reaches what it was authorised for | `TreeSearch`, `PathRules`, `Globs` |
| Task store (`tasks.rs`, `tool/tasks.rs`) | one document per task, shared by processes | create, update, claim, complete, list | unlocked read-modify-write, torn files | nothing is claimed ahead of its blockers | `TaskStore` |
| bash, web_fetch | child processes, HTTP exchange | run, time out, drain; redirect, dial, decode | exit racing the timeout, grandchildren; rebinding, cut characters | bounded time, no survivors; connects as authorised, no word lost | `BashTool`, `WebFetch`, `HtmlText` |
| Completion (`kuncode-core`) | retry counter, stream accumulator | request, retry, assemble | partial streams, interleaved fragments | no retry after the first event; a stream is the one-shot answer | `ChatStream`, `ContextProtocol` |
| TUI (`kuncode-cli/src/tui*`) | app state, queues, text, panes | run a turn, approve, cancel, edit, scroll | four sources folded by one select loop | nothing is owed once a turn is over; what is drawn is true | `Frontend`, `Composer`, `Viewport` |
| Settings (`kuncode-cli/src/settings.rs`, `runtime.rs`) | settings, registry of models, runner | resolve, switch model | layers that override and trust that is missing | budgets fit the model that runs | `Settings` |

Interaction: the CLI assembles a runner and calls `run_turn_with` on a session and
a token; the runner pushes messages (journal first, then memory), lets compaction
borrow the session before each request, and serves tool calls one at a time
through the permission engine. The store is shared by runner, pipeline and
resume. Hooks, approvers and the observer are callbacks; the token is the only
signal from the user to a running turn. A delegation runs the same loop again
inside a tool call, on a narrowed copy of the runner.

The hazards of this code are listed at their lines in `PROJECT.json`, each with
the properties that cover it.

## 2. Modules

Each module's header says what it keeps of the data and what it drops. Actions
carry the names of the functions or of the awaits they model; `PROJECT.json`
maps every definition to its lines.

### The session: SessionDurability, DurableTranscript

`journal`, `artifacts`, `checkpoint` are the rows of one session; `sess[h]` is an
`AgentSession` (`phase` its persistence posture, `items` its messages with their
`MessageLineage`, `frontier` its durable sequence); `att[h]` is the attempt
`execute_compaction` keeps on its stack; `fault` is a history variable.

`PushJournaled`, `PushFailed`, `PushMemoryOnly` are the outcomes of
`persist_message` followed by the push. The pipeline has one action per await:
`AuditPasses`/`AuditFails`, `PutCommitted`/`PutSkipped`/`PutConflict`/`PutUnknown`,
`SpillDone`, `Deterministic` or `Semantic`, `CommitInstalled`/`CommitConflict`/
`CommitUnknown`, `Bypass` for every recoverable ending, `SourceRefused` for a
summary that has no source and `NothingToRewrite` for `/compact` with nothing to
do, both of which cost the session its authority. `Crash` may fall between any two; `ResumeAny` is
`resume_durable_session`, whose loop over the facts is stated as the unique run
of the forward cursor.

Token counts are choices, so every budget posture is explored; digests are
injective on what they hash, which keeps the digest of a payload and that of an
encoded tool result apart; a tool exchange is its result message.

`DurableTranscript` is the abstract specification: one transcript that grows by
a message or is condensed. `ImplementsTranscript` is the refinement, with
`transcript <- Recovered`, what a resume would rebuild.

### The turn: AgentLoop

`msgs` is the transcript, `durable` how much of it is journaled; `turn` collects
the locals of `run_turn_with`, `run_loop`, `execute_tool_calls` and
`authorized_call` with the await they stand at as `phase`; `cancelled` is the
token; `open` and `ends` are what an observer has seen. Every transcript write is
an action of its own, because a crash can fall between any two. Awaits answered
by somebody else are choices of the environment. `CallCancelled` and `ToolRuns`
are both enabled once the token has fired, because the engine's `tokio::select!`
is not biased; `ModelCancelled` excludes `ModelAnswers`, because `cancellable` is.

### A tool call: composed in MCTools

`Authorization` models the decision (preparation, hook rounds with rewrites,
rules, mode, challenge, answer, receipt, execution in a world that moves) that
`AgentLoop` knows by its outcomes only. `PolicyContext` has what that decision
reads, with the revisions by which it learns of changes. `PathRules` over `Globs`
is path resolution through links and what a path rule covers. `ReadLedger`,
`Memory`, `PageReader`, `TreeSearch`, `BashTool`, `WebFetch` and `HtmlText` are the
tools; `Sightings` holds what `ReadLedger` and `Memory` share, the ledger of what a
conversation has been shown. In `ReadLedger`, `Memory` and `TaskStore` every access
to a file is a step, and another process may act between any two.

### A conversation: composed in MCConversation

`ContextProtocol` (grouping, protection, selection, thresholds and the wire
projection, as functions of a history that grows), `Summary`, `ChatStream`,
`TursoStore` (one SQL statement a step), `TaskStore`, `Frontend`, `Viewport`,
`Composer`, `Settings`, `Delegation`.

### Composition

`MCTools` and `MCConversation` each hold a set of components that share no
variable. A behaviour begins in one *scenario* (the constant `Scenarios` says
which are checked) and stays in it; the state graph is the disjoint union of the
components' graphs. A component that has theorems is extended, so that the run
checks the very definition the theorem states, and rests at an initial state in
the scenarios of the others (`Authorization`, `PolicyContext`, `ReadLedger`, `Memory`,
`BashTool` and `WebFetch` in `MCTools`; all but `Composer` in `MCConversation`). The others are instantiated
and their variables are `None` outside their own scenario. That keeps one
instance and one list of properties for each of the two questions "what happens to
a tool call" and "what happens to a conversation", and it claims nothing about
interference between components. Components that do interfere are one module:
journal, session and pipeline in `SessionDurability`, loop, hooks, approvals and
cancellation in `AgentLoop`, engine and world in `Authorization`, tools, other
processes and compaction in `ReadLedger`.

## 3. Runs

| run | question |
|---|---|
| `session_sole` | is durability right for the one process the code supports, under crashes and failed or ambiguous store calls? |
| `session_writers` | what does the frontier comparison give when a second writer breaks that rule? |
| `loop_turn` | do rows close, do answers survive the budget, does cancelling end the turn? |
| `loop_session` | are requests and fork snapshots paired and calls answered once, across turns and a crash? |
| `tools` | ten components a tool call meets, see below |
| `conversation` | ten components a conversation is carried by, see below |
| `resume_artifacts`, `resume_duplicates`, `manual_compaction`, `loop_cancel_race`, `ledger_edits`, `memory_stamp` | findings, section 4 |

Scenarios of `tools`, with their bounds:

| scenario | bounds | properties |
|---|---|---|
| authorization | five inputs over five checks, two hooks, two calls, a world that moves; limits of 2 rewrites, 3 hook rounds, 1 restart | OnlyAuthorizedRuns, GrantsStayNarrow, EveryCallEnds |
| ledger | one file, four versions, four results, a child | BlindOnlyByKnownWays, StandingIsWitnessed |
| memory | a document, a symlink to it or a directory, other sessions | MemoriesAreGuarded |
| paths | seven places, five link texts, eight changes | PathsLeadWhereTheySay, RulesCoverWhatTheySay |
| bash | lines of four tokens; a shell and two helpers, five bytes of output | CommandsEndTruly, EveryCallEnds, RulesCoverWhatTheySay |
| pages | every file of up to five bytes, pages of three, lines of two | PagesTileTheWhole |
| search | a tree of eight names with ignore rules and denied paths, every page size | ListingIsATree, PagesTileTheWhole |
| policy | rules of five kinds, two delegations, three changes | VersionsIdentify, PrefixIsStable, RulesCoverWhatTheySay |
| web | hosts with public, private and mixed addresses, one redirect, every page of up to three bytes and longer awkward ones | ConnectsAsAuthorized, WordsSurvive, PagesTileTheWhole |
| html | every page of four tokens | WordsSurvive |

Scenarios of `conversation`:

| scenario | bounds | properties |
|---|---|---|
| protocol | every history of up to five messages of fifteen shapes, windows of two to seven tokens, a short tail and a long one | ContextIsManaged |
| stream | two retries, two parallel calls, two fragments of text | StreamedIsOneShot |
| summary | six messages, three passes of summaries, a forged reference | RecursionStands |
| tasks | three tasks, two processes, four tool calls | ClaimedAfterBlockers, WorkNeverSticks |
| store | two sessions, one content under two previews, four entries | TablesAgree, WholeOperationsOnly |
| ui | two stored sessions; two turns, two approvals and two keys, four of these in all; two events a turn | TurnsSettle |
| view | frames of 2, 5, 8 and 11 rows, plans of up to three items, content of up to four rows | ScreenIsTrue |
| composer | texts of up to four characters of one, three and no cells, widths of 1 and 6 | KeysDoWhatIsShown |
| settings | files of two providers, profiles that hide and rename models, ten compaction sections; 2000000000 stands for the widest 32-bit count, which TLC's integers do not reach | RunnersAreAsConfigured |
| delegation | agent types that override, orphan, restrict and relocate one another; two turns of two model calls | DelegationsStand |

Why the bounds are enough. Session: 7 journal rows hold two messages, a spill, a
compaction with its event and checkpoint, and later messages; 4 active messages
hold a summary, an anchor and an exchange outside and inside the tail; a summary may
carry one reference, or none in `session_writers`, so that a prefix is allowed too
many (`MAX_ARTIFACT_REFS` is larger than such a history). Loop: two
calls per batch give a first, a middle of unwinding and a last; two turns show
what one leaves behind; one crash falls at every write. The code's limits
(`STOP_CONTINUATION_LIMIT` 3, `MAX_AUTHORIZATION_RESTARTS` 8, 50 iterations, page
and body sizes of kilobytes) are parameters whose small values are reached and
exceeded. The pure algorithms are compared with reference definitions on every
input up to a length at which each cut, escape and boundary falls at every
position of a multi-byte character. `CHECK_DEADLOCK FALSE` is said where a bound,
or the end of a call, stops a history.

Fairness, and why the code gives it:
`loop_turn` checks `CancelEndsTurn` under weak fairness of `Runner`: the steps the
async runtime polls without waiting for anyone but the local store, and the cancel
branches, ready once the token has fired. Nothing is assumed of model, hooks,
approvers or tools. `tools` checks `EveryCallEnds` under weak fairness of `Driven`:
an authorization is polled on and its hooks and approver answer (without them it
may wait for ever, as the code does), and a shell's timers and waits fire.
Nothing is assumed of the shell's processes.

Every property of a passing run has a mutant in `PROJECT.json`: a plausible
mistake in one mapped definition, written just before it, that breaks it.

## 4. Findings

1. `resume_artifacts`: resume recomputes artifact ids from the encoded tool
   result while the spill pass stores them under the payload's digest, so a
   restored marker has no reference (`session/resume.rs:206`).
2. `resume_duplicates`: with two equal messages the forward cursor can claim the
   one a summary absorbed; the one on display is then unaccounted for and a later
   summary's range can miss it (`session/resume.rs:202`).
3. `manual_compaction`: `/compact` between target and soft with everything
   protected raises `InvalidLineage`, which withdraws persistence authority
   (`compaction/orchestrator/candidate.rs:103`).
4. `loop_cancel_race`: a tool can start after the token was cancelled, although
   `runner/cancellation.rs` says tool execution goes through its biased race.
5. `ledger_edits`: an edit moves the stamp of a stale sighting, after which
   `write_file` replaces what another process wrote (`tool/read_ledger.rs:180`).
6. `memory_stamp`: `load_memory` stamps after it has read, so a write in between
   counts as seen (`tool/load_memory.rs:174`).

Met while modelling, without a run of their own:

- The automatic path costs a session its durability too. After a summary without an
  anchor the context is that summary and a protected tail, and the next pass may
  select the summary alone: `session/compaction.rs:179-187` takes its projection out
  of the source, `compaction/summary/prompt.rs:95-97` returns `EmptySourceMessages`,
  and `runner/compaction/events.rs:80` counts it as a provenance violation, so
  persistence authority goes with every store call good. A prefix allowed more than
  `MAX_ARTIFACT_REFS` references (`compaction/summary/validation.rs:59`) goes the same
  way. This is the action `SourceRefused`; `AuthorityKept` names it as an exception,
  and `RecursionStands` the empty source.
- DeepSeek's one-shot projection keeps an empty `reasoning_content` as a reasoning
  block (`providers/deepseek/protocol.rs:427-429` in `kuncode-core`) that the streaming
  path drops (`providers/chat_completions/streaming.rs:174`): a response with nothing
  else is an answer in one shot and an error when streamed. `StreamedIsOneShot` is
  stated up to that block.
- A crash between an assistant message and the last result of its batch leaves a
  dangling call that resume restores as it is (`CallsArePaired` admits one per
  crash).
- An approval request received just before a cancelled turn returns stays in
  `App::approval` at the prompt (`kuncode-cli/src/tui.rs:470`); `app.rs:142` says
  the panel is there while an approval is pending.
- `ls` compares the number of entries of all levels with the number at the top
  to decide that it is truncated (`ls.rs:329`, doc `ls.rs:118`).
- A `*` of a glob's text meets a `*` of the pattern literally (`glob.rs:79`, doc
  `glob.rs:32`).
- A blank `name:` drops an agent type or a skill, although the comments there
  (`agent_type.rs:266`, `skill.rs:191`) say it must not.
- A delegation that fails otherwise than by its budget bills nobody.
- Without compaction the system message changes when a plan is begun or cleared,
  which the prompt cache pays for (`runner/request.rs:58`).
- `write_memory` asks the ledger by the path it composed and `load_memory` records
  the path it resolved: below a symlinked root an existing memory can never be
  replaced.
- Overlapping saves of two processes can close a cycle of blockers.
- A body that ends without `[DONE]` is a natural stop of the answer.
- `session_store/turso/compaction.rs:1-3` describes the transaction more narrowly
  than its code.

## 5. Proofs

Seven modules hold the theorems; each EXTENDS the modules it is about, so a theorem
states the very definitions the runs check. An eighth, `Counting`, has the lemmas on
least elements and ranks of finite sets of numbers that five of them share. Everything is proved for all values of
the constants, from the `ASSUME`s of those modules and the hypotheses a theorem
states. TLC evaluates every assumption in the runs. They say what the source fixes:

- Bounds and sizes are numbers (`BoundsAssumption`, `CaptureSizes`, `StreamConstants`,
  `WireCounts`, `RowsAreCounted`); a loop and an authorization have at least one
  iteration (`LoopAssumption`, `AuthorizationAssumption`; `MAX_AUTHORIZATION_ITERATIONS`
  is 24); the bound on a file's versions leaves room for the first (`LedgerAssumption`);
  task ids are ordered like numbers, for a listing to have a next one (`TaskAssumption`).
- A stand-in for absence is none of the values it stands beside:
  `NoIdAssumption`, `NoCheckpointAssumption`, `ForgedIsForged`, `UnsetIsNoPlan`.
- Inputs have the shape their Rust types give them: hook replies (`HookReplyAssumption`,
  the enum `HookEffect`), rule texts (`PolicyAssumption`), addresses and hosts
  (`AddressShapes`), agent types on two shelves and a registry of models
  (`ShelvesHaveTwoRoots`, `RegistryOfModels`), configuration files (`FilesAreWhole`),
  the ways to a memory's path (`RootAssumption`).

| Module | Theorem | Of the runs' properties |
|---|---|---|
| `SessionDurability_proofs` | `TypeCorrect`, `JournalAlwaysSound`, `CheckpointSeals` | `TypeOK`, `JournalSound`, `CheckpointSealsJournal` |
| | `WorkingSetStays`, `AlwaysRecoverable` | `WorkingSetKept`, `Recoverable` |
| | `AuthorityStays`, `AlwaysResumesAsLeft`, `NothingIsForgotten` | `AuthorityKept`, `ResumesAsLeft`, `NothingForgotten` |
| | `RefinesTranscript` | `ImplementsTranscript` |
| `AgentLoop_proofs` | `TypesHold`, `TurnsAlwaysEndWell`, `CallsAreAlwaysPaired` | `TypeOK`, `TurnsEndWell`, `CallsArePaired` |
| `Authorization_proofs` | `GrantsAlwaysNarrow`, `OnlyAuthorizedEverRuns`, `CallsAreBounded` | `GrantsStayNarrow`, `OnlyAuthorizedRuns` |
| | `VersionsAlwaysIdentify`, `PrefixAlwaysStable` | `VersionsIdentify`, `PrefixIsStable` |
| `Tools_proofs` | `StandingAlwaysWitnessed`, `OverwritesStayLicensed` | `StandingIsWitnessed`, `BlindOnlyByKnownWays` |
| | `MemoriesStayGuarded` | `MemoriesAreGuarded` |
| | `FetchesConnectAsAuthorized`, `CommandsAlwaysEndTruly` | `ConnectsAsAuthorized`, `CommandsEndTruly` |
| `ChatStream_proofs` | `StreamIsOneShot` | `StreamedIsOneShot` |
| `Stores_proofs` | `ClaimsFollowBlockers`, `WorkNeverWedges` | `ClaimedAfterBlockers`, `WorkNeverSticks` |
| | `TablesAlwaysAgree`, `OperationsAreWhole` | `TablesAgree`, `WholeOperationsOnly` |
| `Conversation_proofs` | `TurnsAlwaysSettle`, `RecursionAlwaysStands` | `TurnsSettle`, `RecursionStands` |
| | `DelegationsAlwaysStand`, `RunnersStayAsConfigured`, `ScreenStaysTrue` | `DelegationsStand`, `RunnersAreAsConfigured`, `ScreenIsTrue` |

### The session

`JournalAlwaysSound` and `CheckpointSeals` follow from `Invariant`
(`Spec => []IInv`). `LineageSound` alone is not inductive: a resume builds items
from the checkpoint, so the checkpoint must be known to carry provenance inside the
journal and payloads that are stored (`CheckpointOK`); a summary must carry its own
range (`ItemOK`) for the restored item to be covered as the live one was; only
original messages may be facts (`JournalPlain`), or a result could be matched to a
marker; an attempt must hold candidates only while its session has authority
(`AttemptShape`); a silent session must be empty (`UnspokenEmpty`) for the first
push to leave no hole. `LocalStep(h)` says what a step may do to the handle that
takes it, `DurableStep` that the store only grows; `ItemKept` carries every other
handle's items over a growing store, and `StepsCompose` puts the two together.

Three more invariants are built on it, each checked on `session_sole`'s instance
before it was proved:

- `OrderedInv` (any number of writers): the verbatim items of a context stand in
  the order of the journal, a candidate is a replacement its context admits, and
  the facts behind a checkpoint's messages stand in the same order. The backward
  walk of the resume takes the last fact that fits; because some choice in that
  order exists, the greedy walk cannot miss (`Explained`, by induction over the
  positions). This gives `Recoverable`, that no resume is rejected, and, with the
  protected part of a selection, `WorkingSetKept`.
- `LoneInv` (one handle): a durable session shows exactly what a resume would
  rebuild, its frontier is the journal's head except while its own attempt is
  ahead of it. Authority is lost only in a step in which a store call fails, a
  summary source is refused, or `/compact` finds nothing to rewrite
  (`LonePoisonCauses`). From it `AuthorityKept`, `ResumesAsLeft` and the refinement: each step appends one
  message to `Recovered`, condenses it, or leaves it alone (`TranscriptStep`).
  `AuthorityStays` names the last two causes, because both are ways of the program
  (section 4) and no failure of the store; everything else a lone session does
  keeps its authority. `RefinesTranscript` has `Sole`, because two writers really interleave.
- `AccountInv`: every fact is shown, stands rewritten, or lies in a summary's
  range, both in the live context and in the checkpoint. It needs that a call has
  at most one journaled result (`IdsOnce`).

Induction is over positions in sequences, by least elements of sets of numbers
(`LeastElement` in `Counting`, from `WFMin` and `NatLessThanWellFounded`).

### The turn

The invariant of `AgentLoop_proofs` has three parts beside the types. `Counters`: a
counter is below its limit at every phase from which a step may still raise it.
`Rows`: which row is open is a function of the phase, except while unwinding, where
the failed call may or may not have started. `Calling`: from the moment a batch
begins until the next model call the last message of the model calls tools; a Stop
continuation leaves the loop head below the budget, so the budget can run out only
there.

`CallsAreAlwaysPaired` adds what the transcript looks like around a batch: no id
is issued twice (`Issued`), a result stands at its call's distance behind its
request (`Placed`), the batch being served is answered up to the phase's index and
nothing follows it (`Batch`), a batch cut short before the last request costs a
crash (`Short`), and without a crash the `ToolEnd`s count the results (`Counted`).
Every action is one of six kinds, told apart by what it does to the transcript
and to the batch, and each kind keeps the invariant.

### A tool call

Authorization: a persisted Allow is for a check that no static rule bears
on (`NarrowRule`); the options of a challenge are such rules; a hook contributes
only within its capability; and from the moment a request is authorized until it
runs each check of the input in hand is cleared - forbidden by nothing, refused by
nobody, approved for exactly this input where approval was needed. The last is
inductive because whatever moves in between also moves a revision, which sends the
call back.

The policy it reads: the history variable `versions` records every content that was
ever in force under its revision. `NumbersIdentify` (one content per number) needs
that what is in force is on record and that no number is beyond its counter
(`Numbered`): then a change takes a number nobody had (`FreshNumber`). `NamesIdentify`
needs that the name `Hooks::push` makes up is nobody's: among one more numbers than
there are hooks one is free (`FreshNameIsFree`, the pigeonhole principle). `UntrustedOnlyTightens`
is arithmetic on the strictness of effects. For `PrefixAlwaysStable` a listing is the
tools in the order of their ranks, and a rank is a count of smaller slots: what stays
in the registry keeps its rank as long as nothing before it goes.

The ledger: a sighting known through the tool's own readings and writes
(`how = "seen"`) whose stamp is the file's version, or the version an edit in
progress was computed from, has its result in the conversation, showing that
version or a marker (`SightingTrue`). The other ways to a sighting are the known
ones. `Memory` has the same argument one path at a time (`MemSightingTrue`), with
what a name resolves to in between: `MemCallTrue` says that the two tools speak of a
name by the path each of them computes, which differ below a symlinked root.

`FetchesConnectAsAuthorized`: every redirect of a call in progress stays with the
host it was prepared for, and a literal address was vetted at its preparation
(`FetchInv`); `BlockedLeadsInside` compares the code's table of blocked addresses with
where packets to them end, for every address form and every embedding.

`CommandsAlwaysEndTruly`: the captured output is the first bytes and the last bytes
of what was read, the head full before the tail takes one (`Captured`); a reader that
met the end of the pipe has read all there will be, because nobody holds it
(`Reading`).

### A conversation

`StreamIsOneShot`: `StreamInv` keeps the assembler's parts equal to what the frames so
far amount to (`Agreement`), under the one line on its way (`LineFollows`), and no
outcome before the channel closes (`StillPending`). The terminal message sorts the
calls by index and the one-shot message lists the known ones in order; that these
are one sequence is a lemma about ranks in finite sets (`RanksFill` in `Counting`). The
one-shot message keeps an empty reasoning block (section 4), so the theorem compares
with the message without it.

`TurnsAlwaysSettle`: what is on the screen, followed by the events on their way, ends
where the running future is (`ScreenFollows`): each event opens the row that is
closed or closes the one that is open (`Carries`). Approvals are shown in the order
asked (`AsksInOrder`), and between runs nothing is on its way (`BetweenRuns`).

`RecursionAlwaysStands`: the messages of a context cover the journal in order
(`InOrder`), the first one is the active summary (`Carried`), and a request covers a
prefix and allows exactly what is in it (`RequestFits`), so that neither a
correction nor a retry lets a foreign reference into the next summary. What may bar
the next request is left open in one case only, the active summary as the whole
prefix (`NothingBars`): that is the case in which the code refuses (section 4).

`DelegationsAlwaysStand`: model calls are on the turn's bill, on the meter of the
batch or with the delegation in progress, and nowhere else (`Billed`); consecutive
requests differ only behind what the cache covers (`RequestsFollow`); the catalogue is
what the shelves say, file by file (`Catalogued`), by induction over their entries.

`RunnersStayAsConfigured`, `ScreenStaysTrue`: what a runner is built with satisfies the
budget's inequalities because of what the validation refuses; what is drawn adds up
to the frame and the scroll position stays within the content.

The tasks: for `ClaimedAfterBlockers` nothing about the order of calls is
needed. What was completed stays in `everDone`, and every document stored, listed or
about to be saved respects it (`Sound`, `CallSound`). `WorkNeverSticks` needs
`WaitInv`: blockers are files and files stay (`BlockersStored`); of any pending tasks
one waits for none of them (`Acyclic`), as long as nothing raced; and so would it be
with what a call that nobody disturbed is about to write. Such a call decides on what
is in the files (`Undisturbed`): what it loaded is still there and what it listed is
what can be read. `NoCycleAdded` is the argument for `would_cycle`: if a set of
pending tasks were each blocked within it, so would be its part that the new blockers
lead to, which does not contain the widened task, or else the set without the new
edges.

The session store: the disk does not change while a transaction is open, so what
the transaction sees is a function of the statements it has run (`Progress`); what
may be committed (`Committable`) agrees with the tables, adds a whole operation to one
journal, and stands for its receipt. The
constants are unconstrained.

### Not proved

Model-checked only:

- `CancelEndsTurn`, `EveryCallEnds` and what else needs liveness or `ENABLED`: beyond
  the prover.
- Properties of functions of data. `PathsLeadWhereTheySay`, `RulesCoverWhatTheySay`
  (recursion over links and patterns), `PagesTileTheWhole`, `ListingIsATree`,
  `WordsSurvive` (pages, listings and words against a whole), `ContextIsManaged`
  (grouping and wire replay of a history) and `KeysDoWhatIsShown` (wrapping and the
  caret): a proof would be an induction over the argument of a fold or of a
  recursive function, which the library's theorems do not give.
- The six runs that expect a violation: their counterexamples are what they show.

## 6. Not modelled

- Reads and effects merged into one step. `Resume` reads the checkpoint and the
  journal at once, although `session/resume.rs:50-51` awaits them one after the other:
  with a second writer, whom the code does not support, a commit between the two is
  not seen. `Authorization.Execute` checks the receipt, revalidates
  (`permission/engine.rs:535`) and runs the tool (`:556`) in one step: what the world
  does in between is left to the tools' own modules (`ReadLedger`, `Memory`,
  `TaskStore`, `PathRules`).
- Rows of a subagent's calls under its `task` row (`kuncode-cli/src/tui/app.rs:485-521`).
  `RowsSettle` speaks of top-level rows: when a turn is cancelled the future of its
  `task` call is dropped (`permission/engine.rs:555-558`), and a child row may be left
  running.
- A failing `wait` on a shell (`tool/bash.rs:175-178`).
- Wording, layout, colours, the typewriter effect and the clipping of pickers;
  rows beyond 65535; logging.
- Schema migration and the permissions of the database file, listings of sessions
  and their previews, JSON codecs, tool schemas.
- Multi-line matches, file filters and the early stop of grep's files mode; labels
  of charsets and the sniffing window of web pages (one declared charset stands
  for them).
- `load_skill`, argument parsing, the line-mode approval prompt, instruction
  files.
- The approval broker's deadlines and duplicate claims, which its caller in the
  engine cannot produce.
- A read error on a shell's pipe (it counts as closed), a filesystem that fails
  in the middle of a listing.
- Store calls and local I/O are assumed to return.
