-------------------------------- MODULE Frontend --------------------------------
(***************************************************************************)
(* The terminal front end: the idle loop that takes commands between turns, *)
(* and the select loop that runs while a turn or a compaction does.  It     *)
(* folds four sources (the running future, the observer's event channel,    *)
(* the approval channel, the keyboard) in whatever order they become ready. *)
(***************************************************************************)
EXTENDS Naturals, Sequences, SequencesExt

CONSTANTS
    StoredIds,      \* session ids of this project, each a sequence of letters
    RowIds,         \* ids the provider gives tool calls, used again at will
    StartModes,     \* permission modes a process may be started in
    Models,         \* models of the startup registry
    MaxRuns,        \* bound on turns and compactions
    MaxEvents,      \* bound on the events of one of them
    MaxAsks,        \* bound on approval requests
    MaxKeys,        \* bound on what is done between turns
    MaxInputs       \* bound on the runs, requests and doings together

VARIABLES
    place,      \* "start", "idle", "picker", "turn", "compact" or "quit"
    job,        \* the future the loop polls
    eventQueue, askQueue,   \* the two unbounded channels
    modal,      \* the approval request on screen, 0 when none
    screen,     \* status, streamed preview, tool rows
    footer,     \* what the screen says of mode and model
    live,       \* the session in use and the model the runner calls
    tally       \* counters that bound the model

uiVars == <<place, job, eventQueue, askQueue, modal, screen, footer, live, tally>>

NoRow == [call |-> 0, id |-> "none"]
Session(id, mode) == [id |-> id, mode |-> mode]
NewSession == <<>>      \* a durable id is made with the first message only
InputsLeft == tally.runs + tally.asks + tally.keys < MaxInputs
NoJob == [st |-> "none", open |-> NoRow, events |-> 0, stop |-> FALSE]

-----------------------------------------------------------------------------
(* Starting: --continue and --resume.                                      *)

Matching(text) == {s \in StoredIds : IsPrefix(text, s)}
ChosenBy(text) ==
    IF text \in StoredIds THEN {text}
    ELSE IF \E s \in StoredIds : Matching(text) = {s} THEN Matching(text) ELSE {}

UiInit ==
    /\ place = "start"
    /\ job = NoJob
    /\ eventQueue = <<>> /\ askQueue = <<>> /\ modal = 0
    /\ screen = [status |-> "idle", preview |-> FALSE, rows |-> <<>>]
    /\ \E m \in StartModes, model \in Models :
          /\ footer = [mode |-> m, model |-> model, startup |-> m]
          /\ live = [session |-> Session(NewSession, m), model |-> model]
    /\ tally = [runs |-> 0, calls |-> 0, asks |-> 0, keys |-> 0]

Untouched == UNCHANGED <<job, eventQueue, askQueue, modal, screen, tally>>

StartNew == place = "start" /\ place' = "idle" /\ UNCHANGED <<footer, live>> /\ Untouched

\* The most recent, a picked one, or the one a text names.
StartResumed ==
    /\ place = "start" /\ place' = "idle"
    /\ \E s \in StoredIds : live' = [live EXCEPT !.session = Session(s, footer.startup)]
    /\ UNCHANGED footer /\ Untouched

StartNamed(text) ==
    /\ place = "start"
    /\ \/ /\ place' = "idle"
          /\ \E s \in ChosenBy(text) : live' = [live EXCEPT !.session = Session(s, footer.startup)]
       \/ place' = "quit" /\ ChosenBy(text) = {} /\ UNCHANGED live
    /\ UNCHANGED footer /\ Untouched

\* The store cannot be opened, or the session not rebuilt.
StartFails == place = "start" /\ place' = "quit" /\ UNCHANGED <<footer, live>> /\ Untouched

-----------------------------------------------------------------------------
(* Between turns.                                                          *)

BetweenTurns ==
    /\ InputsLeft /\ tally.keys < MaxKeys /\ tally' = [tally EXCEPT !.keys = @ + 1]
    /\ UNCHANGED <<job, eventQueue, askQueue, modal, screen>>

NextMode(m) == CASE m = "default" -> "accept-edits" [] m = "accept-edits" -> "plan" [] OTHER -> "default"

CycleMode ==
    /\ place = "idle" /\ BetweenTurns
    /\ live' = [live EXCEPT !.session.mode = NextMode(footer.mode)]
    /\ footer' = [footer EXCEPT !.mode = NextMode(footer.mode)]
    /\ UNCHANGED place

\* An unknown name leaves everything as it is.
SwitchModel ==
    /\ place = "idle" /\ BetweenTurns
    /\ \E model \in Models :
          live' = [live EXCEPT !.model = model] /\ footer' = [footer EXCEPT !.model = model]
    /\ UNCHANGED place

OpenPicker == place = "idle" /\ BetweenTurns /\ place' = "picker" /\ UNCHANGED <<footer, live>>

\* The rebuilt session starts in the startup mode; the live mode is put back.
Rebuilt(s) == Session(s, footer.mode)
RebuiltAtStartup(s) == Session(s, footer.startup)
ResumeSession(s) == Rebuilt(s)

\* Escape, the running session picked again, or a failing resume keep it.
PickSession ==
    /\ place = "picker" /\ place' = "idle"
    /\ \/ UNCHANGED <<live, screen>>
       \/ \E s \in StoredIds \ {live.session.id} :
             /\ live' = [live EXCEPT !.session = ResumeSession(s)]
             /\ screen' = [screen EXCEPT !.rows = <<>>]
    /\ UNCHANGED <<footer, job, eventQueue, askQueue, modal, tally>>

Quit == place \in {"idle", "picker"} /\ place' = "quit" /\ UNCHANGED <<footer, live>> /\ Untouched

Begin(where, status) ==
    /\ place = "idle" /\ InputsLeft /\ tally.runs < MaxRuns
    /\ place' = where
    /\ job' = [NoJob EXCEPT !.st = "working"]
    /\ screen' = [screen EXCEPT !.status = status]
    /\ tally' = [tally EXCEPT !.runs = @ + 1]
    /\ UNCHANGED <<eventQueue, askQueue, modal, footer, live>>

SubmitPrompt == Begin("turn", "running")
SubmitCompact == Begin("compact", "compacting")

-----------------------------------------------------------------------------
(* The future: it reports through the observer and asks for approvals.      *)

Running == place \in {"turn", "compact"}
Event(kind, id, call) == [kind |-> kind, id |-> id, call |-> call]
Send(e) == eventQueue' = Append(eventQueue, e)

Reports(kinds) ==
    /\ Running /\ job.st = "working" /\ job.events < MaxEvents
    /\ \E k \in kinds : Send(Event(k, "none", 0))
    /\ job' = [job EXCEPT !.events = @ + 1]
    /\ UNCHANGED <<place, askQueue, modal, screen, footer, live, tally>>

Narrates == place = "turn" /\ Reports({"model_start", "delta", "assistant"})
Compacts == Reports({"compaction_started", "compaction_done"})

OpensRow ==
    /\ place = "turn" /\ job.st = "working" /\ job.open = NoRow /\ job.events < MaxEvents
    /\ \E id \in RowIds :
          /\ Send(Event("tool_start", id, tally.calls + 1))
          /\ job' = [job EXCEPT !.open = [call |-> tally.calls + 1, id |-> id], !.events = @ + 1]
    /\ tally' = [tally EXCEPT !.calls = @ + 1]
    /\ UNCHANGED <<place, askQueue, modal, screen, footer, live>>

ClosesRow ==
    /\ place = "turn" /\ job.st = "working" /\ job.open # NoRow
    /\ Send(Event("tool_end", job.open.id, job.open.call))
    /\ job' = [job EXCEPT !.open = NoRow]
    /\ UNCHANGED <<place, askQueue, modal, screen, footer, live, tally>>

\* An unknown tool or bad arguments: the call ends without having started.
RefusesCall ==
    /\ place = "turn" /\ job.st = "working" /\ job.open = NoRow /\ job.events < MaxEvents
    /\ \E id \in RowIds : Send(Event("refused", id, tally.calls + 1))
    /\ job' = [job EXCEPT !.events = @ + 1]
    /\ tally' = [tally EXCEPT !.calls = @ + 1]
    /\ UNCHANGED <<place, askQueue, modal, screen, footer, live>>

Asks ==
    /\ place = "turn" /\ job.st = "working" /\ InputsLeft /\ tally.asks < MaxAsks
    /\ askQueue' = Append(askQueue, tally.asks + 1)
    /\ tally' = [tally EXCEPT !.asks = @ + 1]
    /\ job' = [job EXCEPT !.st = "asking"]
    /\ UNCHANGED <<place, eventQueue, modal, screen, footer, live>>

\* An open row is closed on the way out of a cancelled or finished turn.
Ends ==
    /\ job' = [job EXCEPT !.st = "done", !.open = NoRow]
    /\ IF job.open = NoRow THEN UNCHANGED eventQueue ELSE Send(Event("tool_end", job.open.id, job.open.call))
    /\ UNCHANGED <<place, askQueue, modal, screen, footer, live, tally>>

Finishes == Running /\ job.st = "working" /\ job.open = NoRow /\ Ends
Stopped ==
    /\ Running
    /\ job.st \in {"aborted"} \cup (IF job.stop THEN {"working", "asking"} ELSE {})
    /\ Ends

-----------------------------------------------------------------------------
(* App::apply_event.                                                       *)

Indices(rows, id) == {i \in 1..Len(rows) : rows[i].id = id}
\* The newest row with the id.
OldestRow(rows, id) == CHOOSE i \in Indices(rows, id) : \A j \in Indices(rows, id) : i <= j
NewestRow(rows, id) == CHOOSE i \in Indices(rows, id) : \A j \in Indices(rows, id) : j <= i

Row(e, by) == [id |-> e.id, call |-> e.call, by |-> by]
ClosedRows(rows, e) ==
    IF Indices(rows, e.id) = {} THEN Append(rows, Row(e, e))
    ELSE [rows EXCEPT ![NewestRow(rows, e.id)].by = e]

Unstarted == [kind |-> "none"]
ApplyEvent(s, e) ==
    CASE e.kind = "model_start" ->
            [s EXCEPT !.preview = FALSE, !.status = IF @ = "compacting" THEN "running" ELSE @]
      [] e.kind = "delta" -> [s EXCEPT !.preview = TRUE]
      [] e.kind = "assistant" -> [s EXCEPT !.preview = FALSE]
      [] e.kind = "compaction_started" -> [s EXCEPT !.status = "compacting"]
      [] e.kind = "compaction_done" -> [s EXCEPT !.status = "running"]
      [] e.kind = "tool_start" -> [s EXCEPT !.rows = Append(@, Row(e, Unstarted))]
      [] e.kind \in {"tool_end", "refused"} -> [s EXCEPT !.rows = ClosedRows(@, e)]

TakeEvent ==
    /\ Running /\ eventQueue # <<>>
    /\ screen' = ApplyEvent(screen, Head(eventQueue))
    /\ eventQueue' = Tail(eventQueue)
    /\ UNCHANGED <<place, job, askQueue, modal, footer, live, tally>>

-----------------------------------------------------------------------------
(* Approvals and keys while a turn runs.                                   *)

KeepFirst(shown, asked) == IF shown # 0 THEN shown ELSE asked
SetApproval(shown, asked) == asked

TakeAsk ==
    /\ place = "turn" /\ askQueue # <<>>
    /\ modal' = SetApproval(modal, Head(askQueue))
    /\ askQueue' = Tail(askQueue)
    /\ UNCHANGED <<place, job, eventQueue, screen, footer, live, tally>>

\* Only the request the future waits for hears the answer.
Pending(request) == job.st = "asking" /\ request = tally.asks

KeyDecides ==
    /\ place = "turn" /\ modal # 0 /\ modal' = 0
    /\ job' = IF Pending(modal) THEN [job EXCEPT !.st = "working"] ELSE job
    /\ UNCHANGED <<place, eventQueue, askQueue, screen, footer, live, tally>>

\* Escape, or Ctrl-C while the modal has the keys.
KeyAborts ==
    /\ place = "turn" /\ modal # 0 /\ modal' = 0
    /\ job' = IF Pending(modal) THEN [job EXCEPT !.st = "aborted"] ELSE job
    /\ UNCHANGED <<place, eventQueue, askQueue, screen, footer, live, tally>>

KeyInterrupts ==
    /\ Running /\ modal = 0
    /\ job' = [job EXCEPT !.stop = TRUE]
    /\ UNCHANGED <<place, eventQueue, askQueue, modal, screen, footer, live, tally>>

\* The future is done: what it still has in the channel is drawn, its preview
\* becomes the answer or an error, and the prompt is given back.
Drained(s) ==
    LET after[n \in 0..Len(eventQueue)] == IF n = 0 THEN s ELSE ApplyEvent(after[n - 1], eventQueue[n])
    IN after[Len(eventQueue)]
ReturnsThenDrained == Drained([screen EXCEPT !.preview = FALSE, !.status = "idle"])
Returned == [Drained(screen) EXCEPT !.preview = FALSE, !.status = "idle"]

JobReturns ==
    /\ Running /\ job.st = "done"
    /\ place' = "idle"
    /\ screen' = Returned /\ eventQueue' = <<>>
    /\ job' = NoJob
    /\ UNCHANGED <<askQueue, modal, footer, live, tally>>

\* Reading a key or drawing fails: the loop unwinds and drops the future.
TerminalFails ==
    /\ place \in {"idle", "picker", "turn", "compact"}
    /\ place' = "quit" /\ job' = NoJob
    /\ UNCHANGED <<eventQueue, askQueue, modal, screen, footer, live, tally>>

UiNext ==
    \/ StartNew \/ StartResumed \/ StartFails
    \/ \E s \in StoredIds : \E n \in 1..Len(s) : StartNamed(SubSeq(s, 1, n))
    \/ CycleMode \/ SwitchModel \/ OpenPicker \/ PickSession \/ Quit
    \/ SubmitPrompt \/ SubmitCompact
    \/ Narrates \/ Compacts \/ OpensRow \/ ClosesRow \/ RefusesCall \/ Asks \/ Finishes \/ Stopped
    \/ TakeEvent \/ TakeAsk \/ KeyDecides \/ KeyAborts \/ KeyInterrupts \/ JobReturns \/ TerminalFails

UiSpec == UiInit /\ [][UiNext]_uiVars

-----------------------------------------------------------------------------
\* Between turns the screen owes nothing to the turn before: it says it is
\* ready, no preview is left, and every event was drawn in the turn that sent
\* it, whichever source the loop served first (run_one_turn, run_compaction).
PromptIsClean ==
    place \in {"idle", "picker"} =>
        eventQueue = <<>> /\ screen.status = "idle" /\ ~screen.preview

\* Once a turn is over every row has an outcome, and the outcome is its own
\* call's: only a call refused before it had a row, with an id used before,
\* can have written on another call's row (tool_state_mut).
RowsSettle ==
    place \in {"idle", "picker"} =>
        \A i \in 1..Len(screen.rows) :
            LET row == screen.rows[i]
            IN row.by # Unstarted /\ (row.by.call # row.call => row.by.kind = "refused")

\* The mode and model in the footer are those the next call is decided and made
\* under, through mode switches, model switches and resumes in any order
\* (event_loop: the session overlay is the authority, the footer mirrors it).
FooterIsTrue ==
    place \in {"idle", "picker", "turn", "compact"} =>
        footer.mode = live.session.mode /\ footer.model = live.model

\* A turn that waits for an answer can get it: its request is on the way to the
\* screen or on it, also when an older request is still shown (set_approval).
AskIsReachable ==
    place = "turn" /\ job.st = "asking" =>
        modal = tally.asks \/ tally.asks \in Range(askQueue)

\* A turn that waits for an answer can get it, and once it is over the screen
\* owes nothing to it: every event was drawn, every row has its own call's
\* outcome; whenever a turn can begin, the footer has the mode and model it will
\* run under (run_one_turn, set_approval, tool_state_mut, event_loop).
TurnsSettle == AskIsReachable /\ PromptIsClean /\ RowsSettle /\ FooterIsTrue

\* The approval panel is up only while an approval is pending, so never at the
\* prompt, where no key reaches it (tui/app.rs, App::approval).
PanelOnlyWhilePending == place = "idle" => modal = 0

=============================================================================
