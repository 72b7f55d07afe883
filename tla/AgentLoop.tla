------------------------------- MODULE AgentLoop -------------------------------
(***************************************************************************)
(* The turn loop of AgentRunner over one session: prompt hooks, model      *)
(* requests, tool batches with their authorization, execution and result   *)
(* pairing, PostToolUse feedback, Stop-hook continuations, plan reminders, *)
(* the iteration budget, cancellation at every await, and a crash between  *)
(* any two transcript writes followed by a resume from the journal.        *)
(*                                                                         *)
(* Messages are abstracted to what pairing tells apart; call ids are fresh *)
(* numbers, as providers issue them.  Row 0 of the observer is the         *)
(* "thinking" row, row n the row of tool call n.                           *)
(***************************************************************************)
EXTENDS Naturals, Sequences, FiniteSets

CONSTANTS
    Hooks,          \* BOOLEAN: is any hook registered
    Faults,         \* BOOLEAN: may a journal append fail
    MaxIterations,  \* config.max_iterations
    StopLimit,      \* STOP_CONTINUATION_LIMIT
    ReminderInterval, \* config.todo_reminder_interval
    MaxRestarts,    \* MAX_AUTHORIZATION_RESTARTS
    MaxBatch,       \* bound on the tool calls of one assistant message
    MaxTurns,       \* bound on the turns of a history
    MaxCrashes      \* bound on process crashes

ASSUME LoopAssumption ==
    /\ Hooks \in BOOLEAN /\ Faults \in BOOLEAN
    /\ {MaxIterations, StopLimit, ReminderInterval, MaxRestarts, MaxBatch,
        MaxTurns, MaxCrashes} \subseteq Nat

VARIABLES
    msgs,       \* the transcript
    durable,    \* how many of its first messages have a journal row
    authority,  \* does the session still hold persistence authority
    turn,       \* the turn in progress, or the result of the last one
    cancelled,  \* the turn's cancellation token
    open,       \* observer rows started and not ended
    ends,       \* ToolEnd events seen, per call id
    turns,      \* turns begun
    crashes     \* processes that ended in mid-history

vars == <<msgs, durable, authority, turn, cancelled, open, ends, turns, crashes>>

-----------------------------------------------------------------------------
(* Messages.                                                               *)

Human == [kind |-> "human", calls |-> <<>>, id |-> 0]
User  == [kind |-> "user", calls |-> <<>>, id |-> 0]    \* harness-authored
Assistant(calls) == [kind |-> "assistant", calls |-> calls, id |-> 0]
Result(id) == [kind |-> "result", calls |-> <<>>, id |-> id]

Message == [kind : {"human", "user", "assistant", "result"}, calls : Seq(Nat), id : Nat]

IssuedCalls == Len(ends)

Phases == {"idle", "prompt", "human", "context", "head", "prepare", "model",
           "final", "stop", "serve", "authorizing", "running", "post", "unwind"}

Turn == [phase : Phases, iteration : 0..MaxIterations, calls : Seq(Nat), index : Nat,
         context : BOOLEAN, feedback : Nat, idle : Nat, stops : 0..StopLimit,
         planMoved : BOOLEAN, restarts : 0..MaxRestarts,
         result : {"none", "ok", "blocked", "cancelled", "failed", "empty", "max_iterations"}]

NewTurn == [phase |-> "idle", iteration |-> 0, calls |-> <<>>, index |-> 1,
            context |-> FALSE, feedback |-> 0, idle |-> 0, stops |-> 0,
            planMoved |-> FALSE, restarts |-> 0, result |-> "none"]

TypeOK ==
    /\ msgs \in Seq(Message)
    /\ durable \in 0..Len(msgs)
    /\ authority \in BOOLEAN
    /\ turn \in Turn
    /\ cancelled \in BOOLEAN
    /\ ends \in Seq(Nat)
    /\ open \subseteq 0..IssuedCalls
    /\ turns \in 0..MaxTurns
    /\ crashes \in 0..MaxCrashes

Init ==
    /\ msgs = <<>>
    /\ durable = 0
    /\ authority = TRUE
    /\ turn = NewTurn
    /\ cancelled = FALSE
    /\ open = {}
    /\ ends = <<>>
    /\ turns = 0
    /\ crashes = 0

-----------------------------------------------------------------------------
(* Shared effects.                                                         *)

At(phase) == turn.phase = phase

(* persist_message and push: journaled, or authority is lost (with or      *)
(* without the row), or there was no authority left.                       *)
Record(m) ==
    /\ msgs' = Append(msgs, m)
    /\ \/ authority /\ durable' = durable + 1 /\ UNCHANGED authority
       \/ Faults /\ authority /\ durable' \in {durable, durable + 1} /\ authority' = FALSE
       \/ ~authority /\ UNCHANGED <<durable, authority>>

Silent == UNCHANGED <<msgs, durable, authority>>
Quiet  == UNCHANGED <<open, ends>>
Same   == UNCHANGED <<cancelled, turns, crashes>>

Goto(phase) == turn' = [turn EXCEPT !.phase = phase]

(* The turn returns; the terminal Error of a failed turn closes the        *)
(* thinking row.                                                           *)
Finish(result) ==
    /\ turn' = [turn EXCEPT !.phase = "idle", !.result = result]
    /\ open' = IF result = "ok" THEN open ELSE open \ {0}
    /\ UNCHANGED ends
    /\ Silent

Call == turn.calls[turn.index]
InBatch == turn.index <= Len(turn.calls)

(* record_result: ToolEnd, then the transcript's tool_result.              *)
Answer ==
    /\ open' = open \ {Call}
    /\ ends' = [ends EXCEPT ![Call] = @ + 1]
    /\ Record(Result(Call))

(* The turn is abandoned: calls from `first` on are still unpaired.        *)
Unwind(first, result) ==
    /\ turn' = [turn EXCEPT !.phase = "unwind", !.index = first, !.result = result]
    /\ Silent /\ Quiet

-----------------------------------------------------------------------------
(* Entering a turn.                                                        *)

(* run_turn_with: a fresh token; the prompt hook runs before the push.     *)
RunTurn ==
    /\ At("idle")
    /\ turns < MaxTurns
    /\ turns' = turns + 1
    /\ cancelled' = FALSE
    /\ turn' = [NewTurn EXCEPT !.phase = IF Hooks THEN "prompt" ELSE "human"]
    /\ UNCHANGED crashes /\ Silent /\ Quiet

(* continue_session_with                                                   *)
ContinueSession ==
    /\ At("idle")
    /\ turns < MaxTurns
    /\ turns' = turns + 1
    /\ cancelled' = FALSE
    /\ turn' = IF msgs = <<>> THEN [NewTurn EXCEPT !.result = "empty"]
                              ELSE [NewTurn EXCEPT !.phase = "head"]
    /\ UNCHANGED crashes /\ Silent /\ Quiet

PromptHook ==
    /\ At("prompt")
    /\ \/ cancelled /\ Finish("cancelled")
       \/ ~cancelled /\ Finish("blocked")
       \/ /\ ~cancelled
          /\ \E adds \in BOOLEAN :
                turn' = [turn EXCEPT !.phase = "human", !.context = adds]
          /\ Silent /\ Quiet
    /\ Same

PushHuman ==
    /\ At("human")
    /\ Record(Human)
    /\ Goto(IF turn.context THEN "context" ELSE "head")
    /\ Quiet /\ Same

PushContext ==
    /\ At("context")
    /\ Record(User)
    /\ Goto("head")
    /\ Quiet /\ Same

-----------------------------------------------------------------------------
(* One iteration: reminder, request, model.                                *)

IdleNow == IF turn.planMoved THEN 0 ELSE turn.idle

LoopHead ==
    /\ At("head")
    /\ turn.iteration < MaxIterations
    /\ IF IdleNow >= ReminderInterval
       THEN /\ Record(User)
            /\ turn' = [turn EXCEPT !.phase = "prepare", !.planMoved = FALSE, !.idle = 1]
       ELSE /\ Silent
            /\ turn' = [turn EXCEPT !.phase = "prepare", !.planMoved = FALSE,
                                    !.idle = IdleNow + 1]
    /\ Quiet /\ Same

BudgetExhausted ==
    /\ At("head")
    /\ turn.iteration >= MaxIterations
    /\ Finish("max_iterations")
    /\ Same

(* prepare_request, then ModelStart; the budget, the encoding or the       *)
(* compaction may fail, and a cancelled summary cancels the turn.          *)
PrepareRequest ==
    /\ At("prepare")
    /\ \/ Goto("model") /\ open' = open \cup {0} /\ UNCHANGED ends /\ Silent
       \/ Finish("failed")
       \/ cancelled /\ Finish("cancelled")
    /\ Same

(* Mutant: the model await is not raced against the token.                 *)
ModelNotRaced == At("model") /\ cancelled /\ FALSE /\ UNCHANGED vars

(* cancellable() is biased: a cancelled token always wins.                 *)
ModelCancelled == At("model") /\ cancelled /\ Finish("cancelled") /\ Same

ModelFails == At("model") /\ ~cancelled /\ Finish("failed") /\ Same

ModelAnswers(n) ==
    LET calls == [i \in 1..n |-> IssuedCalls + i] IN
    /\ At("model")
    /\ ~cancelled
    /\ Record(Assistant(calls))
    /\ open' = open \ {0}
    /\ ends' = ends \o [i \in 1..n |-> 0]
    /\ turn' = [turn EXCEPT !.phase = IF n = 0 THEN "final" ELSE "serve",
                            !.calls = calls, !.index = 1]
    /\ Same

-----------------------------------------------------------------------------
(* A final answer, and the Stop hook that may ask for more.                *)

(* Mutant: a continuation is granted without budget for another call.      *)
MayContinueUnbudgeted == Hooks /\ turn.stops < StopLimit

MayContinue ==
    /\ Hooks
    /\ turn.stops < StopLimit
    /\ turn.iteration + 1 < MaxIterations

FinalAnswer ==
    /\ At("final")
    /\ IF MayContinue THEN Goto("stop") /\ Silent /\ Quiet
                      ELSE Finish("ok")
    /\ Same

StopHook ==
    /\ At("stop")
    /\ \/ cancelled /\ Finish("cancelled")
       \/ ~cancelled /\ Finish("ok")
       \/ /\ ~cancelled
          /\ Record(User)
          /\ turn' = [turn EXCEPT !.phase = "head", !.stops = @ + 1,
                                  !.iteration = @ + 1]
          /\ Quiet
    /\ Same

-----------------------------------------------------------------------------
(* execute_tool_calls: one call after the other.                           *)

NextCall == turn' = [turn EXCEPT !.phase = "serve", !.index = @ + 1, !.restarts = 0]

(* Unknown tool, bad arguments, or a rewrite that never stabilized: the    *)
(* call is answered without a ToolStart.                                   *)
RejectEarly ==
    /\ At("serve") /\ InBatch
    /\ Answer /\ NextCall
    /\ Same

(* A stable authorization request: ToolStart.                              *)
ToolStart ==
    /\ At("serve") /\ InBatch
    /\ open' = open \cup {Call}
    /\ Goto("authorizing")
    /\ UNCHANGED ends /\ Silent /\ Same

(* A permission-profile violation or another authorization error.          *)
AuthorizationError ==
    /\ InBatch
    /\ At("serve") \/ At("authorizing")
    /\ Unwind(turn.index, "failed")
    /\ Same

(* The token fires while a hook, an approval or the tool is awaited.       *)
CallCancelled ==
    /\ InBatch
    /\ At("serve") \/ At("authorizing") \/ At("running")
    /\ cancelled
    /\ Unwind(turn.index, "cancelled")
    /\ Same

(* The approver answers Cancel: the token need not have fired.             *)
ApprovalCancels ==
    /\ At("authorizing")
    /\ Unwind(turn.index, "cancelled")
    /\ Same

Denied ==
    /\ At("authorizing")
    /\ Answer /\ NextCall
    /\ Same

(* Mutant: a stale receipt is retried without limit.                       *)
StaleReceiptUnbounded ==
    /\ At("authorizing")
    /\ turn.restarts <= MaxRestarts
    /\ turn' = [turn EXCEPT !.restarts = @ + 1]
    /\ Silent /\ Quiet /\ Same

(* The receipt no longer matches its context: authorize again, a bounded   *)
(* number of times.                                                        *)
StaleReceipt ==
    /\ At("authorizing")
    /\ IF turn.restarts < MaxRestarts
       THEN turn' = [turn EXCEPT !.restarts = @ + 1] /\ Silent /\ Quiet
       ELSE Answer /\ NextCall
    /\ Same

(* The races inside the engine are not biased: the tool may start although *)
(* the token has fired.                                                    *)
ToolRuns ==
    /\ At("authorizing")
    /\ Goto("running")
    /\ Silent /\ Quiet /\ Same

ToolCompletes(plan) ==
    /\ At("running")
    /\ Answer
    /\ turn' = [turn EXCEPT !.phase = IF Hooks THEN "post" ELSE "serve",
                            !.index = IF Hooks THEN @ ELSE @ + 1,
                            !.restarts = 0,
                            !.planMoved = @ \/ plan]
    /\ Same

(* Mutant: the failing call itself is left out of the pairing.             *)
ToolFailsUnpaired ==
    /\ At("running")
    /\ Unwind(turn.index + 1, "failed")
    /\ Same

(* A harness error: the call did run, and is answered as a failure.        *)
ToolFails ==
    /\ At("running")
    /\ Unwind(turn.index, "failed")
    /\ Same

(* Mutant: feedback is written at once, between two results.               *)
PostHookInterleaves ==
    /\ At("post")
    /\ ~cancelled
    /\ Record(User)
    /\ NextCall
    /\ Quiet /\ Same

(* Mutant: on cancellation the answered call is paired a second time.      *)
PostHookRepairs ==
    /\ At("post")
    /\ cancelled
    /\ Unwind(turn.index, "cancelled")
    /\ Same

(* PostToolUse: this call's result is already written; feedback waits for  *)
(* the end of the batch.                                                   *)
PostHook ==
    /\ At("post")
    /\ \/ cancelled /\ Unwind(turn.index + 1, "cancelled")
       \/ ~cancelled /\ NextCall /\ Silent /\ Quiet
       \/ /\ ~cancelled
          /\ turn' = [turn EXCEPT !.phase = "serve", !.index = @ + 1,
                                  !.feedback = @ + 1]
          /\ Silent /\ Quiet
    /\ Same

FlushFeedback ==
    /\ At("serve") /\ ~InBatch
    /\ turn.feedback > 0
    /\ Record(User)
    /\ turn' = [turn EXCEPT !.feedback = @ - 1]
    /\ Quiet /\ Same

BatchDone ==
    /\ At("serve") /\ ~InBatch
    /\ turn.feedback = 0
    /\ turn' = [turn EXCEPT !.phase = "head", !.iteration = @ + 1]
    /\ Silent /\ Quiet /\ Same

(* pair_unpaired, one result at a time, then the terminal error.           *)
PairUnpaired ==
    /\ At("unwind") /\ InBatch
    /\ Answer
    /\ turn' = [turn EXCEPT !.index = @ + 1]
    /\ Same

Unwound ==
    /\ At("unwind") /\ ~InBatch
    /\ Finish(turn.result)
    /\ Same

-----------------------------------------------------------------------------
(* The user and the machine.                                               *)

Cancel ==
    /\ ~At("idle")
    /\ ~cancelled
    /\ cancelled' = TRUE
    /\ UNCHANGED <<msgs, durable, authority, turn, open, ends, turns, crashes>>

(* The process ends; the next one resumes the session from its journal.    *)
Crash ==
    /\ crashes < MaxCrashes
    /\ crashes' = crashes + 1
    /\ msgs' = SubSeq(msgs, 1, durable)
    /\ authority' = TRUE
    /\ turn' = NewTurn
    /\ cancelled' = FALSE
    /\ open' = {}
    /\ UNCHANGED <<durable, ends, turns>>

(* What the runner does without waiting for anyone, or because the token   *)
(* fired.                                                                  *)
Runner ==
    \/ PushHuman \/ PushContext \/ LoopHead \/ BudgetExhausted \/ PrepareRequest
    \/ ModelCancelled \/ FinalAnswer \/ CallCancelled
    \/ FlushFeedback \/ BatchDone \/ PairUnpaired \/ Unwound
    \/ cancelled /\ (PromptHook \/ StopHook \/ PostHook)

(* What model, tools, hooks and approvers answer.                          *)
Environment ==
    \/ RunTurn \/ ContinueSession
    \/ PromptHook \/ StopHook \/ PostHook
    \/ ModelFails \/ \E n \in 0..MaxBatch : ModelAnswers(n)
    \/ RejectEarly \/ ToolStart \/ AuthorizationError \/ ApprovalCancels
    \/ Denied \/ StaleReceipt \/ ToolRuns \/ ToolFails
    \/ \E plan \in BOOLEAN : ToolCompletes(plan)

Next == Runner \/ Environment \/ Cancel \/ Crash

Spec == Init /\ [][Next]_vars

(* The runner's own steps are polled by the async runtime and wait only    *)
(* for local work; nothing is assumed of model, tools, hooks or approvers. *)
FairSpec == Spec /\ WF_vars(Runner)

-----------------------------------------------------------------------------
(* Properties.                                                             *)

Answered(s, p) ==
    \A j \in DOMAIN s[p].calls :
        p + j <= Len(s) /\ s[p + j] = Result(s[p].calls[j])

Gaps(s) == {p \in DOMAIN s : s[p].kind = "assistant" /\ ~Answered(s, p)}

Orphans(s) ==
    {r \in DOMAIN s : s[r].kind = "result" /\
        ~\E p \in 1..(r - 1) : /\ s[p].kind = "assistant"
                               /\ r - p \in DOMAIN s[p].calls
                               /\ s[p].calls[r - p] = s[r].id}

(* Every tool call is followed at once by its results, in call order.      *)
Paired(s) == Cardinality(Gaps(s)) <= crashes /\ Orphans(s) = {}

(* Whatever ended the turns before - errors, cancellation between calls,   *)
(* feedback, reminders, failed appends - the model is never sent a         *)
(* transcript with a dangling, misplaced or orphaned tool result; only a   *)
(* crash inside a batch can leave one batch short, one per crash.          *)
RequestsPaired == At("model") => Paired(msgs)

(* Mutant: the request message itself stays in the copy.                   *)
TrimAfterRequest(s) ==
    LET requests == {p \in DOMAIN s : s[p].kind = "assistant"} IN
    IF requests = {} THEN s
    ELSE LET last == CHOOSE p \in requests : \A q \in requests : q <= p
         IN IF s[last].calls = <<>> THEN s ELSE SubSeq(s, 1, last)

(* trim_unpaired_tail: the copy a fork starts from.                        *)
TrimUnpairedTail(s) ==
    LET requests == {p \in DOMAIN s : s[p].kind = "assistant"} IN
    IF requests = {} THEN s
    ELSE LET last == CHOOSE p \in requests : \A q \in requests : q <= p
         IN IF s[last].calls = <<>> THEN s ELSE SubSeq(s, 1, last - 1)

(* A subagent forked while any call of a batch is served starts from a     *)
(* transcript a provider accepts.                                          *)
ForkPaired == At("serve") /\ InBatch => Paired(TrimUnpairedTail(msgs))

ResultsOf(id) == {i \in DOMAIN msgs : msgs[i].kind = "result" /\ msgs[i].id = id}

(* Every call of the model is answered exactly once, and each answer has   *)
(* exactly one ToolEnd, on every path out of the batch.                    *)
AnsweredOnce ==
    /\ \A id \in 1..IssuedCalls : Cardinality(ResultsOf(id)) <= 1
    /\ crashes = 0 => \A id \in 1..IssuedCalls : Cardinality(ResultsOf(id)) = ends[id]
    /\ crashes = 0 /\ At("idle") => \A id \in 1..IssuedCalls : ends[id] = 1

(* No provider and no subagent is ever given a transcript with a call and  *)
(* no result of it, and no call is answered twice (execute_tool_calls,     *)
(* pair_unpaired, trim_unpaired_tail).                                     *)
CallsArePaired == RequestsPaired /\ ForkPaired /\ AnsweredOnce

(* No tool row outlives its turn, no two are open at once, and nothing is  *)
(* left thinking.                                                          *)
RowsClosed ==
    /\ Cardinality(open) <= 1
    /\ At("idle") => open = {}

(* A turn runs out of budget only while the model is still calling tools:  *)
(* an answer it gave is never turned into a MaxIterations error.           *)
FinalAnswerKept ==
    turn.result = "max_iterations" /\ MaxIterations > 0 =>
        \E p \in DOMAIN msgs :
            /\ msgs[p].kind = "assistant" /\ msgs[p].calls # <<>>
            /\ \A q \in (p + 1)..Len(msgs) : msgs[q].kind # "assistant"

(* However a turn ends, no row outlives it and no answer is lost to the    *)
(* budget (terminal_error, run_loop).                                      *)
TurnsEndWell == RowsClosed /\ FinalAnswerKept

(* Cancelling a turn ends it although model, tools, hooks and approvers    *)
(* may never answer.                                                       *)
CancelEndsTurn == cancelled /\ ~At("idle") ~> At("idle")

(* cancellation.rs: an already-cancelled token wins deterministically and  *)
(* the future - here a tool execution - is never started.                  *)
NothingStartsAfterCancel ==
    [][cancelled /\ ~At("running") => turn'.phase # "running"]_vars

=============================================================================
